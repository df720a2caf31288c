------------------------------- MODULE Signal -------------------------------
(***************************************************************************)
(* include/rivet/signal.h: one process that dispatches its pending signals *)
(* and an interrupt handler that raises them.  `pending &= ~bit` and, in   *)
(* the process, `pending |= bit` are a load and a store with room between  *)
(* them for an interrupt, which runs to its end.                           *)
(* riv_signal_dispatch_pending is called on syscall return and on a        *)
(* scheduler tick, so that one may begin anywhere, inside another and      *)
(* inside an update of pending included.                                   *)
(***************************************************************************)
EXTENDS Integers, Sequences, FiniteSets, FiniteSetsExt

CONSTANTS Sigs,         \* the signal numbers raised and set here
          MAX_DEPTH     \* bound on the dispatches inside one another

\* riv_sig_set and riv_sig_raise ignore any other number.
ASSUME SigsAssumption == Sigs \subseteq 1 .. 31 /\ MAX_DEPTH \in Nat

SIGABRT == 6
SIGBUS == 7
SIGKILL == 9
SIGSEGV == 11

VARIABLES pending, mask, handlers,
          deliverable,  \* the snapshot of the dispatch under way, less what it is done with
          phase,        \* "idle", "loop", "store", "act", "handler", "raise", "exited"
          loaded,       \* what the load of an update of pending saw
          current,      \* the signal at hand
          masked,       \* the mask when the dispatch began
          below,        \* the calls that the dispatch under way has interrupted
          due,          \* raised, and not taken off pending by a dispatch since
          crossed,      \* a signal was raised inside an update of pending
          inside        \* a dispatch began inside another or inside an update of pending

frame == <<deliverable, phase, loaded, current, masked>>
noted == <<due, crossed, inside>>
sig_vars == <<pending, mask, handlers, frame, below, noted>>

riv_sig_init ==
    /\ handlers = [s \in Sigs |-> "DFL"] /\ pending = {} /\ mask = {}
    /\ deliverable = {} /\ phase = "idle" /\ loaded = {} /\ current = 0 /\ masked = {}
    /\ below = <<>> /\ due = {} /\ crossed = FALSE /\ inside = FALSE

\* An update of pending is under way in one of the calls interrupted.
Updating(p) == p \in {"store", "raise"}
UpdateBelow == \E i \in DOMAIN below : Updating(below[i].phase)

\* User code runs outside a dispatch, and inside it in a handler.
InUser == phase \in {"idle", "handler"}

riv_sig_set(s, h) ==
    /\ InUser /\ handlers' = IF s # SIGKILL THEN [handlers EXCEPT ![s] = h] ELSE handlers
    /\ UNCHANGED <<pending, mask, frame, below, noted>>

\* The field is the user's to write.
SetMask(m) == InUser /\ mask' = m /\ UNCHANGED <<pending, handlers, frame, below, noted>>

\* riv_sig_raise called by an interrupt handler.
riv_sig_raise(s) ==
    /\ phase # "exited"
    /\ pending' = pending \cup {s} /\ due' = due \cup {s}
    /\ crossed' = (crossed \/ Updating(phase) \/ UpdateBelow)
    /\ UNCHANGED <<mask, handlers, frame, below, inside>>

\* riv_signal_dispatch_pending has no guard of its own: it begins wherever the
\* process is.
DispatchBegin ==
    /\ phase # "exited" /\ Len(below) < MAX_DEPTH /\ pending \ mask # {}
    /\ below' = Append(below, [deliverable |-> deliverable, phase |-> phase, loaded |-> loaded,
                               current |-> current, masked |-> masked])
    /\ deliverable' = pending \ mask /\ masked' = mask /\ phase' = "loop" /\ loaded' = {} /\ current' = 0
    /\ inside' = (inside \/ phase # "idle")
    /\ UNCHANGED <<pending, mask, handlers, due, crossed>>

\* The next signal of the snapshot, pending or not by now: pending is loaded.
DispatchLoad ==
    /\ phase = "loop" /\ deliverable # {}
    /\ current' = Min(deliverable) /\ deliverable' = deliverable \ {Min(deliverable)}
    /\ loaded' = pending /\ phase' = "store"
    /\ UNCHANGED <<pending, mask, handlers, masked, below, noted>>

\* Mutant of Cleared: the whole snapshot goes at its first signal.
ClearedAll == loaded \ (deliverable \cup {current})

Cleared == loaded \ {current}

DispatchStore ==
    /\ phase = "store" /\ pending' = Cleared /\ due' = due \ {current} /\ phase' = "act" /\ loaded' = {}
    /\ UNCHANGED <<mask, handlers, deliverable, current, masked, below, crossed, inside>>

\* SIGKILL and the fatal defaults do not come back from riv_proc_exit.
DispatchAct ==
    /\ phase = "act"
    /\ phase' = CASE current = SIGKILL -> "exited"
                  [] current # SIGKILL /\ handlers[current] = "DFL" ->
                        IF current \in {SIGSEGV, SIGABRT, SIGBUS} THEN "exited" ELSE "loop"
                  [] current # SIGKILL /\ handlers[current] = "IGN" -> "loop"
                  [] OTHER -> "handler"
    /\ current' = IF phase' = "loop" THEN 0 ELSE current
    /\ UNCHANGED <<pending, mask, handlers, deliverable, loaded, masked, below, noted>>

HandlerReturn ==
    /\ phase = "handler" /\ phase' = "loop" /\ current' = 0
    /\ UNCHANGED <<pending, mask, handlers, deliverable, loaded, masked, below, noted>>

\* riv_sig_raise called by the process: a load, then a store.
ProcessRaise ==
    /\ InUser /\ phase' = "raise" /\ loaded' = pending
    /\ UNCHANGED <<pending, mask, handlers, deliverable, current, masked, below, noted>>

ProcessRaised(s) ==
    /\ phase = "raise" /\ phase' = IF current = 0 THEN "idle" ELSE "handler"
    /\ pending' = loaded \cup {s} /\ due' = due \cup {s} /\ loaded' = {}
    /\ crossed' = (crossed \/ UpdateBelow)
    /\ UNCHANGED <<mask, handlers, deliverable, current, masked, below, inside>>

\* What the dispatch has interrupted goes on.
DispatchEnd ==
    /\ phase = "loop" /\ deliverable = {}
    /\ below' = SubSeq(below, 1, Len(below) - 1)
    /\ LET f == below[Len(below)] IN
         /\ deliverable' = f.deliverable /\ phase' = f.phase /\ loaded' = f.loaded
         /\ current' = f.current /\ masked' = f.masked
    /\ UNCHANGED <<pending, mask, handlers, noted>>

SignalNext(masks) ==
    \/ \E s \in Sigs : riv_sig_raise(s) \/ ProcessRaised(s) \/ \E h \in {"DFL", "IGN", "user"} : riv_sig_set(s, h)
    \/ \E m \in masks : SetMask(m)
    \/ DispatchBegin \/ DispatchLoad \/ DispatchStore \/ DispatchAct \/ DispatchEnd
    \/ HandlerReturn \/ ProcessRaise

SignalSpec(masks) == riv_sig_init /\ [][SignalNext(masks)]_sig_vars

-----------------------------------------------------------------------------
\* No signal is lost: one that was raised stays pending until a dispatch takes
\* it, also one raised while others are delivered, by a handler, or with
\* dispatches inside one another; as long as none is raised between the load and
\* the store of an update of pending.  (One raised there is lost.)
SignalsKept == ~crossed => due \subseteq pending

\* No signal is made up: as long as no dispatch begins inside another or inside
\* an update of pending, what is pending, or still to be taken from a snapshot,
\* has been raised since a dispatch last took it, so that no handler runs twice
\* for one raise.  (A dispatch inside another leaves the outer one with a stale
\* snapshot, of which signals are then delivered again.)
SignalsOnce ==
    ~inside => pending \cup deliverable \cup (IF phase = "store" THEN {current} ELSE {}) \subseteq due

\* No handler runs for SIGKILL, for a signal masked when its dispatch began, or
\* for one that is still in the snapshot; and each dispatch goes up in number.
HandlersInOrder ==
    phase \in {"handler", "raise"} =>
        /\ current # SIGKILL /\ current \notin masked
        /\ \A s \in deliverable : s > current

\* riv_signal_dispatch_pending loses no signal that was not raised inside an
\* update of pending, delivers none twice unless it is called inside itself or inside an
\* update, and each of its calls delivers in order and what it may.
SignalsDelivered == SignalsKept /\ SignalsOnce /\ HandlersInOrder
=============================================================================
