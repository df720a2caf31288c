--------------------------------- MODULE Arp ---------------------------------
(* include/rivet/arp.h: the cache.  riv_arp_cache_init sets only ip to 0;   *)
(* what an unused entry says of mac and expiry is whatever was in memory.   *)
EXTENDS Integers, FiniteSets, FiniteSetsExt

CONSTANTS RIV_ARP_CACHE_SIZE, Ips, Macs, Expiries

\* An ip of 0 marks an unused entry.
ASSUME ArpAssumption ==
    RIV_ARP_CACHE_SIZE \in Nat \ {0} /\ 0 \notin Ips /\ Macs # {} /\ Expiries \subseteq Nat

VARIABLES entries,
          learnt       \* ip -> mac last inserted

arp_vars == <<entries, learnt>>

ArpSlots == 1 .. RIV_ARP_CACHE_SIZE

riv_arp_cache_init(junk) ==
    /\ entries \in [ArpSlots -> [ip : {0}, mac : {CHOOSE m \in Macs : TRUE}, expiry : junk]]
    /\ learnt = <<>>

riv_arp_lookup(ip) ==
    LET hits == {i \in ArpSlots : entries[i].ip = ip}
    IN  IF hits = {} THEN {} ELSE {entries[Min(hits)].mac}

\* Mutant of Oldest: always the first entry.
OldestFirst == 1

\* The first of the entries with the least expiry.
Oldest == CHOOSE i \in ArpSlots : \A j \in ArpSlots :
              entries[i].expiry < entries[j].expiry \/ (entries[i].expiry = entries[j].expiry /\ i <= j)

\* The entry of this ip or the first unused one, whichever comes first.
ArpSlotFor(ip) ==
    LET fit == {i \in ArpSlots : entries[i].ip \in {ip, 0}}
    IN  IF fit # {} THEN Min(fit) ELSE Oldest

riv_arp_insert(ip, mac, expiry) ==
    /\ entries' = [entries EXCEPT ![ArpSlotFor(ip)] = [ip |-> ip, mac |-> mac, expiry |-> expiry]]
    /\ learnt' = [j \in DOMAIN learnt \cup {ip} |-> IF j = ip THEN mac ELSE learnt[j]]

ArpNext == \E ip \in Ips, mac \in Macs, e \in Expiries : riv_arp_insert(ip, mac, e)

ArpSpec(junk) == riv_arp_cache_init(junk) /\ [][ArpNext]_arp_vars

-----------------------------------------------------------------------------
\* The cache never holds two answers for one address, and the one it gives is
\* the last it was told.
ArpCurrent ==
    /\ \A i, j \in ArpSlots : i # j /\ entries[i].ip = entries[j].ip => entries[i].ip = 0
    /\ \A ip \in Ips : riv_arp_lookup(ip) \subseteq (IF ip \in DOMAIN learnt THEN {learnt[ip]} ELSE {})

\* An address is dropped only by a full cache, and is then the one that expires
\* first.
ArpDropsOldest ==
    [][\A ip \in Ips : riv_arp_lookup(ip) # {} /\ riv_arp_lookup(ip)' = {} =>
         \E i \in ArpSlots : entries[i].ip = ip /\ \A j \in ArpSlots : entries[j].ip # 0 /\ entries[i].expiry <= entries[j].expiry]_arp_vars

\* riv_arp_insert keeps the last answer for every address, and gives up the entry
\* that expires first when it needs room.
ArpRemembers == []ArpCurrent /\ ArpDropsOldest
=============================================================================
