------------------------------ MODULE Etharp ------------------------------
(***************************************************************************)
(* lib/lwip/src/core/ipv4/etharp.c: the ARP table.  An outgoing packet is  *)
(* sent to the address its entry holds, or waits on a pending entry until  *)
(* an ARP message resolves it or a timer gives it up; a full table         *)
(* recycles.  Packets are reference counted (pbuf.c): the upper layer may  *)
(* free a packet after the call or keep it for a retransmission.  Static   *)
(* entries (ETHARP_SUPPORT_STATIC_ENTRIES, off by default) are included;   *)
(* ARP_QUEUEING is off, as in this build.                                  *)
(***************************************************************************)
EXTENDS Integers, FiniteSets, FiniteSetsExt

CONSTANTS
  ARP_TABLE_SIZE,
  ARP_MAXAGE, ARP_MAXPENDING,          \* in calls of etharp_tmr
  ARP_AGE_REREQUEST_USED_UNICAST,      \* from this age on a used entry is asked for again
  IPs, MACs,
  Dests, NextHop,                      \* NextHop[d]: an IP, Broadcast, or NoRoute
  Broadcast, NoRoute,
  Announced, Static,                   \* the pairs <<ip, mac>> of messages and of static entries
  Pbufs,                               \* the packet buffers there are
  Volatile,                            \* destinations whose packets PBUF_NEEDS_COPY
  Kept,                                \* destinations whose packets TCP keeps to send again
  NULL

ASSUME EtharpAssumption ==
  /\ ARP_TABLE_SIZE \in Nat \ {0}
  /\ ARP_MAXAGE \in Nat \ {0} /\ ARP_MAXPENDING \in 1 .. ARP_MAXAGE
  /\ ARP_AGE_REREQUEST_USED_UNICAST \in 0 .. ARP_MAXAGE
  /\ NextHop \in [Dests -> IPs \cup {Broadcast, NoRoute}]
  /\ Broadcast \notin IPs \cup MACs /\ NoRoute \notin IPs /\ NULL \notin Pbufs \cup MACs
  /\ Announced \cup Static \subseteq IPs \X MACs /\ Volatile \cup Kept \subseteq Dests

VARIABLES
  arp_table,            \* state, ipaddr, ethaddr, ctime, q
  etharp_cached_entry,
  ref, dst,             \* of every pbuf: its count, and where its packet is to go
  held,                 \* pbufs to which the upper layer has a reference
  wire,                 \* the IP frame sent by the last step, or NULL
  heard                 \* what each host in the table announced last; no code reads it

vars == <<arp_table, etharp_cached_entry, ref, dst, held, wire, heard>>

EMPTY == 0
PENDING == 1
STABLE == 2
STABLE_REREQUESTING_1 == 3
STABLE_REREQUESTING_2 == 4
STATIC == 5

Idx == 0 .. ARP_TABLE_SIZE - 1
ERR_MEM == -1

Init ==
  /\ arp_table \in [Idx -> {[state |-> EMPTY, ipaddr |-> NoRoute, ethaddr |-> NULL,
                             ctime |-> 0, q |-> NULL]}]
  /\ etharp_cached_entry = 0
  /\ ref = [p \in Pbufs |-> 0] /\ dst = [p \in Pbufs |-> NULL]
  /\ held = {} /\ wire = NULL
  /\ heard = [ip \in IPs |-> NULL]

-----------------------------------------------------------------------------
\* A world is the table t with the counts r: what one step changes on its way.
pbuf_free(r, p) == IF p = NULL THEN r ELSE [r EXCEPT ![p] = @ - 1]

\* Only the state and the queue are cleared; the addresses stay (LWIP_DEBUG is not set).
etharp_free_entry(w, i) ==
  [t |-> [w.t EXCEPT ![i].q = NULL, ![i].state = EMPTY],
   r |-> pbuf_free(w.r, w.t[i].q)]

\* Mutant: a static entry counts as an old one.
Recyclable_Static(t) ==
  << {i \in Idx : t[i].state >= STABLE},
     {i \in Idx : t[i].state = PENDING /\ t[i].q = NULL},
     {i \in Idx : t[i].state = PENDING /\ t[i].q # NULL} >>

\* The classes of entries a full table may lose, in the order in which it loses them.
Recyclable(t) ==
  << {i \in Idx : t[i].state \in STABLE .. STATIC - 1},
     {i \in Idx : t[i].state = PENDING /\ t[i].q = NULL},
     {i \in Idx : t[i].state = PENDING /\ t[i].q # NULL} >>

\* The sweep compares with >=: of the oldest entries the last one.
Oldest(t, S) ==
  CHOOSE i \in S : \A j \in S : t[j].ctime < t[i].ctime \/ (t[j].ctime = t[i].ctime /\ j <= i)

\* Mutant: pending entries do not match.
Matching_Stable(t, ip) == {i \in Idx : t[i].state >= STABLE /\ t[i].ipaddr = ip}

Matching(t, ip) == {i \in Idx : t[i].state # EMPTY /\ t[i].ipaddr = ip}

\* etharp_find_entry: the index and the world with the entry it has made room for.
etharp_find_entry(w, ip, flags) ==
  LET match == Matching(w.t, ip)
      empty == {i \in Idx : w.t[i].state = EMPTY}
      classes == {k \in 1 .. 3 : Recyclable(w.t)[k] # {}}
      New(v, i) == [i |-> i, w |-> [v EXCEPT !.t[i].ipaddr = ip, !.t[i].ctime = 0]]
      None == [i |-> ERR_MEM, w |-> w]
  IN IF match # {} THEN [i |-> Min(match), w |-> w]
     ELSE IF "FIND_ONLY" \in flags THEN None
     ELSE IF empty # {} THEN New(w, Min(empty))
     ELSE IF "TRY_HARD" \notin flags \/ classes = {} THEN None
     ELSE LET i == Oldest(w.t, Recyclable(w.t)[Min(classes)])
          IN New(etharp_free_entry(w, i), i)

World == [t |-> arp_table, r |-> ref]

\* What a step leaves; a buffer to which nobody refers has no content.
Becomes(w, d) ==
  /\ arp_table' = w.t
  /\ ref' = w.r
  /\ dst' = [p \in Pbufs |-> IF w.r[p] = 0 THEN NULL ELSE d[p]]

\* Announcements count while the host is in the table.
Hears(h) == heard' = [ip \in IPs |-> IF Matching(arp_table', ip) = {} THEN NULL ELSE h[ip]]

NoFrame == NULL
Frame(to, mac) == [to |-> to, mac |-> mac]

-----------------------------------------------------------------------------
\* etharp_update_arp_entry: also sends the packet that waits on the entry.  A message does
\* not replace a static address.
etharp_update_arp_entry(ip, mac, flags) ==
  LET f == etharp_find_entry(World, ip, flags)
      e == f.w.t[f.i]
      t1 == [f.w.t EXCEPT ![f.i] = [@ EXCEPT !.state = IF "STATIC" \in flags THEN STATIC ELSE STABLE,
                                             !.ethaddr = mac, !.ctime = 0, !.q = NULL]]
  IN IF f.i = ERR_MEM THEN Becomes(f.w, dst) /\ wire' = NoFrame
     ELSE IF e.state = STATIC /\ "STATIC" \notin flags THEN Becomes(f.w, dst) /\ wire' = NoFrame
     ELSE /\ Becomes([t |-> t1, r |-> pbuf_free(f.w.r, e.q)], dst)
          /\ wire' = IF e.q = NULL THEN NoFrame ELSE Frame(dst[e.q], mac)

IsStatic(ip) == \E i \in Idx : arp_table[i].state = STATIC /\ arp_table[i].ipaddr = ip

\* etharp_input: a request or a reply by ip.  The answer to a request changes nothing here.
etharp_input(ip, mac, for_us) ==
  /\ etharp_update_arp_entry(ip, mac, IF for_us THEN {"TRY_HARD"} ELSE {"FIND_ONLY"})
  /\ Hears(IF IsStatic(ip) THEN heard ELSE [heard EXCEPT ![ip] = mac])
  /\ UNCHANGED <<etharp_cached_entry, held>>

etharp_add_static_entry(ip, mac) ==
  /\ etharp_update_arp_entry(ip, mac, {"TRY_HARD", "STATIC"})
  /\ Hears([heard EXCEPT ![ip] = mac])
  /\ UNCHANGED <<etharp_cached_entry, held>>

etharp_remove_static_entry(ip) ==
  LET f == etharp_find_entry(World, ip, {"FIND_ONLY"}) IN
  /\ f.i # ERR_MEM /\ f.w.t[f.i].state = STATIC
  /\ Becomes(etharp_free_entry(f.w, f.i), dst)
  /\ wire' = NoFrame
  /\ Hears(heard)
  /\ UNCHANGED <<etharp_cached_entry, held>>

\* etharp_cleanup_netif (netif_set_down): the only interface loses all its entries.
etharp_cleanup_netif ==
  /\ Becomes([t |-> [i \in Idx |-> [arp_table[i] EXCEPT !.state = EMPTY, !.q = NULL]],
              r |-> [p \in Pbufs |-> ref[p] - Cardinality({i \in Idx : arp_table[i].q = p})]], dst)
  /\ wire' = NoFrame
  /\ Hears(heard)
  /\ UNCHANGED <<etharp_cached_entry, held>>

\* Mutant: to ask again for a pending entry starts its time anew.
Aged_Anew(e) ==
  IF e.state \in {EMPTY, STATIC} THEN e
  ELSE IF e.ctime + 1 >= ARP_MAXAGE THEN [e EXCEPT !.state = EMPTY, !.q = NULL]
  ELSE [e EXCEPT !.ctime = IF e.state = PENDING THEN 0 ELSE @ + 1]

\* One pass of the loop of etharp_tmr; the request for a pending entry leaves no trace.
Aged(e) ==
  IF e.state \in {EMPTY, STATIC} THEN e
  ELSE IF \/ e.ctime + 1 >= ARP_MAXAGE
          \/ e.state = PENDING /\ e.ctime + 1 >= ARP_MAXPENDING
    THEN [e EXCEPT !.ctime = @ + 1, !.state = EMPTY, !.q = NULL]
  ELSE [e EXCEPT !.ctime = @ + 1,
                 !.state = CASE @ = STABLE_REREQUESTING_1 -> STABLE_REREQUESTING_2
                             [] @ = STABLE_REREQUESTING_2 -> STABLE
                             [] OTHER -> @]

etharp_tmr ==
  LET t == [i \in Idx |-> Aged(arp_table[i])]
      freed == {i \in Idx : arp_table[i].q # NULL /\ t[i].q = NULL}
  IN /\ Becomes([t |-> t,
                 r |-> [p \in Pbufs |-> ref[p] - Cardinality({i \in freed : arp_table[i].q = p})]], dst)
     /\ wire' = NoFrame
     /\ Hears(heard)
     /\ UNCHANGED <<etharp_cached_entry, held>>

-----------------------------------------------------------------------------
\* Mutant: the cached index is believed if its entry is stable.
Usable_Cached(i, ip) == arp_table[i].state >= STABLE

Usable(i, ip) == arp_table[i].state >= STABLE /\ arp_table[i].ipaddr = ip

\* etharp_output_to_arp_index: a used entry that gets old is asked for again, by unicast
\* and later by broadcast, unless there is no memory for the request.
etharp_output_to_arp_index(w, ds, d, i) ==
  \E requested \in BOOLEAN :
    /\ requested => /\ arp_table[i].state = STABLE
                    /\ arp_table[i].ctime >= ARP_AGE_REREQUEST_USED_UNICAST
    /\ Becomes([w EXCEPT !.t[i].state = IF requested THEN STABLE_REREQUESTING_1 ELSE @], ds)
    /\ wire' = Frame(d, arp_table[i].ethaddr)

\* Mutant: a second packet takes the place of the first, which is not freed.
Enqueue_Leak(w, i, c) == [w EXCEPT !.t[i].q = c]

\* Only one packet waits: the new one, and the previous one is freed.
Enqueue(w, i, c) == [t |-> [w.t EXCEPT ![i].q = c], r |-> pbuf_free(w.r, w.t[i].q)]

\* The outcomes of etharp_query for a packet p for which there is no stable entry: the
\* entry, new or not, is pending and gets p, or a copy of p if there is memory for one.
\* (q is never NULL: etharp_output is the only caller, so that the request of 979-998 is
\* sent for a new entry only, whose age is 0 anyway.)
etharp_query(w, ds, ip, p) ==
  LET f == etharp_find_entry(w, ip, {"TRY_HARD"})
      v == [f.w EXCEPT !.t[f.i].state = PENDING]
      With(c) == [w |-> Enqueue([v EXCEPT !.r[c] = @ + 1], f.i, c),
                  d |-> [ds EXCEPT ![c] = ds[p]]]
  IN IF f.i = ERR_MEM THEN {[w |-> f.w, d |-> ds]}
     ELSE IF ds[p] \in Volatile
       THEN {[w |-> v, d |-> ds]} \cup {With(c) : c \in {b \in Pbufs : v.r[b] = 0}}
       ELSE {With(p)}

\* etharp_output of a new packet, or of a kept one again if nobody else refers to it
\* (tcp_output_segment_busy); afterwards the caller frees or keeps its reference.
etharp_output(p, d) ==
  LET w == [World EXCEPT !.r[p] = 1]
      ds == [dst EXCEPT ![p] = d]
      hop == NextHop[d]
      found == IF Usable(etharp_cached_entry, hop) THEN {etharp_cached_entry}
               ELSE {i \in Idx : Usable(i, hop)}
      After(v) == IF d \in Kept THEN v ELSE [v EXCEPT !.r[p] = @ - 1]
  IN /\ ref[p] = 0 \/ (p \in held /\ ref[p] = 1 /\ dst[p] = d)
     /\ \/ /\ hop \in {Broadcast, NoRoute}
           /\ Becomes(After(w), ds)
           /\ wire' = IF hop = Broadcast THEN Frame(d, Broadcast) ELSE NoFrame
           /\ UNCHANGED etharp_cached_entry
        \/ /\ hop \in IPs /\ found # {}
           /\ etharp_cached_entry' = Min(found)
           /\ etharp_output_to_arp_index(After(w), ds, d, Min(found))
        \/ /\ hop \in IPs /\ found = {}
           /\ \E o \in etharp_query(w, ds, hop, p) : Becomes(After(o.w), o.d)
           /\ wire' = NoFrame
           /\ UNCHANGED etharp_cached_entry
     /\ held' = IF d \in Kept THEN held \cup {p} ELSE held \ {p}
     /\ Hears(heard)

\* The upper layer frees a packet it has kept (its data has been acknowledged).
Release(p) ==
  /\ p \in held
  /\ Becomes([World EXCEPT !.r[p] = @ - 1], dst)
  /\ held' = held \ {p}
  /\ wire' = NoFrame
  /\ UNCHANGED <<etharp_cached_entry, heard>>

Next ==
  \/ \E m \in Announced, for_us \in BOOLEAN : etharp_input(m[1], m[2], for_us)
  \/ \E m \in Static : etharp_add_static_entry(m[1], m[2])
  \/ \E ip \in IPs : etharp_remove_static_entry(ip)
  \/ etharp_cleanup_netif
  \/ etharp_tmr
  \/ \E p \in Pbufs, d \in Dests : etharp_output(p, d)
  \/ \E p \in Pbufs : Release(p)

Spec == Init /\ [][Next]_vars
-----------------------------------------------------------------------------
\* The variables keep their types; an age never reaches its limit in a used entry.
TypeOK ==
  /\ \A i \in Idx :
       /\ arp_table[i].state \in EMPTY .. STATIC
       /\ arp_table[i].ipaddr \in IPs \cup {NoRoute}
       /\ arp_table[i].ethaddr \in MACs \cup {NULL}
       /\ arp_table[i].state # EMPTY => arp_table[i].ctime < ARP_MAXAGE
       /\ arp_table[i].q \in Pbufs \cup {NULL}
  /\ etharp_cached_entry \in Idx
  /\ ref \in [Pbufs -> 0 .. 2] /\ dst \in [Pbufs -> Dests \cup {NULL}]
  /\ held \subseteq Pbufs
  /\ heard \in [IPs -> MACs \cup {NULL}]

\* However entries are created, recycled and resolved, an address is in the table once
\* (etharp.c:284-303: the search stops at a match only if it meets one).
OneEntryEach ==
  \A i, j \in Idx : arp_table[i].state # EMPTY /\ arp_table[j].state # EMPTY
                     /\ arp_table[i].ipaddr = arp_table[j].ipaddr => i = j

\* A packet waits only on a pending entry, and on the one for its own next hop: what the
\* assertion of etharp.c:366 says of a stable entry that is recycled.
WaitsOnItsEntry ==
  \A i \in Idx : arp_table[i].q # NULL =>
    /\ arp_table[i].state = PENDING
    /\ \E d \in Dests : dst[arp_table[i].q] = d /\ NextHop[d] = arp_table[i].ipaddr

\* The table of etharp_find_entry: one entry for a host, and packets wait where they belong.
TableOK == TypeOK /\ OneEntryEach /\ WaitsOnItsEntry

\* The count of every buffer is the number of its holders, the upper layer and the
\* entries on which it waits: no buffer leaks and none is freed under a holder, whatever
\* recycles, resolves or expires the entry (etharp.c:177, 489, 1079).
RefsCounted ==
  \A p \in Pbufs :
    ref[p] = (IF p \in held THEN 1 ELSE 0) + Cardinality({i \in Idx : arp_table[i].q = p})

\* A frame goes to the address that its next hop announced last, although the table is
\* reached through a cached index whose entry may have been given to another host.
SentToLatest ==
  wire # NoFrame =>
    wire.mac = IF NextHop[wire.to] = Broadcast THEN Broadcast ELSE heard[NextHop[wire.to]]

\* A static entry is lost only by removing it, and its address changes only by adding it
\* again: no message, timer or full table touches it (etharp.c:208, 324, 449).
StaticStays ==
  [][\A i \in Idx : arp_table[i].state = STATIC /\ arp_table'[i] # arp_table[i] =>
       \/ \E mac \in MACs : etharp_add_static_entry(arp_table[i].ipaddr, mac)
       \/ etharp_remove_static_entry(arp_table[i].ipaddr)
       \/ etharp_cleanup_netif]_vars

\* While etharp_tmr is called again and again, no address stays pending for ever, also if
\* new packets for it keep coming: what waits is sent or given up (etharp.c:212-219).
NoneWaitsForever ==
  []<><<etharp_tmr>>_vars =>
    \A ip \in IPs : []<>(\A i \in Matching(arp_table, ip) : arp_table[i].state # PENDING)
=============================================================================
