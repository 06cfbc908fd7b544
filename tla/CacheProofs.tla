----------------------------- MODULE CacheProofs -----------------------------
(* Proofs about Cache, for any processes and requests, any lifetime and any *)
(* limit on a load: what a reader believes, and for how long.               *)
EXTENDS Cache, Integers, TLAPS

(* A stored entry was read under the generation it is stamped with, and     *)
(* outlives its version by one load and one lifetime at most.               *)
EntryInv ==
    entry # NoEntry =>
        /\ entry.gen <= gen
        /\ entry.gen = gen => closed <= entry.ver
        /\ entry.ver <= db
        /\ entry.until <= clock + TTL
        /\ entry.ver < db => entry.until <= ended[entry.ver] + Timeout + TTL

(* So does a value in a process's memory.                                   *)
LocalInv ==
    \A p \in Procs : local[p] # NoValue =>
        /\ local[p].ver <= db
        /\ local[p].until <= clock + TTL
        /\ local[p].ver < db => local[p].until <= ended[local[p].ver] + Timeout + TTL

(* A flight reads the generation before the row, and ends in time.          *)
FlightInv ==
    \A p \in Procs : flight[p] # NoFlight =>
        /\ flight[p].begun <= clock /\ clock <= flight[p].begun + Timeout
        /\ flight[p].floor <= closed
        /\ flight[p].under # Unread => flight[p].under <= gen
        /\ flight[p].pc \in {"set", "remember"} =>
              /\ flight[p].ver \in Versions
              /\ flight[p].ver <= db
              /\ flight[p].floor <= flight[p].ver
              /\ flight[p].under = gen => closed <= flight[p].ver
              /\ flight[p].ver < db => flight[p].begun <= ended[flight[p].ver]

(* Who waits for a flight waits for that one alone, and is marked when it   *)
(* had begun before the caller's own Move.                                  *)
WaiterInv ==
    \A p \in Procs : \A r \in flight[p].waiters :
        /\ req[r].pc = "wait"
        /\ req[r].proc = p
        /\ ~req[r].late => req[r].floor <= flight[p].floor

(* A value held across the marker read is young enough to be served.        *)
AskInv ==
    \A r \in Reqs : req[r].pc = "ask" =>
        /\ kind = "group"
        /\ req[r].ver \in Versions
        /\ req[r].ver <= db
        /\ req[r].ver < db => clock < ended[req[r].ver] + Timeout + TTL

IndInv ==
    /\ TypeOK /\ closed <= db
    /\ EntryInv /\ LocalInv /\ FlightInv /\ WaiterInv /\ AskInv /\ HostFresh

----------------------------------------------------------------------------
(* What the type invariant says of each field.                              *)

(* The bounds as numbers, and the marks that lie outside them. *)
LEMMA Numbers ==
    /\ TTL \in Nat /\ TTL > 0 /\ Timeout \in Nat /\ MaxVersion \in Nat /\ MaxGen \in Nat
    /\ MaxClock \in Nat /\ MaxVersion > 0 /\ Unread \in Nat /\ Unread = MaxGen + 1
  BY TimesAssumption DEF Unread

(* The fields of a stored entry. *)
LEMMA EntryShape ==
    ASSUME NEW e \in Entries
    PROVE  /\ e.ver \in Nat /\ e.gen \in Nat /\ e.until \in Nat /\ e.ver <= MaxVersion
           /\ e # NoEntry => e.ver \in Versions
  BY Numbers DEF Entries, NoEntry, Versions

(* The fields of a value a process remembers. *)
LEMMA ValueShape ==
    ASSUME NEW e \in Values
    PROVE  /\ e.ver \in Nat /\ e.until \in Nat /\ e.ver <= MaxVersion
           /\ e # NoValue => e.ver \in Versions
  BY Numbers DEF Values, NoValue, Versions

(* The fields of a flight. *)
LEMMA FlightShape ==
    ASSUME NEW f \in Flights
    PROVE  /\ f.pc \in {"none", "look", "load", "set", "remember"} /\ f.under \in Nat
           /\ f.ver \in Nat /\ f.ver <= MaxVersion /\ f.begun \in Nat /\ f.floor \in Nat
           /\ f.waiters \subseteq Reqs
           /\ f = NoFlight <=> f.pc = "none"
  BY Numbers DEF Flights, NoFlight

(* The fields of a request. *)
LEMMA RequestShape ==
    ASSUME NEW q \in Requests
    PROVE  /\ q.pc \in {"idle", "ask", "join", "wait", "done"} /\ q.proc \in Procs
           /\ q.ver \in Nat /\ q.ver <= MaxVersion /\ q.floor \in Nat
  BY Numbers DEF Requests

(* A request nobody has made is a request. *)
LEMMA NoReqShape == NoReq \in Requests /\ NoReq.proc \in Procs
<1>1. (CHOOSE p \in Procs : TRUE) \in Procs
  BY ProcsAssumption
<1> QED
  BY <1>1, Numbers DEF NoReq, Requests, Refused

(* The counters of a typed state as numbers. *)
LEMMA Ranges ==
    ASSUME TypeOK
    PROVE  /\ clock \in 0..MaxClock /\ clock \in Nat
           /\ db \in Versions /\ db \in 0..MaxVersion /\ db \in Nat
           /\ gen \in 0..MaxGen /\ gen \in 0..Unread /\ gen \in Nat /\ Unread \in 0..Unread
           /\ closed \in 0..MaxVersion /\ closed \in Nat
           /\ 0 \in 0..MaxVersion
           /\ \A v \in Versions : ended[v] \in 0..MaxClock /\ ended[v] \in Nat
<1>1. /\ clock \in 0..MaxClock /\ db \in Versions /\ gen \in 0..MaxGen
      /\ closed \in 0..MaxVersion /\ \A v \in Versions : ended[v] \in 0..MaxClock
  BY DEF TypeOK
<1>2. clock \in Nat /\ gen \in Nat /\ gen \in 0..Unread /\ Unread \in 0..Unread
      /\ closed \in Nat /\ 0 \in 0..MaxVersion
  BY ONLY <1>1, Numbers
<1>3. db \in 0..MaxVersion /\ db \in Nat
  BY ONLY <1>1, Numbers DEF Versions
<1>4. \A v \in Versions : ended[v] \in Nat
  <2> TAKE v \in Versions
  <2>1. ended[v] \in 0..MaxClock
    BY <1>1
  <2> QED
    BY ONLY <2>1, Numbers
<1> QED
  BY <1>1, <1>2, <1>3, <1>4

(* A flight under way is a flight, and not the empty one. *)
LEMMA InFlight ==
    ASSUME TypeOK, NEW p \in Procs, flight[p].pc # "none"
    PROVE  flight[p] \in Flights /\ flight[p] # NoFlight
<1>1. NoFlight.pc = "none"
  BY DEF NoFlight
<1> QED
  BY <1>1 DEF TypeOK

(* A landing answers its waiters and nobody else.                           *)
LEMMA Landing ==
    ASSUME IndInv, NEW p \in Procs, NEW v \in 0..MaxVersion, Land(p, v),
           kind = "host" /\ v # Refused => flight[p].floor <= v,
           UNCHANGED <<kind, db, gen, clock, closed, ended>>
    PROVE  /\ req' \in [Reqs -> Requests] /\ flight' \in [Procs -> Flights]
           /\ FlightInv' /\ WaiterInv' /\ AskInv' /\ HostFresh'
           /\ \A r \in Reqs : req'[r].pc = "done" /\ req[r].pc # "done" => req'[r].ver = v
<1> USE DEF IndInv, TypeOK
<1>1. /\ flight' = [flight EXCEPT ![p] = NoFlight]
      /\ \A r \in Reqs : r \notin flight[p].waiters => req'[r] = req[r]
      /\ \A r \in Reqs : r \in flight[p].waiters =>
            req'[r] = [req[r] EXCEPT !.pc = "done", !.proc = NoReq.proc, !.ver = v]
      /\ req' = [r \in Reqs |-> req'[r]]
  BY DEF Land, Answered
<1>2. \A r \in Reqs : r \in flight[p].waiters =>
        /\ req'[r] \in Requests /\ req'[r].pc = "done" /\ req'[r].ver = v
        /\ req'[r].floor = req[r].floor /\ req'[r].late = req[r].late
  <2> SUFFICES ASSUME NEW r \in Reqs, r \in flight[p].waiters
               PROVE  /\ req'[r] \in Requests /\ req'[r].pc = "done" /\ req'[r].ver = v
                      /\ req'[r].floor = req[r].floor /\ req'[r].late = req[r].late
    OBVIOUS
  <2>1. req'[r] = [req[r] EXCEPT !.pc = "done", !.proc = NoReq.proc, !.ver = v]
    BY <1>1
  <2>2. req[r] \in Requests
    OBVIOUS
  <2> QED
    BY <2>1, <2>2, NoReqShape DEF Requests
<1>3. req' \in [Reqs -> Requests]
  BY <1>1, <1>2
<1>4. flight' \in [Procs -> Flights]
  BY <1>1 DEF Flights
<1>5. FlightInv'
  BY <1>1 DEF FlightInv
<1>6. WaiterInv'
  <2> SUFFICES ASSUME NEW q \in Procs, NEW r \in flight'[q].waiters
               PROVE  /\ req'[r].pc = "wait" /\ req'[r].proc = q
                      /\ ~req'[r].late => req'[r].floor <= flight'[q].floor
    BY DEF WaiterInv
  <2>1. q # p
    BY <1>1 DEF NoFlight
  <2>2. flight'[q] = flight[q] /\ r \in Reqs
    BY <1>1, <2>1, FlightShape
  <2>3. r \notin flight[p].waiters
    BY <2>1, <2>2 DEF WaiterInv
  <2>4. req'[r] = req[r] /\ r \in flight[q].waiters
    BY <1>1, <2>2, <2>3
  <2> QED
    BY <2>2, <2>4 DEF WaiterInv
<1>7. AskInv'
  BY <1>1, <1>2 DEF AskInv
<1>8. HostFresh'
  <2> SUFFICES ASSUME kind = "host", NEW r \in Reqs, req'[r].pc = "done",
                      req'[r].ver # Refused, req'[r].ver < req'[r].floor
               PROVE  req'[r].late
    BY DEF HostFresh, Done
  <2>1. CASE r \in flight[p].waiters
    <3>1. v # Refused /\ v < req[r].floor
      BY <1>2, <2>1 DEF Done
    <3>2. flight[p].floor <= v
      BY <3>1
    <3>3. flight[p] \in Flights /\ req[r] \in Requests
      OBVIOUS
    <3>4. flight[p].floor \in Nat /\ req[r].floor \in Nat
      BY <3>3, FlightShape, RequestShape
    <3>5. req[r].floor <= flight[p].floor => FALSE
      BY ONLY <3>1, <3>2, <3>4, v \in 0..MaxVersion, Numbers
    <3> QED
      BY <1>2, <2>1, <3>5 DEF WaiterInv
  <2>2. CASE r \notin flight[p].waiters
    BY <1>1, <2>2 DEF HostFresh, Done
  <2> QED
    BY <2>1, <2>2
<1> QED
  BY <1>1, <1>2, <1>3, <1>4, <1>5, <1>6, <1>7, <1>8

(* A flight goes on with its waiters.                                       *)
LEMMA Flying ==
    ASSUME IndInv, NEW p \in Procs, NEW f \in Flights,
           flight' = [flight EXCEPT ![p] = f],
           f.floor = flight[p].floor, f.waiters = flight[p].waiters, f.begun = flight[p].begun,
           flight[p] # NoFlight,
           f.under # Unread => f.under <= gen,
           f.pc \in {"set", "remember"} =>
              /\ f.ver \in Versions
              /\ f.ver <= db
              /\ f.floor <= f.ver
              /\ f.under = gen => closed <= f.ver
              /\ f.ver < db => f.begun <= ended[f.ver],
           UNCHANGED <<kind, db, gen, req, clock, closed, ended>>
    PROVE  /\ flight' \in [Procs -> Flights]
           /\ FlightInv' /\ WaiterInv' /\ AskInv' /\ HostFresh'
<1> USE DEF IndInv, TypeOK
<1>1. flight'[p] = f /\ \A q \in Procs : q # p => flight'[q] = flight[q]
  OBVIOUS
<1>2. flight' \in [Procs -> Flights]
  OBVIOUS
<1>3. FlightInv'
  BY <1>1 DEF FlightInv
<1>4. WaiterInv'
  BY <1>1, ZenonT(60) DEF WaiterInv
<1>5. AskInv' /\ HostFresh'
  BY DEF AskInv, HostFresh, Done
<1> QED
  BY <1>2, <1>3, <1>4, <1>5

(* An empty store, no flight and no request satisfy the invariant. *)
LEMMA InitInd == Init => IndInv
<1> SUFFICES ASSUME Init PROVE IndInv
  OBVIOUS
<1> USE Numbers DEF Init
<1>1. TypeOK
  <2>1. NoReq \in Requests
    BY NoReqShape
  <2>2. entry \in Entries /\ local \in [Procs -> Values] /\ flight \in [Procs -> Flights]
    BY DEF Entries, Values, Flights
  <2>3. db \in Versions
    BY DEF Versions
  <2> QED
    BY <2>1, <2>2, <2>3 DEF TypeOK
<1>2. EntryInv /\ LocalInv /\ FlightInv
  BY DEF EntryInv, LocalInv, FlightInv
<1>3. WaiterInv
  BY DEF WaiterInv, NoFlight
<1>4. AskInv /\ HostFresh
  BY DEF AskInv, HostFresh, Done, NoReq
<1> QED
  BY <1>1, <1>2, <1>3, <1>4 DEF IndInv

----------------------------------------------------------------------------
(* Requests.                                                                *)

(* One request that no flight carries changes.                              *)
LEMMA Asking ==
    ASSUME IndInv, NEW r \in Reqs, NEW q \in Requests,
           req[r].pc # "wait", req' = [req EXCEPT ![r] = q],
           q.pc = "ask" =>
              kind = "group" /\ q.ver \in Versions /\ q.ver <= db
              /\ (q.ver < db => clock < ended[q.ver] + Timeout + TTL),
           kind = "host" /\ q.pc = "done" /\ q.ver # Refused => q.floor <= q.ver,
           UNCHANGED <<kind, db, flight, clock, ended>>
    PROVE  req' \in [Reqs -> Requests] /\ WaiterInv' /\ AskInv' /\ HostFresh'
<1> USE DEF IndInv, TypeOK
<1>1. req'[r] = q /\ \A s \in Reqs : s # r => req'[s] = req[s]
  OBVIOUS
<1>2. req' \in [Reqs -> Requests]
  OBVIOUS
<1>3. WaiterInv'
  <2>1. \A p \in Procs : flight[p].waiters \subseteq Reqs /\ r \notin flight[p].waiters
    BY FlightShape DEF WaiterInv
  <2> QED
    BY <1>1, <2>1, ZenonT(60) DEF WaiterInv
<1>4. AskInv'
  BY <1>1 DEF AskInv
<1>5. HostFresh'
  <2> SUFFICES ASSUME kind = "host", NEW s \in Reqs, req'[s].pc = "done",
                      req'[s].ver # Refused, req'[s].ver < req'[s].floor
               PROVE  req'[s].late
    BY DEF HostFresh, Done
  <2>1. CASE s = r
    <3>1. q.floor <= q.ver /\ q.ver < q.floor
      BY <1>1, <2>1 DEF Done
    <3>2. q.floor \in Nat /\ q.ver \in Nat
      BY Numbers, RequestShape
    <3>3. FALSE
      BY ONLY <3>1, <3>2
    <3> QED
      BY <3>3
  <2>2. CASE s # r
    BY <1>1, <2>2 DEF HostFresh, Done
  <2> QED
    BY <2>1, <2>2
<1> QED
  BY <1>2, <1>3, <1>4, <1>5

(* A request begins with the version the last Move had closed.              *)
LEMMA StartedShape ==
    ASSUME TypeOK, NEW p \in Procs
    PROVE  /\ Started(p) \in Requests /\ Started(p).proc = p /\ Started(p).floor = closed
           /\ Started(p).ver = Refused /\ Started(p).pc = "idle" /\ ~Started(p).late
  BY NoReqShape DEF Started, TypeOK, Requests, NoReq

(* A request that finds its answer in the store.                            *)
LEMMA Hit ==
    ASSUME TypeOK, NEW r \in Reqs, NEW p \in Procs, entry # NoEntry,
           req' = Answered([req EXCEPT ![r] = Started(p)], {r}, entry.ver)
    PROVE  \E q \in Requests :
              req' = [req EXCEPT ![r] = q] /\ q.pc = "done" /\ q.floor = closed
              /\ q.ver = entry.ver
<1> DEFINE s == Started(p)
<1>1. s \in Requests /\ s.floor = closed
  BY StartedShape
<1>2. entry.ver \in 0..MaxVersion
  <2>1. entry.ver \in Nat /\ entry.ver <= MaxVersion
    BY EntryShape DEF TypeOK
  <2> QED
    BY ONLY <2>1, Numbers
<1> DEFINE q == [s EXCEPT !.pc = "done", !.proc = NoReq.proc, !.ver = entry.ver]
<1>3. q \in Requests /\ q.pc = "done" /\ q.floor = closed /\ q.ver = entry.ver
  BY <1>1, <1>2, NoReqShape DEF Requests
<1>4. req' = [req EXCEPT ![r] = q]
  <2> DEFINE g == [req EXCEPT ![r] = s]
  <2>1. /\ req \in [Reqs -> Requests] /\ g \in [Reqs -> Requests] /\ g[r] = s
          /\ \A t \in Reqs : t # r => g[t] = req[t]
    BY <1>1 DEF TypeOK
  <2>2. req' = Answered(g, {r}, entry.ver)
    OBVIOUS
  <2> HIDE DEF g, s
  <2>3. q = [g[r] EXCEPT !.pc = "done", !.proc = NoReq.proc, !.ver = entry.ver]
    BY <2>1
  <2> HIDE DEF q
  <2>4. req' = [t \in Reqs |->
                    IF t \in {r}
                      THEN [g[t] EXCEPT !.pc = "done", !.proc = NoReq.proc, !.ver = entry.ver]
                      ELSE g[t]]
    BY <2>2 DEF Answered
  <2>5. req'[r] = q /\ \A t \in Reqs : t # r => req'[t] = req[t]
    BY <2>1, <2>3, <2>4
  <2> QED
    BY <2>1, <2>4, <2>5
<1> HIDE DEF q
<1> QED
  BY <1>3, <1>4

(* A request begins at its process: served there, or on its way to the store. *)
LEMMA StartStep ==
    ASSUME IndInv, NEW r \in Reqs, NEW p \in Procs, Start(r, p)
    PROVE  IndInv'
<1> USE DEF IndInv
<1>1. /\ UNCHANGED <<kind, db, gen, entry, flight, writer, clock, closed, ended>>
      /\ req[r].pc # "wait"
  BY DEF Start
<1>2. EntryInv' /\ FlightInv'
  BY <1>1 DEF EntryInv, FlightInv
<1>3. DEFINE s == Started(p)
<1>4. /\ s \in Requests /\ s.floor = closed /\ s.ver = Refused
  BY StartedShape
<1>5. [s EXCEPT !.pc = "join"] \in Requests /\ [s EXCEPT !.pc = "join"].pc = "join"
  BY <1>4 DEF Requests
<1>6. CASE req' = [req EXCEPT ![r] = [s EXCEPT !.pc = "join"]]
           /\ (local' = local \/ local' = [local EXCEPT ![p] = NoValue])
  <2>1. req' \in [Reqs -> Requests] /\ WaiterInv' /\ AskInv' /\ HostFresh'
    BY <1>1, <1>5, <1>6, Asking
  <2>2. local' \in [Procs -> Values] /\ LocalInv'
    BY <1>1, <1>6 DEF TypeOK, Values, LocalInv
  <2>3. TypeOK'
    BY <1>1, <2>1, <2>2 DEF TypeOK
  <2> QED
    BY <1>1, <1>2, <2>1, <2>2, <2>3
<1>7. CASE Believed /\ req' = Answered([req EXCEPT ![r] = s], {r}, entry.ver) /\ UNCHANGED local
  <2>1. entry \in Entries /\ entry # NoEntry
    BY <1>7 DEF Believed, Present, TypeOK
  <2>2. closed <= entry.ver
    BY <1>7 DEF Believed, Present, EntryInv
  <2>3. PICK q \in Requests :
          req' = [req EXCEPT ![r] = q] /\ q.pc = "done" /\ q.floor = closed /\ q.ver = entry.ver
    BY <1>7, <2>1, Hit
  <2>6. req' \in [Reqs -> Requests] /\ WaiterInv' /\ AskInv' /\ HostFresh'
    BY <1>1, <2>2, <2>3, Asking
  <2>7. TypeOK'
    BY <1>1, <1>7, <2>6 DEF TypeOK
  <2>8. LocalInv'
    BY <1>1, <1>7 DEF LocalInv
  <2> QED
    BY <1>1, <1>2, <2>6, <2>7, <2>8
<1>8. CASE kind = "group" /\ Held(p) /\ UNCHANGED local
           /\ req' = [req EXCEPT ![r] = [s EXCEPT !.pc = "ask", !.ver = local[p].ver]]
  <2>1. local[p] \in Values /\ local[p] # NoValue /\ local[p].until > clock
    BY <1>8 DEF Held, TypeOK
  <2>2. local[p].ver \in Versions /\ local[p].ver \in 0..MaxVersion /\ local[p].until \in Nat
        /\ local[p].ver <= db
    BY <2>1, ValueShape, Numbers DEF LocalInv
  <2>3. local[p].ver < db => clock < ended[local[p].ver] + Timeout + TTL
    <3>1. SUFFICES ASSUME local[p].ver < db
                   PROVE  clock < ended[local[p].ver] + Timeout + TTL
      OBVIOUS
    <3>2. local[p].until <= ended[local[p].ver] + Timeout + TTL
      BY <2>1, <3>1 DEF LocalInv
    <3>3. ended[local[p].ver] \in 0..MaxClock /\ clock \in 0..MaxClock
      BY <2>2 DEF TypeOK
    <3> QED
      BY <2>1, <2>2, <3>2, <3>3, Numbers
  <2>4. DEFINE q == [s EXCEPT !.pc = "ask", !.ver = local[p].ver]
  <2>5. q \in Requests /\ q.pc = "ask" /\ q.ver = local[p].ver
    BY <1>4, <2>2 DEF Requests
  <2>6. req' = [req EXCEPT ![r] = q]
    BY <1>8
  <2>7. req' \in [Reqs -> Requests] /\ WaiterInv' /\ AskInv' /\ HostFresh'
    <3> HIDE DEF q
    <3> QED
      BY <1>1, <1>8, <2>2, <2>3, <2>5, <2>6, Asking
  <2>8. TypeOK'
    BY <1>1, <1>8, <2>7 DEF TypeOK
  <2>9. LocalInv'
    BY <1>1, <1>8 DEF LocalInv
  <2> QED
    BY <1>1, <1>2, <2>7, <2>8, <2>9
<1> QED
  BY <1>6, <1>7, <1>8 DEF Start, StartHost, StartGroup

(* The marker read serves the value held across it, or drops it.            *)
LEMMA AskStep ==
    ASSUME IndInv, NEW r \in Reqs, Ask(r)
    PROVE  IndInv'
<1> USE DEF IndInv
<1>1. /\ UNCHANGED <<kind, db, gen, entry, flight, writer, clock, closed, ended>>
      /\ req[r].pc = "ask" /\ req[r] \in Requests /\ req \in [Reqs -> Requests]
  BY DEF Ask, TypeOK
<1>2. EntryInv' /\ FlightInv'
  BY <1>1 DEF EntryInv, FlightInv
<1>3. PICK q \in Requests :
        /\ req' = [req EXCEPT ![r] = q]
        /\ q.pc # "ask"
        /\ kind = "host" /\ q.pc = "done" => q.floor <= q.ver
  <2>1. CASE req' = Answered(req, {r}, req[r].ver)
    <3> DEFINE q == [req[r] EXCEPT !.pc = "done", !.proc = NoReq.proc]
    <3>1. q \in Requests /\ q.pc = "done" /\ q = [req[r] EXCEPT !.pc = "done", !.proc = NoReq.proc, !.ver = req[r].ver]
      BY <1>1, NoReqShape DEF Requests
    <3>2. req' = [t \in Reqs |->
                    IF t \in {r}
                      THEN [req[t] EXCEPT !.pc = "done", !.proc = NoReq.proc, !.ver = req[r].ver]
                      ELSE req[t]]
      BY <2>1 DEF Answered
    <3>3. req' = [req EXCEPT ![r] = q]
      BY <1>1, <3>1, <3>2
    <3> HIDE DEF q
    <3>4. kind # "host"
      BY <1>1 DEF AskInv
    <3> QED
      BY <3>1, <3>3, <3>4
  <2>2. CASE req' = [req EXCEPT ![r].pc = "join", ![r].ver = Refused]
    <3> DEFINE q == [req[r] EXCEPT !.pc = "join", !.ver = Refused]
    <3>1. Refused \in 0..MaxVersion
      BY Numbers DEF Refused
    <3>3. q \in Requests /\ q.pc = "join"
      BY <1>1, <3>1 DEF Requests
    <3>2. req' = [req EXCEPT ![r] = q]
      BY <1>1, <2>2
    <3> HIDE DEF q
    <3> QED
      BY <3>2, <3>3
  <2> QED
    BY <2>1, <2>2 DEF Ask
<1>4. req' \in [Reqs -> Requests] /\ WaiterInv' /\ AskInv' /\ HostFresh'
  BY <1>1, <1>3, Asking
<1>5. local' = local \/ local' = [local EXCEPT ![req[r].proc] = NoValue]
  BY DEF Ask
<1>6. local' \in [Procs -> Values] /\ LocalInv'
  BY <1>1, <1>5 DEF TypeOK, Values, LocalInv
<1> QED
  BY <1>1, <1>2, <1>4, <1>6 DEF TypeOK

(* A caller joins the flight of its process, or begins it.                  *)
LEMMA JoinStep ==
    ASSUME IndInv, NEW r \in Reqs, Join(r)
    PROVE  IndInv'
<1> USE DEF IndInv
<1> DEFINE p == req[r].proc
<1>1. /\ UNCHANGED <<kind, db, gen, entry, local, writer, clock, closed, ended>>
      /\ req[r].pc = "join" /\ req[r] \in Requests /\ req \in [Reqs -> Requests]
      /\ flight \in [Procs -> Flights]
  BY DEF Join, TypeOK
<1>2. p \in Procs /\ flight[p] \in Flights
  BY <1>1, RequestShape
<1>3. PICK f \in Flights :
        /\ flight' = [flight EXCEPT ![p] = f]
        /\ f.waiters = flight[p].waiters \cup {r}
        /\ \/ flight[p] = NoFlight /\ f.pc = "look" /\ f.begun = clock /\ f.floor = closed
              /\ f.under = Unread
           \/ /\ flight[p] # NoFlight /\ f.pc = flight[p].pc /\ f.begun = flight[p].begun
              /\ f.floor = flight[p].floor /\ f.under = flight[p].under /\ f.ver = flight[p].ver
  <2>1. CASE flight[p] = NoFlight
    <3> DEFINE f == [NoFlight EXCEPT !.pc = "look", !.begun = clock, !.floor = closed,
                                     !.waiters = {r}]
    <3>1. clock \in 0..MaxClock /\ closed \in 0..MaxVersion /\ Unread \in 0..Unread
          /\ 0 \in 0..MaxVersion
      BY Ranges
    <3>2. f \in Flights /\ f.pc = "look" /\ f.begun = clock /\ f.floor = closed
          /\ f.under = Unread /\ f.waiters = {r}
      BY <3>1 DEF Flights, NoFlight
    <3>3. flight[p].waiters = {}
      BY <2>1 DEF NoFlight
    <3>4. flight' = [flight EXCEPT ![p] = f]
      BY <2>1 DEF Join
    <3> HIDE DEF f
    <3> QED
      BY <2>1, <3>2, <3>3, <3>4
  <2>2. CASE flight[p] # NoFlight
    <3> DEFINE f == [flight[p] EXCEPT !.waiters = flight[p].waiters \cup {r}]
    <3>1. f \in Flights /\ f.waiters = flight[p].waiters \cup {r}
          /\ f.pc = flight[p].pc /\ f.begun = flight[p].begun /\ f.floor = flight[p].floor
          /\ f.under = flight[p].under /\ f.ver = flight[p].ver
      BY <1>2, <2>2 DEF Flights
    <3>2. flight' = [flight EXCEPT ![p] = f]
      <4>1. flight' = [flight EXCEPT ![p] =
                IF flight[p] = NoFlight
                  THEN [NoFlight EXCEPT !.pc = "look", !.begun = clock,
                                        !.floor = closed, !.waiters = {r}]
                  ELSE [flight[p] EXCEPT !.waiters = flight[p].waiters \cup {r}]]
        BY DEF Join
      <4> QED
        BY <2>2, <4>1
    <3> HIDE DEF f
    <3> QED
      BY <2>2, <3>1, <3>2
  <2> QED
    BY <2>1, <2>2
<1> HIDE DEF p
<1>4. flight'[p] = f /\ \A q \in Procs : q # p => flight'[q] = flight[q]
  BY <1>1, <1>2, <1>3
<1>5. flight' \in [Procs -> Flights]
  BY <1>1, <1>2, <1>3
<1>6. PICK q \in Requests :
        /\ req' = [req EXCEPT ![r] = q]
        /\ q.pc = "wait" /\ q.proc = p
        /\ ~q.late => ~(flight'[p].floor < q.floor)
  <2>1. ASSUME NEW l \in BOOLEAN,
               req' = [req EXCEPT ![r] = [req[r] EXCEPT !.pc = "wait", !.late = l]],
               ~l => ~(flight'[p].floor < req[r].floor)
        PROVE  \E q \in Requests :
                  /\ req' = [req EXCEPT ![r] = q]
                  /\ q.pc = "wait" /\ q.proc = p
                  /\ ~q.late => ~(flight'[p].floor < q.floor)
    <3> DEFINE q == [req[r] EXCEPT !.pc = "wait", !.late = l]
    <3>1. q \in Requests /\ q.pc = "wait" /\ q.proc = p /\ q.floor = req[r].floor /\ q.late = l
      BY <1>1 DEF Requests, p
    <3> HIDE DEF q
    <3>2. ~q.late => ~(flight'[p].floor < q.floor)
      BY <2>1, <3>1
    <3>3. req' = [req EXCEPT ![r] = q]
      BY <2>1 DEF q
    <3> QED
      BY <3>1, <3>2, <3>3
  <2>2. req' = [req EXCEPT ![r].pc = "wait", ![r].late = (flight'[p].floor < req[r].floor)]
    BY ONLY Join(r), Zenon DEF Join, p
  <2>3. CASE flight'[p].floor < req[r].floor
    <3>1. (flight'[p].floor < req[r].floor) = TRUE
      BY <2>3
    <3>2. req' = [req EXCEPT ![r].pc = "wait", ![r].late = TRUE]
      BY <2>2, <3>1, Zenon
    <3>3. req' = [req EXCEPT ![r] = [req[r] EXCEPT !.pc = "wait", !.late = TRUE]]
      BY <1>1, <3>2
    <3> QED
      BY <2>1, <3>3
  <2>4. CASE ~(flight'[p].floor < req[r].floor)
    <3>1. (flight'[p].floor < req[r].floor) = FALSE
      BY <2>4
    <3>2. req' = [req EXCEPT ![r].pc = "wait", ![r].late = FALSE]
      BY <2>2, <3>1, Zenon
    <3>3. req' = [req EXCEPT ![r] = [req[r] EXCEPT !.pc = "wait", !.late = FALSE]]
      BY <1>1, <3>2
    <3> QED
      BY <2>1, <2>4, <3>3
  <2> QED
    BY <2>3, <2>4
<1>7. req'[r] = q /\ \A s \in Reqs : s # r => req'[s] = req[s]
  BY <1>1, <1>6
<1>8. ~req'[r].late => req'[r].floor <= flight'[p].floor
  <2>1. q.floor \in Nat /\ flight'[p].floor \in Nat
    BY <1>2, <1>5, FlightShape, RequestShape
  <2>2. ~(flight'[p].floor < q.floor) => q.floor <= flight'[p].floor
    BY ONLY <2>1
  <2> QED
    BY <1>6, <1>7, <2>2
<1>9. FlightInv'
  <2> SUFFICES ASSUME NEW x \in Procs, flight'[x] # NoFlight
               PROVE  /\ flight'[x].begun <= clock /\ clock <= flight'[x].begun + Timeout
                      /\ flight'[x].floor <= closed
                      /\ flight'[x].under # Unread => flight'[x].under <= gen
                      /\ flight'[x].pc \in {"set", "remember"} =>
                            /\ flight'[x].ver \in Versions
                            /\ flight'[x].ver <= db
                            /\ flight'[x].floor <= flight'[x].ver
                            /\ flight'[x].under = gen => closed <= flight'[x].ver
                            /\ flight'[x].ver < db => flight'[x].begun <= ended[flight'[x].ver]
    BY <1>1 DEF FlightInv
  <2>1. CASE x # p
    BY <1>4, <2>1 DEF FlightInv
  <2>2. CASE x = p /\ flight[p] # NoFlight
    BY <1>2, <1>3, <1>4, <2>2 DEF FlightInv
  <2>3. CASE x = p /\ flight[p] = NoFlight
    <3>1. f.pc = "look" /\ f.begun = clock /\ f.floor = closed /\ f.under = Unread
      BY <1>3, <2>3
    <3>2. clock <= clock /\ clock <= clock + Timeout /\ closed <= closed
      <4>1. clock \in Nat /\ closed \in Nat
        BY Ranges
      <4> QED
        BY ONLY <4>1, Numbers
    <3> QED
      BY <1>4, <2>3, <3>1, <3>2
  <2> QED
    BY <2>1, <2>2, <2>3
<1>10. WaiterInv'
  <2>1. \A x \in Procs : r \notin flight[x].waiters /\ flight[x].waiters \subseteq Reqs
    BY <1>1, FlightShape DEF WaiterInv
  <2> SUFFICES ASSUME NEW x \in Procs, NEW s \in flight'[x].waiters
               PROVE  /\ req'[s].pc = "wait" /\ req'[s].proc = x
                      /\ ~req'[s].late => req'[s].floor <= flight'[x].floor
    BY DEF WaiterInv
  <2>2. CASE s = r
    <3>1. x = p
      BY <1>4, <2>1, <2>2
    <3> QED
      BY <1>6, <1>7, <1>8, <2>2, <3>1
  <2>3. CASE s # r
    <3>1. s \in flight[x].waiters /\ flight'[x].floor = flight[x].floor
      BY <1>2, <1>3, <1>4, <2>3 DEF NoFlight
    <3>2. req'[s] = req[s]
      BY <1>7, <2>1, <2>3, <3>1
    <3> QED
      BY <3>1, <3>2 DEF WaiterInv
  <2> QED
    BY <2>2, <2>3
<1>11. AskInv' /\ HostFresh'
  BY <1>1, <1>6, <1>7 DEF AskInv, HostFresh, Done
<1>12. EntryInv' /\ LocalInv'
  BY <1>1 DEF EntryInv, LocalInv
<1>13. TypeOK'
  <2>1. req' \in [Reqs -> Requests]
    BY <1>1, <1>6
  <2> QED
    BY <1>1, <1>5, <2>1 DEF TypeOK
<1> QED
  BY <1>1, <1>9, <1>10, <1>11, <1>12, <1>13

----------------------------------------------------------------------------
(* The flight.                                                              *)

(* A flight looks once more before it loads, and lands or reads the generation. *)
LEMMA LookStep ==
    ASSUME IndInv, NEW p \in Procs, Look(p)
    PROVE  IndInv'
<1> USE DEF IndInv
<1>1. /\ UNCHANGED <<kind, db, gen, entry, local, writer, clock, closed, ended>>
      /\ flight[p].pc = "look" /\ flight[p] \in Flights /\ flight[p] # NoFlight
  BY InFlight DEF Look
<1>2. EntryInv' /\ LocalInv'
  BY <1>1 DEF EntryInv, LocalInv
<1>3. CASE kind = "host" /\ Believed /\ Land(p, entry.ver)
  <2>1. entry \in Entries /\ entry # NoEntry /\ closed <= entry.ver
    BY <1>3 DEF Believed, Present, TypeOK, EntryInv
  <2>2. entry.ver \in 0..MaxVersion
    BY <2>1, Numbers, EntryShape
  <2>3. flight[p].floor <= closed
    BY <1>1 DEF FlightInv
  <2>4. flight[p].floor <= entry.ver
    <3>1. flight[p].floor \in Nat /\ closed \in Nat /\ entry.ver \in Nat
      BY <1>1, <2>1, Ranges, EntryShape, FlightShape
    <3> QED
      BY ONLY <2>1, <2>3, <3>1
  <2>5. /\ req' \in [Reqs -> Requests] /\ flight' \in [Procs -> Flights]
        /\ FlightInv' /\ WaiterInv' /\ AskInv' /\ HostFresh'
    BY <1>1, <1>3, <2>2, <2>4, Landing
  <2> QED
    BY <1>1, <1>2, <2>5 DEF TypeOK
<1>4. CASE kind = "group" /\ Held(p) /\ Land(p, local[p].ver)
  <2>1. local[p].ver \in 0..MaxVersion
    <3>1. local[p].ver \in Nat /\ local[p].ver <= MaxVersion
      BY ValueShape DEF TypeOK
    <3> QED
      BY ONLY <3>1, Numbers
  <2>2. /\ req' \in [Reqs -> Requests] /\ flight' \in [Procs -> Flights]
        /\ FlightInv' /\ WaiterInv' /\ AskInv' /\ HostFresh'
    BY <1>1, <1>4, <2>1, Landing
  <2> QED
    BY <1>1, <1>2, <2>2 DEF TypeOK
<1>5. ASSUME NEW g \in {gen, Unread},
             flight' = [flight EXCEPT ![p].pc = "load", ![p].under = g], UNCHANGED req
      PROVE  IndInv'
  <2> DEFINE f == [flight[p] EXCEPT !.pc = "load", !.under = g]
  <2>1. g \in 0..Unread /\ (g # Unread => g <= gen)
    <3>1. gen \in Nat /\ gen \in 0..Unread /\ Unread \in 0..Unread
      BY Ranges
    <3> QED
      BY ONLY <3>1, g \in {gen, Unread}
  <2>2. f \in Flights /\ f.pc = "load" /\ f.under = g /\ f.floor = flight[p].floor
        /\ f.waiters = flight[p].waiters /\ f.begun = flight[p].begun
    BY <1>1, <2>1 DEF Flights
  <2>3. flight' = [flight EXCEPT ![p] = f]
    BY <1>5 DEF TypeOK
  <2> HIDE DEF f
  <2>4. flight' \in [Procs -> Flights] /\ FlightInv' /\ WaiterInv' /\ AskInv' /\ HostFresh'
    BY <1>1, <1>5, <2>1, <2>2, <2>3, Flying
  <2> QED
    BY <1>1, <1>2, <1>5, <2>4 DEF TypeOK
<1> QED
  BY <1>3, <1>4, <1>5 DEF Look

(* A flight reads the row at its current version, or fails its waiters. *)
LEMMA LoadStep ==
    ASSUME IndInv, NEW p \in Procs, Load(p)
    PROVE  IndInv'
<1> USE DEF IndInv
<1>1. /\ UNCHANGED <<kind, db, gen, entry, local, writer, clock, closed, ended>>
      /\ flight[p].pc = "load" /\ flight[p] \in Flights /\ flight[p] # NoFlight
  BY InFlight DEF Load
<1>2. EntryInv' /\ LocalInv'
  BY <1>1 DEF EntryInv, LocalInv
<1>3. CASE flight' = [flight EXCEPT ![p].pc = "set", ![p].ver = db] /\ UNCHANGED req
  <2> DEFINE f == [flight[p] EXCEPT !.pc = "set", !.ver = db]
  <2>1. db \in 0..MaxVersion /\ db \in Versions /\ db \in Nat /\ closed \in Nat
    BY Ranges
  <2>2. f \in Flights /\ f.pc = "set" /\ f.under = flight[p].under /\ f.floor = flight[p].floor
        /\ f.waiters = flight[p].waiters /\ f.begun = flight[p].begun /\ f.ver = db
    BY <1>1, <2>1 DEF Flights
  <2>3. flight' = [flight EXCEPT ![p] = f]
    BY <1>3 DEF TypeOK
  <2> HIDE DEF f
  <2>4. f.floor <= db
    <3>1. flight[p].floor <= closed /\ closed <= db /\ flight[p].floor \in Nat
      BY <1>1, FlightShape DEF FlightInv
    <3> QED
      BY ONLY <2>1, <2>2, <3>1
  <2>5. f.under # Unread => f.under <= gen
    BY <1>1, <2>2 DEF FlightInv
  <2>6. flight' \in [Procs -> Flights] /\ FlightInv' /\ WaiterInv' /\ AskInv' /\ HostFresh'
    <3>1. db <= db /\ ~(db < db) /\ closed <= db
      BY <2>1
    <3> HIDE DEF IndInv
    <3> QED
      BY <1>1, <1>3, <2>1, <2>2, <2>3, <2>4, <2>5, <3>1, Flying
  <2> QED
    BY <1>1, <1>2, <1>3, <2>6 DEF TypeOK
<1>4. CASE Land(p, Refused)
  <2>1. Refused \in 0..MaxVersion
    BY Numbers DEF Refused
  <2>2. /\ req' \in [Reqs -> Requests] /\ flight' \in [Procs -> Flights]
        /\ FlightInv' /\ WaiterInv' /\ AskInv' /\ HostFresh'
    BY <1>1, <1>4, <2>1, Landing
  <2> QED
    BY <1>1, <1>2, <2>2 DEF TypeOK
<1> QED
  BY <1>3, <1>4 DEF Load

(* What a flight has loaded is young, and newer than the Moves before it.   *)
LEMMA LoadedYoung ==
    ASSUME IndInv, NEW p \in Procs, flight[p].pc \in {"set", "remember"}
    PROVE  /\ flight[p].ver \in Versions /\ flight[p].ver \in 0..MaxVersion
           /\ flight[p].ver <= db /\ flight[p].floor <= flight[p].ver
           /\ flight[p].under # Unread => flight[p].under \in 0..MaxGen /\ flight[p].under <= gen
           /\ flight[p].under = gen => closed <= flight[p].ver
           /\ flight[p].ver < db => clock <= ended[flight[p].ver] + Timeout
<1> USE DEF IndInv
<1>1. flight[p] \in Flights /\ flight[p] # NoFlight
  BY InFlight
<1>2. /\ clock <= flight[p].begun + Timeout
      /\ flight[p].ver \in Versions /\ flight[p].ver <= db /\ flight[p].floor <= flight[p].ver
      /\ flight[p].under = gen => closed <= flight[p].ver
      /\ flight[p].ver < db => flight[p].begun <= ended[flight[p].ver]
      /\ flight[p].under # Unread => flight[p].under <= gen
  BY <1>1 DEF FlightInv
<1>3. flight[p].ver \in 0..MaxVersion
  BY <1>2, Numbers DEF Versions
<1>4. flight[p].under # Unread => flight[p].under \in 0..MaxGen
  <2>1. flight[p].under \in 0..Unread
    BY <1>1 DEF Flights, NoFlight
  <2> QED
    BY ONLY <2>1, Numbers
<1>5. ended[flight[p].ver] \in Nat /\ clock \in Nat /\ flight[p].begun \in Nat
  <2>1. ended[flight[p].ver] \in 0..MaxClock /\ clock \in 0..MaxClock
    BY <1>2 DEF TypeOK
  <2> QED
    BY <1>1, <2>1, Numbers, FlightShape
<1>6. flight[p].begun <= ended[flight[p].ver] => clock <= ended[flight[p].ver] + Timeout
  BY ONLY <1>2, <1>5, Numbers
<1> QED
  BY <1>2, <1>3, <1>4, <1>6

(* The entry is written with its lifetime, or is not.                       *)
LEMMA SetStep ==
    ASSUME IndInv, NEW p \in Procs, Set(p)
    PROVE  IndInv'
<1> USE DEF IndInv
<1>1. /\ UNCHANGED <<kind, db, gen, local, writer, clock, closed, ended>>
      /\ flight[p].pc = "set" /\ flight[p] \in Flights /\ flight[p] # NoFlight
  BY InFlight DEF Set
<1>2. LocalInv'
  BY <1>1 DEF LocalInv
<1>3. entry' \in Entries /\ EntryInv'
  <2>1. CASE UNCHANGED entry
    BY <1>1, <2>1 DEF EntryInv, TypeOK
  <2>2. CASE SetLands(p)
    <3>1. flight[p].under # Unread
          /\ entry' = [ver |-> flight[p].ver, gen |-> flight[p].under, until |-> clock + TTL]
      BY <2>2 DEF SetLands, Stamped
    <3>2. clock \in 0..MaxClock
      BY DEF TypeOK
    <3>3. clock \in Nat /\ clock + TTL \in 0..(MaxClock + TTL)
      BY ONLY <3>2, Numbers
    <3>4. entry' \in Entries
      BY <1>1, <3>1, <3>3, LoadedYoung DEF Entries
    <3>5. /\ entry'.ver = flight[p].ver /\ entry'.gen = flight[p].under
          /\ entry'.until = clock + TTL
      BY <3>1
    <3>6. entry'.ver < db => clock + TTL <= ended[entry'.ver] + Timeout + TTL
      <4>1. flight[p].ver < db => clock <= ended[flight[p].ver] + Timeout
        BY <1>1, LoadedYoung
      <4>2. ended[flight[p].ver] \in 0..MaxClock
        BY <1>1, LoadedYoung DEF TypeOK
      <4>3. ended[flight[p].ver] \in Nat
        BY ONLY <4>2, Numbers
      <4> QED
        BY ONLY <3>3, <3>5, <4>1, <4>3, Numbers
    <3>7. clock + TTL <= clock + TTL
      BY ONLY <3>3, Numbers
    <3> QED
      BY <1>1, <3>1, <3>4, <3>5, <3>6, <3>7, LoadedYoung DEF EntryInv
  <2> QED
    BY <2>1, <2>2 DEF Set
<1>4. CASE kind = "host" /\ Land(p, flight[p].ver)
  <2>1. /\ req' \in [Reqs -> Requests] /\ flight' \in [Procs -> Flights]
        /\ FlightInv' /\ WaiterInv' /\ AskInv' /\ HostFresh'
    BY <1>1, <1>4, LoadedYoung, Landing
  <2> QED
    BY <1>1, <1>2, <1>3, <2>1 DEF TypeOK
<1>5. CASE flight' = [flight EXCEPT ![p].pc = "remember"] /\ UNCHANGED req
  <2> DEFINE f == [flight[p] EXCEPT !.pc = "remember"]
  <2>1. f \in Flights /\ f.pc = "remember" /\ f.under = flight[p].under /\ f.floor = flight[p].floor
        /\ f.waiters = flight[p].waiters /\ f.begun = flight[p].begun /\ f.ver = flight[p].ver
    BY <1>1 DEF Flights
  <2>2. flight' = [flight EXCEPT ![p] = f]
    BY <1>5 DEF TypeOK
  <2> HIDE DEF f
  <2>3. /\ f.under # Unread => f.under <= gen
        /\ f.ver \in Versions /\ f.ver <= db /\ f.floor <= f.ver
        /\ f.under = gen => closed <= f.ver
        /\ f.ver < db => f.begun <= ended[f.ver]
    BY <1>1, <2>1 DEF FlightInv
  <2>4. flight' \in [Procs -> Flights] /\ FlightInv' /\ WaiterInv' /\ AskInv' /\ HostFresh'
    BY <1>1, <1>5, <2>1, <2>2, <2>3, Flying
  <2> QED
    BY <1>1, <1>2, <1>3, <1>5, <2>4 DEF TypeOK
<1> QED
  BY <1>4, <1>5 DEF Set

(* A flight leaves its value with its process. *)
LEMMA RememberStep ==
    ASSUME IndInv, NEW p \in Procs, Remember(p)
    PROVE  IndInv'
<1> USE DEF IndInv
<1>1. /\ UNCHANGED <<kind, db, gen, entry, writer, clock, closed, ended>>
      /\ flight[p].pc = "remember" /\ flight[p] \in Flights /\ flight[p] # NoFlight
      /\ Land(p, flight[p].ver)
      /\ local' = [local EXCEPT ![p] = [ver |-> flight[p].ver, until |-> clock + TTL]]
  BY InFlight DEF Remember
<1>2. EntryInv'
  BY <1>1 DEF EntryInv
<1>3. /\ req' \in [Reqs -> Requests] /\ flight' \in [Procs -> Flights]
      /\ FlightInv' /\ WaiterInv' /\ AskInv' /\ HostFresh'
  BY <1>1, LoadedYoung, Landing
<1>4. clock \in 0..MaxClock
  BY DEF TypeOK
<1>5. clock \in Nat /\ clock + TTL \in 0..(MaxClock + TTL) /\ clock + TTL <= clock + TTL
  BY ONLY <1>4, Numbers
<1>6. local' \in [Procs -> Values]
  BY <1>1, <1>5, LoadedYoung DEF TypeOK, Values
<1>7. LocalInv'
  <2>1. flight[p].ver < db => clock + TTL <= ended[flight[p].ver] + Timeout + TTL
    <3>1. flight[p].ver < db => clock <= ended[flight[p].ver] + Timeout
      BY <1>1, LoadedYoung
    <3>2. ended[flight[p].ver] \in 0..MaxClock
      BY <1>1, LoadedYoung DEF TypeOK
    <3>3. ended[flight[p].ver] \in Nat
      BY ONLY <3>2, Numbers
    <3> QED
      BY ONLY <1>5, <3>1, <3>3, Numbers
  <2>2. local'[p].ver = flight[p].ver /\ local'[p].until = clock + TTL
        /\ \A q \in Procs : q # p => local'[q] = local[q]
    BY <1>1 DEF TypeOK
  <2>3. flight[p].ver <= db
    BY <1>1, LoadedYoung
  <2> QED
    BY <1>1, <1>5, <2>1, <2>2, <2>3 DEF LocalInv
<1> QED
  BY <1>1, <1>2, <1>3, <1>6, <1>7 DEF TypeOK

----------------------------------------------------------------------------
(* The writer, and time.                                                    *)

(* A writer commits a version and owes an invalidation. *)
LEMMA CommitStep ==
    ASSUME IndInv, NEW p \in Procs, Commit(p)
    PROVE  IndInv'
<1> USE DEF IndInv
<1>1. /\ UNCHANGED <<kind, gen, entry, local, flight, req, clock, closed>>
      /\ db < MaxVersion /\ db' = db + 1
      /\ ended' = [ended EXCEPT ![db] = clock]
      /\ writer' = [writer EXCEPT ![p] = "committed"]
  BY DEF Commit
<1>2. db \in Versions /\ clock \in 0..MaxClock /\ closed \in 0..MaxVersion /\ closed <= db
  BY DEF TypeOK
<1>3. db \in Nat /\ clock \in Nat /\ closed \in Nat /\ db' \in Versions /\ closed <= db'
  BY <1>1, <1>2, Numbers DEF Versions
<1>4. TypeOK'
  BY <1>1, <1>2, <1>3 DEF TypeOK
<1>5. /\ ended'[db] = clock
      /\ \A v \in Versions : v # db => ended'[v] = ended[v]
  BY <1>1, <1>2 DEF TypeOK
<1>6. ASSUME NEW v \in Versions, v <= db
      PROVE  /\ v <= db' /\ (v < db => ended'[v] = ended[v])
             /\ v < db \/ ended'[v] = clock
  <2>1. v \in Nat
    BY Numbers DEF Versions
  <2>2. v <= db + 1 /\ (v < db => v # db) /\ (v < db \/ v = db)
    BY ONLY <1>3, <1>6, <2>1
  <2> QED
    BY <1>1, <1>5, <2>2
<1>7. EntryInv'
  <2> SUFFICES ASSUME entry # NoEntry
               PROVE  /\ entry.ver <= db'
                      /\ entry.ver < db' => entry.until <= ended'[entry.ver] + Timeout + TTL
    BY <1>1 DEF EntryInv
  <2>1. entry \in Entries /\ entry.ver \in Versions /\ entry.until \in Nat
    BY EntryShape DEF TypeOK
  <2>2. entry.ver <= db /\ entry.until <= clock + TTL
        /\ (entry.ver < db => entry.until <= ended[entry.ver] + Timeout + TTL)
    BY DEF EntryInv
  <2>3. entry.until <= clock + Timeout + TTL
    BY ONLY <1>3, <2>1, <2>2, Numbers
  <2> QED
    BY <1>6, <2>1, <2>2, <2>3
<1>8. LocalInv'
  <2> SUFFICES ASSUME NEW q \in Procs, local[q] # NoValue
               PROVE  /\ local[q].ver <= db'
                      /\ local[q].ver < db' => local[q].until <= ended'[local[q].ver] + Timeout + TTL
    BY <1>1 DEF LocalInv
  <2>1. local[q] \in Values /\ local[q].ver \in Versions /\ local[q].until \in Nat
    BY ValueShape DEF TypeOK
  <2>2. local[q].ver <= db /\ local[q].until <= clock + TTL
        /\ (local[q].ver < db => local[q].until <= ended[local[q].ver] + Timeout + TTL)
    BY DEF LocalInv
  <2>3. local[q].until <= clock + Timeout + TTL
    BY ONLY <1>3, <2>1, <2>2, Numbers
  <2> QED
    BY <1>6, <2>1, <2>2, <2>3
<1>9. FlightInv'
  <2> SUFFICES ASSUME NEW q \in Procs, flight[q] # NoFlight, flight[q].pc \in {"set", "remember"}
               PROVE  /\ flight[q].ver <= db'
                      /\ flight[q].ver < db' => flight[q].begun <= ended'[flight[q].ver]
    BY <1>1 DEF FlightInv
  <2>1. /\ flight[q].ver \in Versions /\ flight[q].ver <= db /\ flight[q].begun <= clock
        /\ flight[q].ver < db => flight[q].begun <= ended[flight[q].ver]
    BY DEF FlightInv
  <2> QED
    BY <1>6, <2>1
<1>10. AskInv'
  <2> SUFFICES ASSUME NEW r \in Reqs, req[r].pc = "ask"
               PROVE  /\ req[r].ver <= db'
                      /\ req[r].ver < db' => clock < ended'[req[r].ver] + Timeout + TTL
    BY <1>1 DEF AskInv
  <2>1. /\ req[r].ver \in Versions /\ req[r].ver <= db
        /\ req[r].ver < db => clock < ended[req[r].ver] + Timeout + TTL
    BY DEF AskInv
  <2>2. clock < clock + Timeout + TTL
    BY ONLY <1>3, Numbers
  <2> QED
    BY <1>6, <2>1, <2>2
<1>11. WaiterInv' /\ HostFresh'
  BY <1>1 DEF WaiterInv, HostFresh, Done
<1> QED
  BY <1>1, <1>3, <1>4, <1>7, <1>8, <1>9, <1>10, <1>11

(* A Move opens a generation that no entry and no flight is stamped with.   *)
LEMMA MoveStep ==
    ASSUME IndInv, NEW p \in Procs, Move(p)
    PROVE  IndInv'
<1> USE DEF IndInv
<1>1. /\ UNCHANGED <<kind, db, entry, local, flight, req, clock, ended>>
      /\ gen < MaxGen /\ gen' = gen + 1 /\ closed' = db
      /\ writer' = [writer EXCEPT ![p] = "none"]
  BY DEF Move
<1>2. gen \in 0..MaxGen /\ db \in Versions /\ closed \in 0..MaxVersion /\ closed <= db
  BY DEF TypeOK
<1>3. /\ gen \in Nat /\ db \in Nat /\ closed \in Nat /\ gen' \in 0..MaxGen /\ db \in 0..MaxVersion
      /\ db <= db /\ gen' # Unread
  BY <1>1, <1>2, Numbers DEF Versions
<1>4. TypeOK'
  BY <1>1, <1>3 DEF TypeOK
<1>5. \A g \in Nat : g <= gen => g <= gen' /\ g # gen'
  BY ONLY <1>1, <1>3
<1>6. EntryInv'
  <2>1. entry.gen \in Nat
    BY EntryShape DEF TypeOK
  <2> QED
    BY <1>1, <1>5, <2>1 DEF EntryInv
<1>7. LocalInv' /\ AskInv'
  BY <1>1 DEF LocalInv, AskInv
<1>8. FlightInv'
  <2> SUFFICES ASSUME NEW q \in Procs, flight[q] # NoFlight
               PROVE  /\ flight[q].floor <= closed'
                      /\ flight[q].under # Unread => flight[q].under <= gen'
                      /\ flight[q].under # gen'
    BY <1>1 DEF FlightInv
  <2>1. flight[q].floor \in Nat /\ flight[q].under \in Nat
    BY FlightShape DEF TypeOK
  <2>2. flight[q].floor <= closed /\ (flight[q].under # Unread => flight[q].under <= gen)
    BY DEF FlightInv
  <2>3. flight[q].floor <= closed'
    BY ONLY <1>1, <1>2, <1>3, <2>1, <2>2
  <2> QED
    BY <1>3, <1>5, <2>1, <2>2, <2>3
<1>9. WaiterInv' /\ HostFresh'
  BY <1>1 DEF WaiterInv, HostFresh, Done
<1> QED
  BY <1>1, <1>3, <1>4, <1>6, <1>7, <1>8, <1>9

(* Nothing is served while the clock moves, and no flight outlasts it.      *)
LEMMA TickStep ==
    ASSUME IndInv, Tick
    PROVE  IndInv'
<1> USE DEF IndInv
<1>1. /\ UNCHANGED <<kind, db, gen, entry, local, flight, req, writer, closed, ended>>
      /\ clock < MaxClock /\ clock' = clock + 1
      /\ \A r \in Reqs : req[r].pc # "ask"
      /\ \A p \in Procs : flight[p] # NoFlight => clock < flight[p].begun + Timeout
  BY DEF Tick
<1>2. clock \in 0..MaxClock
  BY DEF TypeOK
<1>3. clock \in Nat /\ clock' \in 0..MaxClock
  BY ONLY <1>1, <1>2, Numbers
<1>4. TypeOK'
  BY <1>1, <1>3 DEF TypeOK
<1>5. \A u \in Nat : u <= clock + TTL => u <= clock' + TTL
  BY ONLY <1>1, <1>3, Numbers
<1>6. EntryInv'
  <2>1. entry.until \in Nat
    BY EntryShape DEF TypeOK
  <2> QED
    BY <1>1, <1>5, <2>1 DEF EntryInv
<1>7. LocalInv'
  <2>1. \A p \in Procs : local[p].until \in Nat
    BY ValueShape DEF TypeOK
  <2> QED
    BY <1>1, <1>5, <2>1 DEF LocalInv
<1>8. FlightInv'
  <2> SUFFICES ASSUME NEW q \in Procs, flight[q] # NoFlight
               PROVE  flight[q].begun <= clock' /\ clock' <= flight[q].begun + Timeout
    BY <1>1 DEF FlightInv
  <2>1. flight[q].begun \in Nat
    BY FlightShape DEF TypeOK
  <2>2. flight[q].begun <= clock /\ clock < flight[q].begun + Timeout
    BY <1>1 DEF FlightInv
  <2> QED
    BY ONLY <1>1, <1>3, <2>1, <2>2, Numbers
<1>9. WaiterInv' /\ AskInv' /\ HostFresh'
  BY <1>1 DEF WaiterInv, AskInv, HostFresh, Done
<1> QED
  BY <1>1, <1>4, <1>6, <1>7, <1>8, <1>9

(* Every step, stuttering included.                                         *)
LEMMA NextStep ==
    ASSUME IndInv, [Next]_vars
    PROVE  IndInv'
<1>1. ASSUME NEW p \in Procs, Evict(p) \/ DropHere(p) \/ Delete(p) \/ InvalidationFails(p)
      PROVE  IndInv'
  <2> USE DEF IndInv
  <2>1. UNCHANGED <<kind, db, gen, flight, req, clock, closed, ended>>
    BY <1>1 DEF Evict, DropHere, Delete, InvalidationFails
  <2>2. /\ entry' \in {entry, NoEntry}
        /\ local' = local \/ local' = [local EXCEPT ![p] = NoValue]
        /\ writer' \in [Procs -> {"none", "committed", "dropped one", "dropped all"}]
    BY <1>1 DEF Evict, DropHere, Delete, InvalidationFails, TypeOK
  <2>3. entry' \in Entries /\ EntryInv'
    BY <2>1, <2>2 DEF EntryInv, Entries, TypeOK
  <2>4. local' \in [Procs -> Values] /\ LocalInv'
    BY <2>1, <2>2 DEF LocalInv, Values, TypeOK
  <2>5. FlightInv' /\ WaiterInv' /\ AskInv' /\ HostFresh'
    BY <2>1 DEF FlightInv, WaiterInv, AskInv, HostFresh, Done
  <2> QED
    BY <2>1, <2>2, <2>3, <2>4, <2>5 DEF TypeOK
<1>2. CASE UNCHANGED vars
  BY <1>2 DEF vars, IndInv, TypeOK, EntryInv, LocalInv, FlightInv, WaiterInv, AskInv, HostFresh, Done
<1> QED
  BY <1>1, <1>2, StartStep, AskStep, JoinStep, LookStep, LoadStep, SetStep, RememberStep,
     CommitStep, MoveStep, TickStep DEF Next

----------------------------------------------------------------------------
(* What the readers may rely on.                                            *)

(* Stamps, flights and the values they leave behind stay in step with the   *)
(* row and the generation (kit/cache/cache.go, group.go;                    *)
(* httpx/api.go, resolve).                                                  *)
THEOREM Inductive == Spec => []IndInv
<1>1. Init => IndInv
  BY InitInd
<1>2. IndInv /\ [Next]_vars => IndInv'
  BY NextStep
<1> QED
  BY <1>1, <1>2, PTL DEF Spec

(* The store, the memories, the flights and the requests keep their shapes. *)
THEOREM TypeCorrect == Spec => []TypeOK
<1>1. IndInv => TypeOK
  BY DEF IndInv
<1> QED
  BY <1>1, Inductive, PTL

(* Once a Move has landed nothing a reader would believe was read from the  *)
(* database before it, a load still running included: the generation is     *)
(* read before the row and compared after (cache.go, Get, Set, Move).       *)
THEOREM ClosedStaysClosed == Spec => []ClosedNotBelieved
<1>1. IndInv => ClosedNotBelieved
  BY DEF IndInv, EntryInv, ClosedNotBelieved, Believed, Present
<1> QED
  BY <1>1, Inductive, PTL

(* A host request that begins after InvalidateHost returned is served no    *)
(* older tenant, unless it joined a load begun before the Move (API.resolve *)
(* and its singleflight).                                                   *)
THEOREM HostServedFresh == Spec => []HostFresh
<1>1. IndInv => HostFresh
  BY DEF IndInv
<1> QED
  BY <1>1, Inductive, PTL

(* What a store or a memory still holds was superseded a lifetime ago at    *)
(* most, and one load.                                                      *)
LEMMA HeldYoung ==
    ASSUME IndInv
    PROVE  /\ Believed /\ entry.ver < db => clock < ended[entry.ver] + Timeout + TTL
           /\ \A p \in Procs : Held(p) /\ local[p].ver < db =>
                 clock < ended[local[p].ver] + Timeout + TTL
<1> USE DEF IndInv
<1>1. ASSUME NEW u \in Nat, NEW v \in Versions, u > clock, u <= ended[v] + Timeout + TTL
      PROVE  clock < ended[v] + Timeout + TTL
  <2>1. clock \in Nat /\ ended[v] \in Nat
    BY Ranges
  <2> QED
    BY ONLY <1>1, <2>1, Numbers
<1>2. ASSUME Believed, entry.ver < db
      PROVE  clock < ended[entry.ver] + Timeout + TTL
  <2>1. entry # NoEntry /\ entry.until > clock
    BY <1>2 DEF Believed, Present
  <2>2. entry.until \in Nat /\ entry.ver \in Versions
    BY <2>1, EntryShape DEF TypeOK
  <2> QED
    BY <1>1, <1>2, <2>1, <2>2 DEF EntryInv
<1>3. ASSUME NEW p \in Procs, Held(p), local[p].ver < db
      PROVE  clock < ended[local[p].ver] + Timeout + TTL
  <2>1. local[p] # NoValue /\ local[p].until > clock
    BY <1>3 DEF Held
  <2>2. local[p].until \in Nat /\ local[p].ver \in Versions
    BY <2>1, ValueShape DEF TypeOK
  <2> QED
    BY <1>1, <1>3, <2>1, <2>2 DEF LocalInv
<1> QED
  BY <1>2, <1>3

(* A step that answers a request.                                           *)
LEMMA ServedYoung ==
    ASSUME IndInv, Next, NEW r \in Reqs, req'[r].pc = "done", req[r].pc # "done",
           req'[r].ver \in Versions, req'[r].ver < db
    PROVE  clock < ended[req'[r].ver] + Timeout + TTL
<1> USE DEF IndInv
<1>1. ASSUME NEW p \in Procs, NEW v \in 0..MaxVersion, Land(p, v),
             kind = "host" /\ v # Refused => flight[p].floor <= v,
             UNCHANGED <<kind, db, gen, clock, closed, ended>>
      PROVE  req'[r].ver = v
  BY <1>1, Landing
<1>2. ASSUME NEW s \in Reqs, NEW p \in Procs, Start(s, p)
      PROVE  clock < ended[req'[r].ver] + Timeout + TTL
  <2>1. ASSUME NEW q, req' = [req EXCEPT ![s] = q], q.pc # "done"
        PROVE  FALSE
    BY <2>1 DEF TypeOK
  <2>2. CASE Believed /\ req' = Answered([req EXCEPT ![s] = Started(p)], {s}, entry.ver)
    <3>1. entry # NoEntry
      BY <2>2 DEF Believed, Present
    <3>2. PICK q \in Requests : req' = [req EXCEPT ![s] = q] /\ q.ver = entry.ver
      BY <2>2, <3>1, Hit
    <3>3. req'[r].ver = entry.ver
      BY <3>2 DEF TypeOK
    <3> QED
      BY <2>2, <3>3, HeldYoung
  <2>3. CASE req' = [req EXCEPT ![s] = [Started(p) EXCEPT !.pc = "join"]]
    <3>1. [Started(p) EXCEPT !.pc = "join"].pc = "join"
      BY StartedShape DEF Requests
    <3> QED
      BY <2>1, <2>3, <3>1
  <2>4. CASE req' = [req EXCEPT ![s] = [Started(p) EXCEPT !.pc = "ask", !.ver = local[p].ver]]
    <3>1. [Started(p) EXCEPT !.pc = "ask", !.ver = local[p].ver].pc = "ask"
      BY StartedShape DEF Requests
    <3> QED
      BY <2>1, <2>4, <3>1
  <2> QED
    BY <1>2, <2>2, <2>3, <2>4 DEF Start, StartHost, StartGroup
<1>3. ASSUME NEW s \in Reqs, Ask(s)
      PROVE  clock < ended[req'[r].ver] + Timeout + TTL
  <2>1. req[s].pc = "ask" /\ (req[s].ver < db => clock < ended[req[s].ver] + Timeout + TTL)
    BY <1>3 DEF Ask, AskInv
  <2>2. CASE req' = Answered(req, {s}, req[s].ver)
    <3>1. req' = [t \in Reqs |->
                    IF t \in {s}
                      THEN [req[t] EXCEPT !.pc = "done", !.proc = NoReq.proc, !.ver = req[s].ver]
                      ELSE req[t]]
      BY <2>2 DEF Answered
    <3>2. r = s
      BY <3>1
    <3>3. req'[r] = [req[s] EXCEPT !.pc = "done", !.proc = NoReq.proc, !.ver = req[s].ver]
      BY <3>1, <3>2
    <3>4. req[s] \in Requests
      BY DEF TypeOK
    <3>5. req'[r].ver = req[s].ver
      BY <3>3, <3>4 DEF Requests
    <3> QED
      BY <2>1, <3>5
  <2>3. CASE req' = [req EXCEPT ![s].pc = "join", ![s].ver = Refused]
    BY <2>3 DEF TypeOK, Requests
  <2> QED
    BY <1>3, <2>2, <2>3 DEF Ask
<1>4. ASSUME NEW s \in Reqs, Join(s)
      PROVE  FALSE
  <2>1. \A l : req' = [req EXCEPT ![s].pc = "wait", ![s].late = l] => req'[r].pc # "done"
    BY ZenonT(60) DEF TypeOK, Requests
  <2>2. \E l : req' = [req EXCEPT ![s].pc = "wait", ![s].late = l]
    BY <1>4, Zenon DEF Join
  <2> QED
    BY <2>1, <2>2
<1>5. ASSUME NEW p \in Procs, Look(p)
      PROVE  clock < ended[req'[r].ver] + Timeout + TTL
  <2>1. UNCHANGED <<kind, db, gen, clock, closed, ended>>
    BY <1>5 DEF Look
  <2>2. CASE kind = "host" /\ Believed /\ Land(p, entry.ver)
    <3>1. entry # NoEntry /\ closed <= entry.ver
      BY <2>2 DEF Believed, Present, EntryInv
    <3>2. entry.ver \in Versions /\ entry.ver \in Nat
      BY <3>1, EntryShape DEF TypeOK
    <3>3. entry.ver \in 0..MaxVersion
      BY <3>2, Numbers DEF Versions
    <3>4. flight[p].floor <= closed /\ flight[p].floor \in Nat /\ closed \in Nat
      <4>1. flight[p] \in Flights /\ flight[p] # NoFlight
        BY <1>5, InFlight DEF Look
      <4> QED
        BY <4>1, FlightShape, Ranges DEF FlightInv
    <3>5. flight[p].floor <= entry.ver
      BY ONLY <3>1, <3>2, <3>4
    <3>6. req'[r].ver = entry.ver
      BY <1>1, <2>1, <2>2, <3>3, <3>5
    <3> QED
      BY <2>2, <3>6, HeldYoung
  <2>3. CASE kind = "group" /\ Held(p) /\ Land(p, local[p].ver)
    <3>1. local[p].ver \in Nat /\ local[p].ver <= MaxVersion
      BY ValueShape DEF TypeOK
    <3>2. local[p].ver \in 0..MaxVersion
      BY ONLY <3>1, Numbers
    <3>3. req'[r].ver = local[p].ver
      BY <1>1, <2>1, <2>3, <3>2
    <3> QED
      BY <2>3, <3>3, HeldYoung
  <2> QED
    BY <1>5, <2>2, <2>3 DEF Look
<1>6. ASSUME NEW p \in Procs, flight[p].pc \in {"set", "remember"}, Land(p, flight[p].ver),
             UNCHANGED <<kind, db, gen, clock, closed, ended>>
      PROVE  clock < ended[req'[r].ver] + Timeout + TTL
  <2>1. req'[r].ver = flight[p].ver
    BY <1>1, <1>6, LoadedYoung
  <2>2. clock <= ended[flight[p].ver] + Timeout
    BY <1>6, <2>1, LoadedYoung
  <2>3. clock \in Nat /\ ended[flight[p].ver] \in Nat
    BY <2>1, Ranges
  <2>4. clock < ended[flight[p].ver] + Timeout + TTL
    BY ONLY <2>2, <2>3, Numbers
  <2> QED
    BY <2>1, <2>4
<1>7. ASSUME NEW p \in Procs, Load(p)
      PROVE  FALSE
  <2>1. CASE Land(p, Refused)
    <3>1. UNCHANGED <<kind, db, gen, clock, closed, ended>>
      BY <1>7 DEF Load
    <3>2. Refused \in 0..MaxVersion
      BY Ranges DEF Refused
    <3>3. req'[r].ver = Refused
      BY <1>1, <2>1, <3>1, <3>2
    <3>4. Refused \notin Versions
      BY DEF Refused, Versions
    <3> QED
      BY <3>3, <3>4
  <2> QED
    BY <1>7, <2>1 DEF Load
<1>8. ASSUME NEW p \in Procs, Set(p) \/ Remember(p)
      PROVE  clock < ended[req'[r].ver] + Timeout + TTL
  <2>1. /\ UNCHANGED <<kind, db, gen, clock, closed, ended>>
        /\ flight[p].pc \in {"set", "remember"}
        /\ Land(p, flight[p].ver) \/ UNCHANGED req
    BY <1>8 DEF Set, Remember
  <2> QED
    BY <1>6, <2>1
<1>9. CASE \/ Tick
           \/ \E p \in Procs : \/ Evict(p) \/ Commit(p) \/ DropHere(p) \/ Move(p) \/ Delete(p)
                               \/ InvalidationFails(p)
  BY <1>9 DEF Tick, Evict, Commit, DropHere, Move, Delete, InvalidationFails
<1> QED
  BY <1>2, <1>3, <1>4, <1>5, <1>7, <1>8, <1>9 DEF Next

(* Nobody is served a superseded version for longer than one load and one   *)
(* lifetime after it was superseded, whatever call to the store or to the   *)
(* database fails and wherever a process dies (cache.go, group.go;          *)
(* httpx/api.go).                                                           *)
THEOREM OneLifetime == Spec => StaleForOneLifetime
<1>1. IndInv /\ [Next]_vars =>
        [\A r \in Reqs :
           LET v == req'[r].ver IN
           req'[r].pc = "done" /\ req[r].pc # "done" /\ v \in Versions /\ v < db =>
               clock < ended[v] + Timeout + TTL]_vars
  BY ServedYoung
<1> QED
  BY <1>1, Inductive, PTL DEF Spec, StaleForOneLifetime

=============================================================================
