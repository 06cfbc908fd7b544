------------------------------- MODULE Cache -------------------------------
(***************************************************************************)
(* The shared cache of kit/cache and its two readers.                      *)
(*                                                                         *)
(* One entry of one Scope is followed.  The store (store in cache.go over  *)
(* a Backend) keeps the scope's generation counter and the entry, stamped  *)
(* with the generation its writer had read open; a read believes the entry *)
(* only under the generation that is open now.  The readers are            *)
(*                                                                         *)
(*   "host"   httpx API.resolve: the value itself is in the store, a miss  *)
(*            is loaded from the database inside a singleflight;           *)
(*   "group"  Group and Pool: the value is in the process's memory and the *)
(*            store holds a content-free marker that keeps it believed.    *)
(*                                                                         *)
(* The truth is a database row with a version.  A writer commits a new     *)
(* version and only then invalidates: InvalidateHost and ForgetAll raise   *)
(* the generation, Forget deletes the one entry.                           *)
(*                                                                         *)
(* Time is a counter.  A flight lasts at most Timeout (resolveTimeout, or  *)
(* the caller's context), and one store call (budget, 250 ms) takes no     *)
(* tick.                                                                   *)
(***************************************************************************)
EXTENDS Naturals

CONSTANTS
    Procs,       \* the processes that read one store
    Reqs,        \* requests for the entry
    Faults,      \* whether store calls and loads may fail
    Kinds,       \* which of the readers the run is about
    TTL,         \* hostTTL, Group.ttl
    Timeout,     \* how long a load may run
    MaxVersion,  \* bound: versions of the row
    MaxGen,      \* bound: Moves that land
    MaxClock     \* bound: the clock

ASSUME ProcsAssumption == Procs # {}
ASSUME KindsAssumption == Kinds \subseteq {"host", "group"} /\ Faults \in BOOLEAN
ASSUME TimesAssumption ==
    /\ TTL \in Nat \ {0} /\ Timeout \in Nat
    /\ MaxVersion \in Nat \ {0} /\ MaxGen \in Nat /\ MaxClock \in Nat

VARIABLES
    kind,     \* the reader of this behaviour
    db,       \* the version of the row that is committed
    gen,      \* the scope's generation counter in the store
    entry,    \* the entry in the store
    local,    \* Group.values: what each process holds
    flight,   \* the singleflight of each process
    writer,   \* what each process still has to invalidate
    req,      \* the requests
    clock,
    closed,   \* history: the version committed when the last Move landed
    ended     \* history: when each version stopped being the committed one

vars == <<kind, db, gen, entry, local, flight, writer, req, clock, closed, ended>>

Versions == 1..MaxVersion
Refused == 0                    \* a request answered with an error
Unread == MaxGen + 1            \* the zero Generation: no read stamped it

NoEntry == [ver |-> 0, gen |-> 0, until |-> 0]
NoValue == [ver |-> 0, until |-> 0]
NoFlight == [pc |-> "none", under |-> Unread, ver |-> 0, begun |-> 0,
             floor |-> 0, waiters |-> {}]
NoReq == [pc |-> "idle", proc |-> CHOOSE p \in Procs : TRUE, ver |-> Refused,
          floor |-> 0, late |-> FALSE]

Entries == [ver : Versions, gen : 0..MaxGen, until : 0..(MaxClock + TTL)] \cup {NoEntry}
Values == [ver : Versions, until : 0..(MaxClock + TTL)] \cup {NoValue}
Flights == [pc : {"look", "load", "set", "remember"}, under : 0..Unread,
            ver : 0..MaxVersion, begun : 0..MaxClock, floor : 0..MaxVersion,
            waiters : SUBSET Reqs] \cup {NoFlight}
Requests == [pc : {"idle", "ask", "join", "wait", "done"}, proc : Procs,
             ver : 0..MaxVersion, floor : 0..MaxVersion, late : BOOLEAN]

TypeOK ==
    /\ kind \in Kinds
    /\ db \in Versions /\ gen \in 0..MaxGen /\ clock \in 0..MaxClock
    /\ entry \in Entries
    /\ local \in [Procs -> Values]
    /\ flight \in [Procs -> Flights]
    /\ writer \in [Procs -> {"none", "committed", "dropped one", "dropped all"}]
    /\ req \in [Reqs -> Requests]
    /\ closed \in 0..MaxVersion
    /\ ended \in [Versions -> 0..MaxClock]

Init ==
    /\ kind \in Kinds
    /\ db = 1 /\ gen = 0 /\ entry = NoEntry
    /\ local = [p \in Procs |-> NoValue]
    /\ flight = [p \in Procs |-> NoFlight]
    /\ writer = [p \in Procs |-> "none"]
    /\ req = [r \in Reqs |-> NoReq]
    /\ clock = 0 /\ closed = 0
    /\ ended = [v \in Versions |-> 0]

-----------------------------------------------------------------------------
(* The store.  Every call may also fail: the Backend is across a network.  *)

Present == entry # NoEntry /\ entry.until > clock

(* Mutant: the envelope's generation is not compared. *)
BelievedAny == Present
Believed == Present /\ entry.gen = gen

(* Mutant: the write is stamped with the generation open when it lands. *)
StampedNow(under, v) == [ver |-> v, gen |-> gen, until |-> clock + TTL]
Stamped(under, v) == [ver |-> v, gen |-> under, until |-> clock + TTL]

(* Mutant: a write that no read stamped is not refused. *)
SetUnstamped(p) == entry' = Stamped(flight[p].under, flight[p].ver)
(* store.Set refuses a write that no read stamped. *)
SetLands(p) ==
    /\ flight[p].under # Unread
    /\ entry' = Stamped(flight[p].under, flight[p].ver)

-----------------------------------------------------------------------------
(* The process's memory. *)

(* Mutant: peek answers an entry that expired while nobody asked. *)
HeldExpired(p) == local[p] # NoValue
Held(p) == local[p] # NoValue /\ local[p].until > clock

(* Answers the requests of rs with version v. *)
Answered(f, rs, v) ==
    [r \in Reqs |-> IF r \in rs
                      THEN [f[r] EXCEPT !.pc = "done", !.proc = NoReq.proc, !.ver = v]
                      ELSE f[r]]

-----------------------------------------------------------------------------
(* A request: API.resolve up to the singleflight, Group.load with local.   *)

Started(p) == [NoReq EXCEPT !.proc = p, !.floor = closed]

(* API.cached: a hit answers; a miss or a failing store asks the loader.   *)
StartHost(r, p) ==
    /\ kind = "host"
    /\ \/ Believed /\ req' = Answered([req EXCEPT ![r] = Started(p)], {r}, entry.ver)
       \/ (~Believed \/ Faults) /\ req' = [req EXCEPT ![r] = [Started(p) EXCEPT !.pc = "join"]]
    /\ UNCHANGED local

(* Group.peek, which also forgets an entry that expired unasked. *)
StartGroup(r, p) ==
    /\ kind = "group"
    /\ IF Held(p)
         THEN /\ req' = [req EXCEPT ![r] = [Started(p) EXCEPT
                                              !.pc = "ask", !.ver = local[p].ver]]
              /\ UNCHANGED local
         ELSE /\ req' = [req EXCEPT ![r] = [Started(p) EXCEPT !.pc = "join"]]
              /\ local' = [local EXCEPT ![p] = NoValue]

Start(r, p) ==
    /\ req[r].pc \in {"idle", "done"}
    /\ StartHost(r, p) \/ StartGroup(r, p)
    /\ UNCHANGED <<kind, db, gen, entry, flight, writer, clock, closed, ended>>

(* Group.local after the peek: a marker read that errs serves the value.   *)
Ask(r) ==
    /\ req[r].pc = "ask"
    /\ \/ /\ Believed \/ Faults
          /\ req' = Answered(req, {r}, req[r].ver)
          /\ UNCHANGED local
       \/ /\ ~Believed
          /\ local' = [local EXCEPT ![req[r].proc] = NoValue]
          /\ req' = [req EXCEPT ![r].pc = "join", ![r].ver = Refused]
    /\ UNCHANGED <<kind, db, gen, entry, flight, writer, clock, closed, ended>>

(* singleflight.Do: the first caller flies, the others wait for its answer.*)
Join(r) ==
    LET p == req[r].proc IN
    /\ req[r].pc = "join"
    /\ flight' = [flight EXCEPT ![p] =
         IF flight[p] = NoFlight
           THEN [NoFlight EXCEPT !.pc = "look", !.begun = clock,
                                 !.floor = closed, !.waiters = {r}]
           ELSE [flight[p] EXCEPT !.waiters = @ \cup {r}]]
    /\ req' = [req EXCEPT ![r].pc = "wait", ![r].late = flight'[p].floor < req[r].floor]
    /\ UNCHANGED <<kind, db, gen, entry, local, writer, clock, closed, ended>>

-----------------------------------------------------------------------------
(* The flight: the function under Do in API.resolve and in Group.load.     *)

Land(p, v) ==
    /\ flight' = [flight EXCEPT ![p] = NoFlight]
    /\ req' = Answered(req, flight[p].waiters, v)

(* The second look.  A read that errs leaves no generation to stamp under. *)
Look(p) ==
    /\ flight[p].pc = "look"
    /\ \/ kind = "host" /\ Believed /\ Land(p, entry.ver)
       \/ kind = "group" /\ Held(p) /\ Land(p, local[p].ver)
       \/ /\ kind = "host" => ~Believed
          /\ kind = "group" => ~Held(p)
          /\ flight' = [flight EXCEPT ![p].pc = "load", ![p].under = gen]
          /\ UNCHANGED req
       \/ /\ Faults
          /\ kind = "group" => ~Held(p)
          /\ flight' = [flight EXCEPT ![p].pc = "load", ![p].under = Unread]
          /\ UNCHANGED req
    /\ UNCHANGED <<kind, db, gen, entry, local, writer, clock, closed, ended>>

(* Tenants.ByHost, compose: reads the row, or fails and is remembered      *)
(* nowhere.                                                                *)
Load(p) ==
    /\ flight[p].pc = "load"
    /\ \/ /\ flight' = [flight EXCEPT ![p].pc = "set", ![p].ver = db]
          /\ UNCHANGED req
       \/ Faults /\ Land(p, Refused)
    /\ UNCHANGED <<kind, db, gen, entry, local, writer, clock, closed, ended>>

(* Cache.Set of the value or of the marker; its failure is only logged.  A *)
(* host resolution has no second copy in the process, and lands.           *)
Set(p) ==
    /\ flight[p].pc = "set"
    /\ \/ SetLands(p)
       \/ (Faults \/ flight[p].under = Unread) /\ UNCHANGED entry
    /\ \/ kind = "host" /\ Land(p, flight[p].ver)
       \/ /\ kind = "group"
          /\ flight' = [flight EXCEPT ![p].pc = "remember"]
          /\ UNCHANGED req
    /\ UNCHANGED <<kind, db, gen, local, writer, clock, closed, ended>>

(* Group.remember, then the flight lands. *)
Remember(p) ==
    /\ flight[p].pc = "remember"
    /\ local' = [local EXCEPT ![p] = [ver |-> flight[p].ver, until |-> clock + TTL]]
    /\ Land(p, flight[p].ver)
    /\ UNCHANGED <<kind, db, gen, entry, writer, clock, closed, ended>>

(* Group.remember of another key evicts this one: the bound and the LRU.   *)
Evict(p) ==
    /\ kind = "group" /\ local[p] # NoValue
    /\ local' = [local EXCEPT ![p] = NoValue]
    /\ UNCHANGED <<kind, db, gen, entry, flight, req, writer, clock, closed, ended>>

-----------------------------------------------------------------------------
(* The writer: the tenant routes, or whoever calls Forget and ForgetAll.   *)

Commit(p) ==
    /\ db < MaxVersion /\ writer[p] = "none"
    /\ ended' = [ended EXCEPT ![db] = clock]
    /\ db' = db + 1
    /\ writer' = [writer EXCEPT ![p] = "committed"]
    /\ UNCHANGED <<kind, gen, entry, local, flight, req, clock, closed>>

(* The process's own set goes first: Forget's drop, ForgetAll's clear.     *)
DropHere(p) ==
    /\ kind = "group" /\ writer[p] = "committed"
    /\ local' = [local EXCEPT ![p] = NoValue]
    /\ writer' \in {[writer EXCEPT ![p] = w] : w \in {"dropped one", "dropped all"}}
    /\ UNCHANGED <<kind, db, gen, entry, flight, req, clock, closed, ended>>

Moving(p) == writer[p] = IF kind = "host" THEN "committed" ELSE "dropped all"

(* Cache.Move through InvalidateHost or ForgetAll. *)
Move(p) ==
    /\ Moving(p) /\ gen < MaxGen
    /\ gen' = gen + 1 /\ closed' = db
    /\ writer' = [writer EXCEPT ![p] = "none"]
    /\ UNCHANGED <<kind, db, entry, local, flight, req, clock, ended>>

(* Cache.Delete through Group.Forget and Pool.Forget. *)
Delete(p) ==
    /\ writer[p] = "dropped one"
    /\ entry' = NoEntry
    /\ writer' = [writer EXCEPT ![p] = "none"]
    /\ UNCHANGED <<kind, db, gen, local, flight, req, clock, closed, ended>>

(* The store refuses the invalidation, or the process dies before it: the  *)
(* committed write stands and the caller is told (invalidationUncertain).  *)
InvalidationFails(p) ==
    /\ Faults
    /\ Moving(p) \/ writer[p] = "dropped one"
    /\ writer' = [writer EXCEPT ![p] = "none"]
    /\ UNCHANGED <<kind, db, gen, entry, local, flight, req, clock, closed, ended>>

-----------------------------------------------------------------------------
Tick ==
    /\ clock < MaxClock
    /\ \A r \in Reqs : req[r].pc # "ask"
    /\ \A p \in Procs : flight[p] # NoFlight => clock < flight[p].begun + Timeout
    /\ clock' = clock + 1
    /\ UNCHANGED <<kind, db, gen, entry, local, flight, req, writer, closed, ended>>

Next ==
    \/ \E r \in Reqs, p \in Procs : Start(r, p)
    \/ \E r \in Reqs : Ask(r) \/ Join(r)
    \/ \E p \in Procs : Look(p) \/ Load(p) \/ Set(p) \/ Remember(p) \/ Evict(p)
    \/ \E p \in Procs : Commit(p) \/ DropHere(p) \/ Move(p) \/ Delete(p) \/ InvalidationFails(p)
    \/ Tick

Spec == Init /\ [][Next]_vars

-----------------------------------------------------------------------------
(* What the readers may rely on. *)

Done(r) == req[r].pc = "done" /\ req[r].ver # Refused

(* Once a Move has landed, nothing in the store that a reader would        *)
(* believe was read from the database before it - not even a load that was *)
(* already running and writes its answer later.                            *)
ClosedNotBelieved == Believed => entry.ver >= closed

(* A host request that begins after InvalidateHost returned is never       *)
(* served the tenant of before, unless it joined a load that had begun     *)
(* before the Move: "takes effect now" has that one window.                *)
HostFresh ==
    kind = "host" => \A r \in Reqs : Done(r) /\ req[r].ver < req[r].floor => req[r].late

(* Whatever fails - the invalidation, the marker read, a process dying     *)
(* before it invalidates - nobody is served a superseded version for       *)
(* longer than one load and one lifetime after it was superseded.          *)
StaleForOneLifetime ==
    [][\A r \in Reqs :
         LET v == req'[r].ver IN
         req'[r].pc = "done" /\ req[r].pc # "done" /\ v \in Versions /\ v < db =>
             clock < ended[v] + Timeout + TTL]_vars

=============================================================================
