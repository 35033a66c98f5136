------------------------------ MODULE LiveHub ------------------------------
(***************************************************************************)
(* The server half of live refresh (packages/web/src/live): one ordered    *)
(* log of changes and revocations, and the processes that apply it.  Each  *)
(* process keeps a history of the changes it applied, refuses grants that  *)
(* a revocation withdrew, and fans changes out to the socket it holds.     *)
(*                                                                         *)
(* Everything a process knows of the log is the log up to seen[p]: the     *)
(* ring of a History is its changes above floor[p], the stored revocations *)
(* of a Revocations are its revocations.  An owner of the page - a layout, *)
(* the page loader - reads one key, and the key names it.                  *)
(***************************************************************************)
EXTENDS Integers, Sequences, SequencesExt

CONSTANTS
  Procs,      \* processes serving the app
  NoProc,
  Keys,       \* live keys, one for each owner of the page
  MaxHistory, \* HISTORY_ENTRIES: changes a process remembers
  MaxEvents,  \* bound: events appended to the bus
  MaxFaults   \* bound: lost connections, refused loads, buses that go down

ASSUME NoProcAssumption == NoProc \notin Procs
ASSUME KeysAssumption == IsFiniteSet(Keys)
ASSUME LiveBoundsAssumption ==
  MaxHistory \in Nat \ {0} /\ MaxEvents \in Nat /\ MaxFaults \in Nat

VARIABLES
  log,        \* the bus: its events in seq order
  seen,       \* the last seq a process applied, History.last
  floor,      \* History.floor: changes up to it may be forgotten
  refuse,     \* Revocations.floor: grants issued below it are refused
  down,       \* LiveHub.down: the bus is unreachable
  coalescing, \* the window of each key: "none", "open" or "again"
  socket,     \* the process whose hub holds the tab's socket
  tags,       \* the topics that socket is subscribed to
  vouched,    \* history: the grant that put it there
  toClient,   \* frames on their way to the tab
  faults

logVars == <<log, seen, floor, refuse, down>>
socketVars == <<socket, tags, vouched, toClient>>
hubVars == <<logVars, coalescing, socketVars>>

Stamp == 0..MaxEvents
Event == [type: {"change", "revoke"}, key: Keys] \cup [type: {"revokeAll"}]

(* A grant: the seq it was issued at, and for each owner the watermark its
   data is known to be as new as.  The socket id it is bound to is given
   by its relation to the tab: the seed rendered with the page, the id of
   a load made with no socket, an earlier socket, the open one. *)
Sid == {"none", "seed", "local", "gone", "current"}
Grant == [sid: Sid, s: Stamp, w: [Keys -> Stamp]]
NoGrant == [sid |-> "none", s |-> 0, w |-> [k \in Keys |-> 0]]

(* An answer to a watch that a later one superseded is ignored. *)
Frame == [t: {"ready"}, stale: SUBSET Keys] \cup [t: {"changed"}, key: Keys]
           \cup [t: {"close", "superseded"}]
Changed(k) == [t |-> "changed", key |-> k]

HubTypeOK ==
  /\ log \in Seq(Event) /\ Len(log) <= MaxEvents
  /\ seen \in [Procs -> 0..Len(log)]
  /\ floor \in [Procs -> Stamp] /\ refuse \in [Procs -> Stamp]
  /\ \A p \in Procs : floor[p] <= seen[p] /\ refuse[p] <= seen[p]
  /\ down \in [Procs -> BOOLEAN]
  /\ coalescing \in [Procs -> [Keys -> {"none", "open", "again"}]]
  /\ socket \in Procs \cup {NoProc}
  /\ tags \subseteq Keys
  /\ vouched \in Grant
  /\ toClient \in Seq(Frame)
  /\ faults \in 0..MaxFaults

HubInit ==
  /\ log = <<>>
  /\ seen = [p \in Procs |-> 0]
  /\ floor = [p \in Procs |-> 0]
  /\ refuse = [p \in Procs |-> 0]
  /\ down = [p \in Procs |-> FALSE]
  /\ coalescing = [p \in Procs |-> [k \in Keys |-> "none"]]
  /\ socket = NoProc /\ tags = {} /\ vouched = NoGrant /\ toClient = <<>>
  /\ faults = 0

-----------------------------------------------------------------------------
(* What the log says *)

ChangesOf(k, from, to) ==
  {i \in DOMAIN log : from < i /\ i <= to /\ log[i].type = "change"
                                          /\ log[i].key = k}

RevokedWithin(k, from, to) ==
  \E i \in DOMAIN log :
    /\ from < i /\ i <= to
    /\ \/ log[i].type = "revokeAll"
       \/ log[i].type = "revoke" /\ log[i].key = k

(* The last change of k up to n: all a copy of its data can be as new as. *)
LastChange(k, n) == Max({0} \cup ChangesOf(k, 0, n))

-----------------------------------------------------------------------------
(* Publishing: the write is visible before its event is appended. *)

Appended(e) ==
  /\ Len(log) < MaxEvents
  /\ log' = Append(log, e)
  /\ UNCHANGED <<seen, floor, refuse, down, coalescing, socketVars, faults>>

Publish(k) == Appended([type |-> "change", key |-> k])
RevokeKey(k) == Appended([type |-> "revoke", key |-> k])
RevokeAll == Appended([type |-> "revokeAll"])

-----------------------------------------------------------------------------
(* Applying the log *)

Subscribed(p, k) == socket = p /\ k \in tags

(* The socket leaves its topics and is closed behind the frames it was
   sent. *)
Drop ==
  /\ socket' = NoProc
  /\ tags' = {}
  /\ vouched' = NoGrant
  /\ toClient' = Append(toClient, [t |-> "close"])

CloseAll(p) == IF socket = p THEN Drop ELSE UNCHANGED socketVars

(* History.record: a full ring gives up its oldest change. *)
Ring(p) == UNION {ChangesOf(k, floor[p], seen[p]) : k \in Keys}
Record(p) ==
  floor' = IF Cardinality(Ring(p)) < MaxHistory THEN floor
           ELSE [floor EXCEPT ![p] = Min(Ring(p))]

(* LiveHub.change: at most one frame per key and window. *)
Change(p, k) ==
  /\ Record(p)
  /\ coalescing' = IF ~Subscribed(p, k) THEN coalescing
                   ELSE [coalescing EXCEPT ![p][k] =
                           IF @ = "none" THEN "open" ELSE "again"]
  /\ toClient' = IF Subscribed(p, k) /\ coalescing[p][k] = "none"
                 THEN Append(toClient, Changed(k)) ELSE toClient
  /\ UNCHANGED <<refuse, socket, tags, vouched>>

(* LiveHub.revoke of one key: a last frame, then the socket leaves it. *)
Revoke(p, k) ==
  /\ tags' = IF socket = p THEN tags \ {k} ELSE tags
  /\ toClient' = IF Subscribed(p, k) THEN Append(toClient, Changed(k)) ELSE toClient
  /\ UNCHANGED <<floor, refuse, coalescing, socket, vouched>>

(* applyEvent, recorded and fanned out in one synchronous step. *)
Apply(p) ==
  /\ ~down[p] /\ seen[p] < Len(log)
  /\ seen' = [seen EXCEPT ![p] = @ + 1]
  /\ LET e == log[seen[p] + 1] IN
       \/ e.type = "change" /\ Change(p, e.key)
       \/ e.type = "revoke" /\ Revoke(p, e.key)
       \/ /\ e.type = "revokeAll"
          /\ refuse' = [refuse EXCEPT ![p] = seen[p] + 1]
          /\ CloseAll(p)
          /\ UNCHANGED <<floor, coalescing>>
  /\ UNCHANGED <<log, down, faults>>

(* The coalescing timer: a key that changed again is published again. *)
Flush(p) ==
  /\ \E k \in Keys : coalescing[p][k] # "none"
  /\ coalescing' = [coalescing EXCEPT ![p] = [k \in Keys |->
                      IF @[k] = "again" THEN "open" ELSE "none"]]
  /\ toClient' = toClient \o SetToSeq(
       {Changed(k) : k \in {q \in Keys : Subscribed(p, q)
                                          /\ coalescing[p][q] = "again"}})
  /\ UNCHANGED <<logVars, socket, tags, vouched, faults>>

BusDown(p) ==
  /\ ~down[p]
  /\ faults < MaxFaults /\ faults' = faults + 1
  /\ down' = [down EXCEPT ![p] = TRUE]
  /\ CloseAll(p)
  /\ UNCHANGED <<log, seen, floor, refuse, coalescing>>

(* forgetUntil: the bus resumes, lost events, or sent one that could not
   be applied; everything up to its head is unknown. *)
ForgetUntil(p, head) ==
  LET at == Max({head, seen[p]}) IN
  /\ down[p] \/ faults < MaxFaults
  /\ faults' = IF down[p] THEN faults ELSE faults + 1
  /\ seen' = [seen EXCEPT ![p] = at]
  /\ floor' = [floor EXCEPT ![p] = at]
  /\ refuse' = [refuse EXCEPT ![p] = at]
  /\ down' = [down EXCEPT ![p] = FALSE]
  /\ CloseAll(p)
  /\ UNCHANGED <<log, coalescing>>

-----------------------------------------------------------------------------
(* Grants: what a load may keep, what a watch is answered *)

GrantRevoked(p, g) == g.s < refuse[p]
KeyRevoked(p, k, g) == RevokedWithin(k, g.s, seen[p])

(* Mutant: a watermark the ring has forgotten reads as known. *)
KnownIfReached(p, w) == w <= seen[p]
Known(p, w) == floor[p] <= w /\ w <= seen[p]
ChangedSince(p, k, w) ==
  ~Known(p, w) \/ ChangesOf(k, Max({w, floor[p]}), seen[p]) # {}

Honoured(p, g) == g # NoGrant /\ ~down[p] /\ ~GrantRevoked(p, g)

(* install(), from its last await on: one synchronous step that subscribes,
   scans history and answers. *)

(* Mutant: the keys of the grant are not looked up. *)
RefusedWholeOnly(p, g) == g # NoGrant /\ GrantRevoked(p, g)
Refused(p, g) ==
  g # NoGrant /\ (GrantRevoked(p, g) \/ \E k \in Keys : KeyRevoked(p, k, g))

Install(p, g, reply) ==
  \/ Refused(p, g) /\ Drop
  \/ /\ ~Refused(p, g)
     /\ tags' = IF g = NoGrant THEN {} ELSE Keys
     /\ vouched' = g
     /\ toClient' = IF reply
          THEN Append(toClient, [t |-> "ready",
                 stale |-> {k \in Keys : ChangedSince(p, k, g.w[k])}])
          ELSE toClient
     /\ UNCHANGED socket
=============================================================================
