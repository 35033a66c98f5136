---------------------------- MODULE LiveRefresh ----------------------------
(***************************************************************************)
(* Live refresh, end to end: one browser tab showing one page              *)
(* (packages/web/src/live-client.ts), the load endpoint it reloads through *)
(* (packages/web/src/live.ts) and the hubs of LiveHub.  A reload may go to *)
(* any process; it is split where it reads the log seq and the grant it  *)
(* was presented, where its loaders read the data, and where the tab       *)
(* applies it.                                                             *)
(***************************************************************************)
EXTENDS LiveHub

CONSTANT ConnectsBeforePolling

ASSUME ConnectsAssumption == ConnectsBeforePolling \in Nat \ {0}

VARIABLES
  frame,    \* the page on screen and the load it came from
  load,     \* the reload in flight
  link,     \* the process of the socket the tab believes open
  sent,     \* what the last watch on it carried: "none", "empty", "grant"
  toServer, \* watches on their way
  delayed,  \* changes whose spread timer runs
  connects  \* connectFailures, up to ConnectsBeforePolling

clientVars == <<frame, load, link, sent, toServer, delayed, connects>>
vars == <<hubVars, faults, clientVars>>

NoLoad == [phase |-> "none"]
Load == [phase: {"running", "answered"}, at: Procs, bound: Sid, full: BOOLEAN,
         s: Stamp, kept: SUBSET Keys, bare: BOOLEAN, shown: [Keys -> Stamp]]
Watch == [grant: Grant, latest: BOOLEAN]

TypeOK ==
  /\ HubTypeOK
  /\ frame \in [grant: Grant, shown: [Keys -> Stamp], dirty: SUBSET Keys,
                whole: BOOLEAN, exchange: BOOLEAN, pending: BOOLEAN]
  /\ load \in Load \cup {NoLoad}
  /\ link \in Procs \cup {NoProc}
  /\ sent \in {"none", "empty", "grant"}
  /\ toServer \in Seq(Watch)
  /\ delayed \subseteq Keys
  /\ connects \in 0..ConnectsBeforePolling

NewFrame(g, data, waits) ==
  [grant |-> g, shown |-> data, dirty |-> {}, whole |-> FALSE,
   exchange |-> FALSE, pending |-> waits]

(* A page rendered on the server, with a seed or without. *)
Init ==
  /\ HubInit
  /\ \E sid \in {"none", "seed"} :
       frame = NewFrame([NoGrant EXCEPT !.sid = sid], [k \in Keys |-> 0], FALSE)
  /\ load = NoLoad
  /\ link = NoProc /\ sent = "none" /\ toServer = <<>>
  /\ delayed = {} /\ connects = 0

-----------------------------------------------------------------------------
(* The frame *)

Connected == link # NoProc
Watchable == frame.grant.sid = "current"
Polling == ~Connected /\ connects >= ConnectsBeforePolling

(* wakeOf(), without its clock: what the frame is loaded for next. *)
DueLoad == frame.whole \/ frame.exchange \/ frame.dirty # {}
DueRenew == ~DueLoad /\ Watchable /\ ~frame.pending
DuePoll == ~DueLoad /\ ~Watchable /\ (Polling \/ frame.grant = NoGrant)

-----------------------------------------------------------------------------
(* Reloads: fetchData and prepareLoad *)

Bound == IF Connected THEN "current" ELSE "local"

(* The grant a reload presents, and the owners it offers to keep. *)
Presented ==
  IF frame.whole \/ DuePoll \/ frame.grant.sid \notin {Bound, "seed"}
  THEN NoGrant ELSE frame.grant
Offered == Keys \ frame.dirty

Keepable(p) ==
  IF Honoured(p, Presented)
  THEN {k \in Offered : ~KeyRevoked(p, k, Presented)} ELSE {}

(* The process reads its seq before any loader runs.  It keeps what it may,
   or nothing: another subject, a seed too old, no `authorize`, renewals
   used up. *)
Reload(p) ==
  /\ load = NoLoad
  /\ \E kept \in {Keepable(p), {}} :
       load' = [phase |-> "running", at |-> p, bound |-> Bound,
                full |-> frame.whole \/ frame.exchange, s |-> seen[p],
                kept |-> kept, bare |-> down[p], shown |-> frame.shown]
  /\ frame' = [frame EXCEPT !.whole = FALSE, !.exchange = FALSE]
  /\ UNCHANGED <<hubVars, faults, link, sent, toServer, delayed, connects>>

ReloadDue(p) == (DueLoad \/ DuePoll) /\ Reload(p)
Renew(p) == DueRenew /\ Reload(p)

(* The loaders read the data, and finish() seals a grant unless the log is
   unreachable. *)
LoadAnswered ==
  /\ load.phase = "running"
  /\ load' = [load EXCEPT
       !.phase = "answered",
       !.bare = @ \/ down[load.at],
       !.shown = [k \in Keys |-> IF k \in load.kept THEN @[k]
                                 ELSE LastChange(k, Len(log))]]
  /\ UNCHANGED <<hubVars, faults, frame, link, sent, toServer, delayed, connects>>


(* Mutant: the watermark is read once the loaders are done. *)
SealedAtFinish ==
  IF load.bare THEN NoGrant
  ELSE [sid |-> load.bound, s |-> load.s,
        w |-> [k \in Keys |-> IF k \in load.kept THEN frame.grant.w[k]
                                                 ELSE seen[load.at]]]
Sealed ==
  IF load.bare THEN NoGrant
  ELSE [sid |-> load.bound, s |-> load.s,
        w |-> [k \in Keys |-> IF k \in load.kept THEN frame.grant.w[k] ELSE load.s]]

(* sendWatch(): a grant of this socket, or none where there was one; the
   watches before it are superseded. *)
SendWatch(watch) ==
  IF watch \/ sent = "grant"
  THEN /\ sent' = IF watch THEN "grant" ELSE "empty"
       /\ toServer' = Append([i \in DOMAIN toServer |->
                                [toServer[i] EXCEPT !.latest = FALSE]],
            [grant |-> IF watch THEN Sealed ELSE NoGrant, latest |-> TRUE])
       /\ toClient' = [i \in DOMAIN toClient |->
            IF toClient[i].t = "ready" THEN [t |-> "superseded"] ELSE toClient[i]]
  ELSE UNCHANGED <<sent, toServer, toClient>>

(* The answer is a new frame. *)
LoadApplied ==
  LET watch == Sealed.sid = "current" IN
  /\ load.phase = "answered"
  /\ Len(toServer) < 2
  /\ frame' = NewFrame(Sealed, load.shown, watch)
  /\ load' = NoLoad
  /\ delayed' = {}
  /\ SendWatch(watch)
  /\ UNCHANGED <<logVars, coalescing, socket, tags, vouched, faults, link, connects>>

LoadFails ==
  /\ load # NoLoad
  /\ faults < MaxFaults /\ faults' = faults + 1
  /\ frame' = [frame EXCEPT !.whole = @ \/ load.full]
  /\ load' = NoLoad
  /\ UNCHANGED <<hubVars, link, sent, toServer, delayed, connects>>

-----------------------------------------------------------------------------
(* The socket *)

(* A watch received while an earlier one is being opened supersedes it. *)
WatchServed ==
  \E i \in DOMAIN toServer :
    /\ toServer' = SubSeq(toServer, i + 1, Len(toServer))
    /\ IF socket # NoProc
       THEN Install(socket, toServer[i].grant,
                    toServer[i].latest /\ toServer[i].grant # NoGrant)
       ELSE UNCHANGED socketVars
    /\ UNCHANGED <<logVars, coalescing, faults, frame, load, link, sent,
                   delayed, connects>>

(* welcome, and the reconcile() it runs: no grant is of this socket yet, so
   the frame is loaded for one, or its seed exchanged. *)
Welcome(p) ==
  /\ ~Connected /\ ~down[p]
  /\ link' = p /\ socket' = p
  /\ connects' = 0
  /\ frame' = IF frame.grant.sid = "seed" THEN [frame EXCEPT !.exchange = TRUE]
                                          ELSE [frame EXCEPT !.whole = TRUE]
  /\ UNCHANGED <<logVars, coalescing, tags, vouched, toClient, faults, load,
                 sent, toServer, delayed>>

ConnectFails ==
  /\ ~Connected /\ connects < ConnectsBeforePolling
  /\ \/ faults < MaxFaults /\ faults' = faults + 1
     \/ UNCHANGED faults /\ \E p \in Procs : down[p]
  /\ connects' = connects + 1
  /\ UNCHANGED <<hubVars, frame, load, link, sent, toServer, delayed>>

Lost(sid) == IF sid = "current" THEN "gone" ELSE sid

(* closed(): no watch survives the socket, and what was bound to its id is
   bound to an id no socket has. *)
Closed ==
  /\ link' = NoProc /\ sent' = "none" /\ toServer' = <<>> /\ toClient' = <<>>
  /\ frame' = [frame EXCEPT !.pending = FALSE, !.grant.sid = Lost(@)]
  /\ load' = IF load = NoLoad THEN load ELSE [load EXCEPT !.bound = Lost(@)]
  /\ UNCHANGED <<logVars, coalescing, delayed, connects>>

ConnectionLost ==
  /\ Connected
  /\ faults < MaxFaults /\ faults' = faults + 1
  /\ socket' = NoProc /\ tags' = {} /\ vouched' = NoGrant
  /\ Closed

OnReady(f) ==
  /\ f.t = "ready"
  /\ frame' = [frame EXCEPT !.pending = FALSE, !.dirty = f.stale]
  /\ UNCHANGED delayed

(* Marked at once, or after its spread. *)
OnChanged(f) ==
  /\ f.t = "changed"
  /\ IF ~frame.pending /\ Watchable
     THEN \/ frame' = [frame EXCEPT !.dirty = @ \cup {f.key}] /\ UNCHANGED delayed
          \/ delayed' = delayed \cup {f.key} /\ UNCHANGED frame
     ELSE UNCHANGED <<frame, delayed>>

Ignores(f) == f.t = "superseded" /\ UNCHANGED <<frame, delayed>>

Receive ==
  /\ toClient # <<>>
  /\ \/ /\ OnReady(Head(toClient)) \/ OnChanged(Head(toClient)) \/ Ignores(Head(toClient))
        /\ toClient' = Tail(toClient)
        /\ UNCHANGED <<logVars, coalescing, socket, tags, vouched, faults, load,
                       link, sent, toServer, connects>>
     \/ /\ Head(toClient).t = "close"
        /\ Closed
        /\ UNCHANGED <<socket, tags, vouched, faults>>

Mark(k) ==
  /\ k \in delayed
  /\ delayed' = delayed \ {k}
  /\ frame' = IF frame.pending THEN frame ELSE [frame EXCEPT !.dirty = @ \cup {k}]
  /\ UNCHANGED <<hubVars, faults, load, link, sent, toServer, connects>>

-----------------------------------------------------------------------------
Server ==
  \/ \E k \in Keys : Publish(k) \/ RevokeKey(k)
  \/ RevokeAll
  \/ \E p \in Procs :
       \/ Apply(p) \/ Flush(p) \/ BusDown(p)
       \/ \E head \in 0..Len(log) : ForgetUntil(p, head)

Tab ==
  \/ \E p \in Procs : ReloadDue(p) \/ Renew(p) \/ Welcome(p)
  \/ LoadAnswered \/ LoadApplied \/ LoadFails
  \/ WatchServed \/ ConnectFails \/ ConnectionLost \/ Receive
  \/ \E k \in Keys : Mark(k)

Next == (Server /\ UNCHANGED clientVars) \/ Tab

Spec == Init /\ [][Next]_vars


-----------------------------------------------------------------------------
(* Properties *)

AsNewAs(data, k, n) == ChangesOf(k, data[k], n) = {}

(* A change is never lost on the way to the page: while a watch is in
   force, each owner on screen is as new as the changes the socket's process
   has applied, or its reload is due - it is dirty, its spread timer runs,
   the frame that tells of it is in flight, or its window will send one.
   The join between a load, the watch of its grant and the history scan. *)
NothingMissed ==
  (socket # NoProc /\ Watchable /\ ~frame.pending) =>
    \A k \in Keys :
      \/ AsNewAs(frame.shown, k, seen[socket])
      \/ k \in frame.dirty \cup delayed
      \/ \E i \in DOMAIN toClient : toClient[i] = Changed(k)
      \/ coalescing[socket][k] = "again" /\ k \in tags

(* A grant says what is so, whatever processes served its loads: each copy
   on screen is at least as new as the watermark the grant gives it, and an
   owner it holds had its loader decide after the last revocation of its key
   that the grant's seq covers ("never kept or re-signed"). *)
GrantsAreTrue ==
  frame.grant # NoGrant => \A k \in Keys :
    /\ AsNewAs(frame.shown, k, frame.grant.w[k])
    /\ ~RevokedWithin(k, frame.grant.w[k], frame.grant.s)

(* Revoked access hears nothing: a socket holds no topic by a grant issued
   before a revocation its process has applied, in whichever order the watch
   and the revocation came, and none a lost stretch of the log may have
   withdrawn. *)
RevokedHoldNothing ==
  socket # NoProc => \A k \in tags :
    vouched.s >= refuse[socket] /\ ~KeyRevoked(socket, k, vouched)

(* "A frame with no usable grant gets one load for one under each socket;
   after that it polls" (packages/web/src/live-client.ts:160): while a
   socket is open, a frame is watched, has no grant and polls, or has a load
   due or running. *)
NeverStranded ==
  ~(/\ Connected /\ ~Watchable /\ frame.grant # NoGrant
    /\ ~DueLoad /\ load = NoLoad /\ delayed = {})
=============================================================================
