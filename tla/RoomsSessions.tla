---------------------------- MODULE RoomsSessions ----------------------------
(***************************************************************************)
(* Who the rooms coordinator listens to: login challenges and sessions,    *)
(* the cached reading of each player's session epoch on the hub, the       *)
(* requests that carry an operation id, and the sockets that are told when *)
(* the lobby changes or their session ends.                                *)
(*                                                                         *)
(* The five seconds an epoch reading stays good are one step of age.  A    *)
(* reading in progress is shared by everyone who asks meanwhile and        *)
(* returns the epoch of its beginning or of its end.                       *)
(***************************************************************************)
EXTENDS Naturals, FiniteSets, Sequences

CONSTANTS Players,
          Ops,         \* operation ids the players' tabs make
          MaxEpoch,    \* bound: session epochs of a player
          MaxNonce,    \* bound: challenges issued in all
          MaxOpen,     \* challenges a player may have open (8)
          MaxRev,      \* bound: changes of the lobby document
          MaxFail      \* bound: failed epoch readings

VARIABLES hub,       \* the session epoch of each player
          cache,     \* epochs: the last reading of each player's epoch
          reading,   \* epochChecks: the readings in progress
          issued,    \* challenges issued so far
          nonces,    \* il_nonces
          logins,    \* POST /auth/session between its SELECT and its DELETE
          sessions,  \* il_sessions, one per successful login
          reqs,      \* operations between the first lookup and the lock
          ops,       \* il_operations: the body and the response of each
          effects,   \* the bodies that took effect, per operation
          rev,       \* the revision of the lobby document
          sockets,   \* subscribed sockets: session and last revision sent
          walk,      \* the sockets notify has yet to visit
          fails

authVars == <<hub, cache, reading, fails>>
loginVars == <<issued, nonces, logins, sessions>>
opVars == <<reqs, ops, effects, rev>>
vars == <<authVars, loginVars, opVars, sockets, walk>>

None == 99
NoCache == [value |-> None, fresh |-> FALSE]

Init ==
  /\ hub = [p \in Players |-> 0]
  /\ cache = [p \in Players |-> NoCache] /\ reading = [p \in Players |-> None]
  /\ issued = 0 /\ nonces = {} /\ logins = {} /\ sessions = {}
  /\ reqs = {} /\ ops = [o \in Ops |-> None] /\ effects = [o \in Ops |-> <<>>]
  /\ rev = 0 /\ sockets = {} /\ walk = {} /\ fails = 0

(***************************************************************************)
(* Sessions.                                                               *)
(***************************************************************************)
Challenge(p) ==
  /\ issued < MaxNonce /\ Cardinality({n \in nonces : n.player = p}) < MaxOpen
  /\ issued' = issued + 1
  /\ nonces' = nonces \cup {[id |-> issued, player |-> p]}
  /\ UNCHANGED <<authVars, logins, sessions, opVars, sockets, walk>>

ChallengeExpires(n) ==
  /\ nonces' = nonces \ {n}
  /\ UNCHANGED <<authVars, issued, logins, sessions, opVars, sockets, walk>>

\* The challenge is found and the grant of the current epoch verified; tries
\* tells apart two posts of one signed challenge.
LoginVerified(n, try) ==
  /\ logins' = logins \cup {[nonce |-> n.id, player |-> n.player, epoch |-> hub[n.player], try |-> try]}
  /\ UNCHANGED <<authVars, issued, nonces, sessions, opVars, sockets, walk>>

\* "Authentication already used."
Used(l) == ~\E n \in nonces : n.id = l.nonce

LoginEnds(l) ==
  /\ logins' = logins \ {l}
  /\ nonces' = {n \in nonces : n.id # l.nonce}
  /\ sessions' = IF Used(l) THEN sessions
                 ELSE sessions \cup {[player |-> l.player, epoch |-> l.epoch, nonce |-> l.nonce, try |-> l.try]}
  /\ UNCHANGED <<authVars, issued, opVars, sockets, walk>>

\* DELETE /auth/session, or the grant's expiry.
SessionEnds(s) ==
  /\ sessions' = sessions \ {s}
  /\ UNCHANGED <<authVars, issued, nonces, logins, opVars, sockets, walk>>

\* The player revokes every session on the hub.
Revoke(p) ==
  /\ hub[p] < MaxEpoch
  /\ hub' = [hub EXCEPT ![p] = @ + 1]
  /\ UNCHANGED <<cache, reading, fails, loginVars, opVars, sockets, walk>>

(***************************************************************************)
(* authenticate.                                                           *)
(***************************************************************************)
Age(p) ==
  /\ cache[p].fresh
  /\ cache' = [cache EXCEPT ![p].fresh = FALSE]
  /\ UNCHANGED <<hub, reading, fails, loginVars, opVars, sockets, walk>>

\* Mutant: a reading is kept for good.
MustReadOnce(p) == cache[p] = NoCache
\* The cached epoch is missing or older than five seconds.
MustRead(p) == ~cache[p].fresh

Asking(p) == (\E s \in walk : s.session.player = p) \/ (\E s \in sessions : s.player = p)

StartReading(p) ==
  /\ MustRead(p) /\ reading[p] = None /\ Asking(p)
  /\ reading' = [reading EXCEPT ![p] = hub[p]]
  /\ UNCHANGED <<hub, cache, fails, loginVars, opVars, sockets, walk>>

EndReading(p) ==
  /\ reading[p] # None
  /\ \E v \in {reading[p], hub[p]} : cache' = [cache EXCEPT ![p] = [value |-> v, fresh |-> TRUE]]
  /\ reading' = [reading EXCEPT ![p] = None]
  /\ UNCHANGED <<hub, fails, loginVars, opVars, sockets, walk>>

\* SessionUnavailable: the answer says so and nothing else changes.
ReadingFails(p) ==
  /\ reading[p] # None /\ fails < MaxFail
  /\ fails' = fails + 1
  /\ reading' = [reading EXCEPT ![p] = None]
  /\ UNCHANGED <<hub, cache, loginVars, opVars, sockets, walk>>

Authentic(s) == s \in sessions /\ ~MustRead(s.player) /\ cache[s.player].value = s.epoch
Rejected(s) == s \notin sessions \/ (~MustRead(s.player) /\ cache[s.player].value # s.epoch)

(***************************************************************************)
(* A request with an operation id: looked up, prepared, then decided under *)
(* the lobby lock.  body is what the request asks for.                     *)
(***************************************************************************)
Request(s, o, body) ==
  /\ Authentic(s)
  /\ ops[o] = None
  /\ \E t \in {1, 2} :
       /\ [op |-> o, body |-> body, try |-> t] \notin reqs
       /\ reqs' = reqs \cup {[op |-> o, body |-> body, try |-> t]}
  /\ UNCHANGED <<authVars, loginVars, ops, effects, rev, sockets, walk>>

\* transact finds the operation's row.
Known(o) == ops[o] # None

Transact(r) ==
  /\ rev < MaxRev
  /\ reqs' = reqs \ {r}
  /\ IF Known(r.op) THEN UNCHANGED <<ops, effects, rev>>
     ELSE /\ ops' = [ops EXCEPT ![r.op] = r.body]
          /\ effects' = [effects EXCEPT ![r.op] = Append(@, r.body)]
          /\ rev' = rev + 1
  /\ UNCHANGED <<authVars, loginVars, sockets, walk>>

(***************************************************************************)
(* Sockets.                                                                *)
(***************************************************************************)
Subscribe(s) ==
  /\ Authentic(s) /\ ~\E k \in sockets : k.session = s
  /\ sockets' = sockets \cup {[session |-> s, seen |-> None]}
  /\ UNCHANGED <<authVars, loginVars, opVars, walk>>

\* notify, called after every request and every maintenance cycle, runs once
\* at a time over the sockets open when it starts.
StartNotify ==
  /\ walk = {} /\ sockets # {} /\ walk' = sockets
  /\ UNCHANGED <<authVars, loginVars, opVars, sockets>>

Visit(k) ==
  /\ \/ /\ k \in sockets /\ Rejected(k.session)
        /\ sockets' = sockets \ {k}
     \/ /\ k \in sockets /\ Authentic(k.session)
        /\ sockets' = (sockets \ {k}) \cup {[k EXCEPT !.seen = rev]}
     \/ /\ k \notin sockets
        /\ UNCHANGED sockets
  /\ walk' = walk \ {k}
  /\ UNCHANGED <<authVars, loginVars, opVars>>

\* The reading failed: the socket is told the service is unavailable.
VisitUnavailable(k) ==
  /\ reading[k.session.player] # None /\ fails < MaxFail
  /\ fails' = fails + 1
  /\ reading' = [reading EXCEPT ![k.session.player] = None]
  /\ walk' = walk \ {k}
  /\ UNCHANGED <<hub, cache, loginVars, opVars, sockets>>

Next ==
  \/ \E p \in Players : \/ Challenge(p) \/ Revoke(p) \/ Age(p)
                        \/ StartReading(p) \/ EndReading(p) \/ ReadingFails(p)
  \/ \E n \in nonces : ChallengeExpires(n) \/ \E t \in {1, 2} : LoginVerified(n, t)
  \/ \E l \in logins : LoginEnds(l)
  \/ \E s \in sessions : \/ SessionEnds(s) \/ Subscribe(s)
                         \/ \E o \in Ops, b \in {1, 2} : Request(s, o, b)
  \/ \E r \in reqs : Transact(r)
  \/ StartNotify
  \/ \E k \in walk : Visit(k) \/ VisitUnavailable(k)

Spec == Init /\ [][Next]_vars

Visits == \E k \in walk : Visit(k)

SessionFairness ==
  /\ \A p \in Players : WF_vars(StartReading(p)) /\ WF_vars(EndReading(p)) /\ WF_vars(Age(p))
  /\ WF_vars(StartNotify) /\ SF_vars(Visits)

(***************************************************************************)
(* Properties.                                                             *)
(***************************************************************************)
SessionsTypeOK ==
  /\ hub \in [Players -> 0..MaxEpoch] /\ fails \in 0..MaxFail /\ rev \in 0..MaxRev
  /\ \A p \in Players : cache[p].fresh => cache[p].value <= hub[p]
  /\ \A n \in nonces : n.id < issued
  /\ \A k \in sockets : k.seen = None \/ k.seen <= rev

\* However often a tab repeats a request, and whatever it finds between the
\* first lookup and the lock, its operation takes effect once, and the
\* answer kept for the operation is that of the body that took effect.
OperationOnce ==
  \A o \in Ops : Len(effects[o]) <= 1 /\ (ops[o] # None => effects[o] = <<ops[o]>>)

\* A signed challenge opens one session, though two posts of it may be verified
\* side by side.
ChallengeOnce == \A s, t \in sessions : s.nonce = t.nonce => s = t

\* A player who revokes their sessions, or ends one, is soon disconnected: the
\* socket of a session that is gone for good does not stay subscribed.
Outdated(p, e) == hub[p] > e
Subscribed(p, e) == \E k \in sockets : k.session.player = p /\ k.session.epoch = e
RevokedSocketsClose == \A p \in Players, e \in 0..MaxEpoch : Outdated(p, e) ~> ~Subscribed(p, e)
=============================================================================
