---------------------------- MODULE ArcadeSessions --------------------------
(***************************************************************************)
(* contracts/src/v3/ArcadeSessions.sol: an owner delegates gameplay, never *)
(* money, to a browser key for at most two hours.  Signatures are abstract *)
(* (an action is taken by whoever the code would accept as its signer).    *)
(*                                                                         *)
(* One variable, now, is both block.number and block.timestamp: durations  *)
(* are counted in blocks.                                                  *)
(***************************************************************************)
EXTENDS Integers, FiniteSets

CONSTANTS Players, Keys,
          NoKey, NoPlayer,   \* the zero address, as a key and as a player
          GrantLife,         \* 2 hours
          GrantLengths,      \* lengths of the grants that are signed
          MaxGrants,         \* bound: grants and revocations per player
          MaxBlock           \* bound: blocks

ASSUME ArcadeAssumption ==
    /\ GrantLife \in Nat /\ MaxGrants \in Nat /\ MaxBlock \in Nat
    /\ GrantLengths \subseteq Nat
    /\ NoKey \notin Keys /\ NoPlayer \notin Players /\ Keys \cap Players = {}

VARIABLES now,
          sessions,       \* ArcadeSessions.sessions
          keyOwner,       \* ArcadeSessions.keyOwner
          arcadeNonces    \* ArcadeSessions.nonces

arcadeVars == <<sessions, keyOwner, arcadeNonces>>

NoGrant == [key |-> NoKey, expires |-> 0]

ArcadeTypeOK ==
    /\ now \in 0..MaxBlock
    /\ sessions \in [Players -> [key : Keys \cup {NoKey}, expires : 0..(MaxBlock + GrantLife)]]
    /\ keyOwner \in [Keys \cup {NoKey} -> Players \cup {NoPlayer}]
    /\ arcadeNonces \in [Players -> 0..MaxGrants]

ArcadeInit ==
    /\ now = 0
    /\ sessions = [p \in Players |-> NoGrant]
    /\ keyOwner = [k \in Keys \cup {NoKey} |-> NoPlayer]
    /\ arcadeNonces = [p \in Players |-> 0]

\* Mutant: a key may change its owner.
RegisterAnyKey(p, k, expires) ==
    /\ arcadeNonces[p] < MaxGrants
    /\ expires > now /\ expires <= now + GrantLife
    /\ arcadeNonces' = [arcadeNonces EXCEPT ![p] = @ + 1]
    /\ keyOwner' = [keyOwner EXCEPT ![k] = p]
    /\ sessions' = [sessions EXCEPT ![p] = [key |-> k, expires |-> expires]]
    /\ UNCHANGED now

\* register: signed by the owner and by the key, which proves it holds it.
Register(p, k, expires) ==
    /\ arcadeNonces[p] < MaxGrants
    /\ expires > now /\ expires <= now + GrantLife
    /\ keyOwner[k] \in {NoPlayer, p}
    /\ arcadeNonces' = [arcadeNonces EXCEPT ![p] = @ + 1]
    /\ keyOwner' = [keyOwner EXCEPT ![k] = p]
    /\ sessions' = [sessions EXCEPT ![p] = [key |-> k, expires |-> expires]]
    /\ UNCHANGED now

\* revoke: by the owner, or by the key itself; without a grant it only uses up
\* a nonce.
Revoke(p) ==
    /\ arcadeNonces[p] < MaxGrants
    /\ arcadeNonces' = [arcadeNonces EXCEPT ![p] = @ + 1]
    /\ sessions' = [sessions EXCEPT ![p] = NoGrant]
    /\ UNCHANGED <<now, keyOwner>>

ExpiresAt(p, k) ==
    IF k # NoKey /\ sessions[p].key = k /\ sessions[p].expires > now THEN sessions[p].expires ELSE 0

IsSigner(p, signer) == signer = p \/ ExpiresAt(p, signer) # 0

\* Mutant: a revoked or expired grant still plays.
OwnedInput(p, k) == keyOwner[k] \in {NoPlayer, p}

\* validInput: a key that was never registered, or one whose grant still runs.
ValidInput(p, k) == keyOwner[k] = NoPlayer \/ ExpiresAt(p, k) # 0

\* checkJoin: a delegated signer may only authorise itself, and no longer than
\* its own grant.
CheckJoin(p, signer, inputKey, expiry) ==
    /\ IsSigner(p, signer)
    /\ IF signer # p
       THEN inputKey = signer /\ expiry <= ExpiresAt(p, signer)
       ELSE keyOwner[inputKey] # NoPlayer => expiry <= ExpiresAt(p, inputKey)

ArcadeStep ==
    \/ \E p \in Players, k \in Keys, d \in GrantLengths : Register(p, k, now + d)
    \/ \E p \in Players : Revoke(p)
=============================================================================
