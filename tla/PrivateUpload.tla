---------------------------- MODULE PrivateUpload ----------------------------
(***************************************************************************)
(* The encrypted notebook and contacts of one player, saved from several   *)
(* tabs in chunks to a contract (web/components/IndependentPrivate.tsx,    *)
(* web/lib/independent-private.ts, shared/authority-private.ts and         *)
(* PrivateDataStore.sol), every call of it sponsored (sponsorCall and      *)
(* resumeSponsored of web/lib/independent.ts).                             *)
(*                                                                         *)
(* A tab keeps the ciphertext it is saving and the call it last sponsored  *)
(* in sessionStorage: both survive a reload at any point.  What is saved   *)
(* is known by the tab and the edit that made it (ver), and by the upload  *)
(* it was edited from (base); an upload by the owner's nonce as well.      *)
(***************************************************************************)
EXTENDS Naturals, FiniteSets, Sequences

CONSTANTS Tabs, Chunks, MaxEdit, MaxNonce, MaxFault

VARIABLES past,     \* the uploads that became head, in order: the revision is their number
          uploads,  \* uploads opened on the contract
          nonce,    \* the owner's next write nonce
          ops,      \* sponsored calls and their status
          pend,     \* sessionStorage of each tab: the ciphertext being saved
          op,       \* sessionStorage of each tab: the call being sponsored
          tab,      \* the panel of each tab
          edits, faults
vars == <<past, uploads, nonce, ops, pend, op, tab, edits, faults>>
chain == <<past, uploads, nonce>>

NoId == [nonce |-> 0, tab |-> 0, ver |-> 0]
NoCall == [fn |-> "none"]
NoPend == [ver |-> 0]
Locked == [at |-> "locked", ver |-> 0, base |-> NoId, rev |-> 0, conflict |-> FALSE, left |-> {}, then |-> ""]

Init ==
  /\ past = <<>> /\ uploads = {} /\ nonce = 1 /\ ops = {}
  /\ pend = [d \in Tabs |-> NoPend] /\ op = [d \in Tabs |-> NoCall] /\ tab = [d \in Tabs |-> Locked]
  /\ edits = 0 /\ faults = 0

Rev == Len(past)
Current == IF past = <<>> THEN NoId ELSE past[Rev]
Known(id) == \E u \in uploads : u.id = id
Upload(id) == CHOOSE u \in uploads : u.id = id

(***************************************************************************)
(* The contract, called by the sponsor.                                    *)
(***************************************************************************)
MayCommit(u) == u.chunks = Chunks /\ u.expected = Rev

Valid(c) ==
  CASE c.fn = "begin" -> c.expected = Rev /\ c.id.nonce = nonce
    [] c.fn = "put" -> Known(c.id) /\ ~Upload(c.id).committed
    [] OTHER -> Known(c.id) /\ (Upload(c.id).committed \/ MayCommit(Upload(c.id)))

Effect(c) ==
  CASE c.fn = "begin" ->
         /\ uploads' = uploads \cup {[id |-> c.id, base |-> c.base, expected |-> c.expected,
                                      chunks |-> {}, committed |-> FALSE]}
         /\ nonce' = nonce + 1 /\ UNCHANGED past
    [] c.fn = "put" ->
         /\ uploads' = {IF u.id = c.id THEN [u EXCEPT !.chunks = @ \cup {c.chunk}] ELSE u : u \in uploads}
         /\ UNCHANGED <<past, nonce>>
    [] OTHER ->
         /\ uploads' = {IF u.id = c.id THEN [u EXCEPT !.committed = TRUE] ELSE u : u \in uploads}
         /\ past' = IF Upload(c.id).committed THEN past ELSE Append(past, c.id)
         /\ UNCHANGED nonce

Execute(o) ==
  /\ o.status = "queued"
  /\ ops' = (ops \ {o}) \cup {[o EXCEPT !.status = IF Valid(o.call) THEN "confirmed" ELSE "failed"]}
  /\ IF Valid(o.call) THEN Effect(o.call) ELSE UNCHANGED chain
  /\ UNCHANGED <<pend, op, tab, edits, faults>>

(***************************************************************************)
(* sponsorCall.  A call the sponsor knows is answered by its operation.    *)
(***************************************************************************)
OpOf(c) == {o \in ops : o.call = c}
Accepted(c) == IF OpOf(c) = {} THEN ops \cup {[call |-> c, status |-> "queued"]} ELSE ops
Goto(d, rec) == tab' = [tab EXCEPT ![d] = rec]
Failed(d) == Goto(d, [tab[d] EXCEPT !.at = "open", !.left = {}])

\* The call is kept, posted and waited for; a call that is already being
\* sponsored comes first; a call the simulation refuses is forgotten; the
\* answer may be lost, before or after the sponsor took the call.
Sponsor(d, c, rec) ==
  \/ op[d] \notin {NoCall, c} /\ Failed(d) /\ UNCHANGED <<op, ops, faults>>
  \/ /\ op[d] \in {NoCall, c}
     /\ IF OpOf(c) = {} /\ ~Valid(c)
        THEN op' = [op EXCEPT ![d] = NoCall] /\ Failed(d) /\ UNCHANGED ops
        ELSE op' = [op EXCEPT ![d] = c] /\ ops' = Accepted(c) /\ Goto(d, [rec EXCEPT !.at = "wait"])
     /\ UNCHANGED faults
  \/ /\ op[d] \in {NoCall, c} /\ faults < MaxFault /\ faults' = faults + 1
     /\ op' = [op EXCEPT ![d] = c] /\ Failed(d)
     /\ \/ UNCHANGED ops
        \/ (OpOf(c) # {} \/ Valid(c)) /\ ops' = Accepted(c)

Waited(d) ==
  /\ tab[d].at = "wait"
  /\ \E o \in OpOf(op[d]) :
       \/ /\ o.status = "confirmed" /\ op' = [op EXCEPT ![d] = NoCall]
          /\ Goto(d, [tab[d] EXCEPT !.at = tab[d].then])
       \/ o.status = "failed" /\ op' = [op EXCEPT ![d] = NoCall] /\ Failed(d)
  /\ UNCHANGED <<chain, ops, pend, edits, faults>>

\* Forty-five seconds: the action is saved, the panel is free again.
WaitsTooLong(d) ==
  /\ tab[d].at = "wait" /\ \E o \in OpOf(op[d]) : o.status = "queued"
  /\ Failed(d)
  /\ UNCHANGED <<chain, ops, pend, op, edits, faults>>

(***************************************************************************)
(* The panel.                                                              *)
(***************************************************************************)
Edited(d) == [tab[d] EXCEPT !.at = "open", !.left = {}]
Done(d) == pend[d] # NoPend /\ Current = pend[d].id /\ Rev = pend[d].rev + 1

\* unlockIndependentPrivate: an interrupted save of the current revision is
\* resumed, one of an older revision is a conflict.
Opened(d) ==
  IF pend[d] # NoPend /\ ~Done(d) /\ pend[d].rev = Rev
  THEN [Locked EXCEPT !.at = "open", !.ver = pend[d].ver, !.base = pend[d].base, !.rev = Rev]
  ELSE [Locked EXCEPT !.at = "open", !.base = Current, !.rev = Rev, !.conflict = pend[d] # NoPend /\ ~Done(d)]

Unlock(d) ==
  /\ tab[d].at \in {"locked", "open"} /\ tab[d] # Opened(d)
  /\ Goto(d, Opened(d))
  /\ pend' = IF Done(d) THEN [pend EXCEPT ![d] = NoPend] ELSE pend
  /\ UNCHANGED <<chain, ops, op, edits, faults>>

Edit(d) ==
  /\ tab[d].at = "open" /\ edits < MaxEdit
  /\ edits' = edits + 1 /\ Goto(d, [tab[d] EXCEPT !.ver = edits + 1])
  /\ UNCHANGED <<chain, ops, pend, op, faults>>

Discard(d) ==
  /\ tab[d].at = "open" /\ tab[d].conflict
  /\ pend' = [pend EXCEPT ![d] = NoPend] /\ Goto(d, [tab[d] EXCEPT !.conflict = FALSE])
  /\ UNCHANGED <<chain, ops, op, edits, faults>>

\* A reload at any point of a save, or Lock: a save under way then ends unseen.
Reload(d) ==
  /\ tab[d].at # "locked" /\ Goto(d, Locked)
  /\ UNCHANGED <<chain, ops, pend, op, edits, faults>>

\* saveIndependentPrivate: an earlier call is waited for first.
Save(d) ==
  /\ tab[d].at = "open" /\ ~tab[d].conflict /\ tab[d].ver # 0
  /\ IF op[d] = NoCall
     THEN Goto(d, [tab[d] EXCEPT !.at = "prepare"]) /\ UNCHANGED <<op, ops, faults>>
     ELSE Sponsor(d, op[d], [tab[d] EXCEPT !.then = "prepare"])
  /\ UNCHANGED <<chain, pend, edits>>

\* The ciphertext is kept before anything is sent; an interrupted one has to be
\* the same edit of the same revision, and may turn out to be saved already.
Prepare(d) ==
  /\ tab[d].at = "prepare"
  /\ \/ /\ pend[d] = NoPend
        /\ pend' = [pend EXCEPT ![d] = [ver |-> tab[d].ver, base |-> tab[d].base, rev |-> tab[d].rev, id |-> NoId]]
        /\ Goto(d, [tab[d] EXCEPT !.at = "check"])
     \/ /\ pend[d] # NoPend /\ pend[d].ver = tab[d].ver /\ Done(d)
        /\ pend' = [pend EXCEPT ![d] = NoPend]
        /\ Goto(d, [Edited(d) EXCEPT !.rev = Rev, !.base = Current])
     \/ /\ pend[d] # NoPend /\ ~(pend[d].ver = tab[d].ver /\ Done(d))
        /\ UNCHANGED pend
        /\ IF pend[d].ver = tab[d].ver /\ pend[d].rev = tab[d].rev
           THEN Goto(d, [tab[d] EXCEPT !.at = "check"]) ELSE Failed(d)
  /\ UNCHANGED <<chain, ops, op, edits, faults>>

Saved(d) ==
  /\ pend' = [pend EXCEPT ![d] = NoPend]
  /\ Goto(d, [Edited(d) EXCEPT !.rev = tab[d].rev + 1, !.base = pend[d].id])

\* saveEncryptedChunks up to begin: an upload that never opened is begun again.
Check(d) ==
  /\ tab[d].at = "check"
  /\ LET id == pend[d].id
     IN  \/ /\ Rev = tab[d].rev + 1 /\ Known(id) /\ Current = id /\ Saved(d)
         \/ /\ ~(Rev = tab[d].rev + 1 /\ Known(id) /\ Current = id)
            /\ IF Rev # tab[d].rev THEN Failed(d)
               ELSE IF Known(id) THEN Goto(d, [tab[d] EXCEPT !.at = "put", !.left = Chunks \ Upload(id).chunks])
               ELSE Goto(d, [tab[d] EXCEPT !.at = "begin"])
            /\ UNCHANGED pend
  /\ UNCHANGED <<chain, ops, op, edits, faults>>

\* The owner signs with the nonce it reads; the id is kept before the call.
Begin(d) ==
  /\ tab[d].at = "begin" /\ nonce < MaxNonce
  /\ LET id == [nonce |-> nonce, tab |-> d, ver |-> pend[d].ver]
     IN  /\ pend' = [pend EXCEPT ![d].id = id]
         /\ Sponsor(d, [fn |-> "begin", id |-> id, base |-> pend[d].base, expected |-> tab[d].rev],
                    [tab[d] EXCEPT !.then = "put", !.left = Chunks])
  /\ UNCHANGED <<chain, edits>>

Put(d) ==
  /\ tab[d].at = "put" /\ pend[d] # NoPend
  /\ IF tab[d].left = {}
     THEN Goto(d, [tab[d] EXCEPT !.at = "recheck"]) /\ UNCHANGED <<op, ops, faults>>
     ELSE LET i == CHOOSE i \in tab[d].left : \A j \in tab[d].left : i <= j
          IN  Sponsor(d, [fn |-> "put", id |-> pend[d].id, chunk |-> i],
                      [tab[d] EXCEPT !.then = "put", !.left = @ \ {i}])
  /\ UNCHANGED <<chain, pend, edits>>

Recheck(d) ==
  /\ tab[d].at = "recheck"
  /\ IF Rev # tab[d].rev THEN Failed(d) ELSE Goto(d, [tab[d] EXCEPT !.at = "commit"])
  /\ UNCHANGED <<chain, ops, pend, op, edits, faults>>

Commit(d) ==
  /\ tab[d].at = "commit"
  /\ Sponsor(d, [fn |-> "commit", id |-> pend[d].id], [tab[d] EXCEPT !.then = "saved"])
  /\ UNCHANGED <<chain, pend, edits>>

Finish(d) ==
  /\ tab[d].at = "saved" /\ Saved(d)
  /\ UNCHANGED <<chain, ops, op, edits, faults>>

Working(d) == Waited(d) \/ Prepare(d) \/ Check(d) \/ Begin(d) \/ Put(d) \/ Recheck(d) \/ Commit(d) \/ Finish(d)
Next ==
  \/ \E o \in ops : Execute(o)
  \/ \E d \in Tabs : Working(d) \/ WaitsTooLong(d) \/ Unlock(d) \/ Edit(d) \/ Discard(d) \/ Reload(d) \/ Save(d)
Spec == Init /\ [][Next]_vars

(***************************************************************************)
(* Properties.                                                             *)
(***************************************************************************)
\* No saved copy is lost to another tab: what becomes the saved copy was edited
\* from the copy it replaces, however saves are interrupted and resumed.
NoLostUpdate ==
  \A k \in 1..Len(past) :
    Upload(past[k]).base = (IF k = 1 THEN NoId ELSE past[k - 1])

\* A panel that says it is at the saved revision holds what was saved or an
\* edit of it.
PanelsKnowTheirBase ==
  \A d \in Tabs : tab[d].at = "open" /\ tab[d].rev = Rev => tab[d].base = Current
=============================================================================
