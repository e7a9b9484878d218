---------------------------- MODULE TabletAccess ----------------------------
(***************************************************************************)
(* Tablets that enroll, open sessions, rotate them and send their journal, *)
(* against the registry of the server.                                     *)
(*                                                                         *)
(* The native service (native/android/ApiTabletAuthService.kt) does one    *)
(* operation at a time under its lock and writes its vault before each     *)
(* request it must be able to repeat.  A request may arrive after the      *)
(* tablet gave up on it, an answer may be lost, the process may stop.  A   *)
(* manager approves, rejects and revokes; a second tablet may be given a   *)
(* backup of the journal of the first and take its place.                  *)
(***************************************************************************)
EXTENDS TabletRegistry

CONSTANTS MaxJournal,   \* entries of a tablet's journal
          MaxRequests,  \* enrollment requests the tablets prepare
          MaxDecisions, \* manager operations prepared on the tablets
          MaxCodes,     \* invitations of a request
          MaxCalls,     \* tablets in an operation at the same time
          MaxRotations, \* expiries of an access token, per session
          MaxLate,      \* abandoned requests still under way, per tablet
          MaxTrouble    \* answers lost, windows outlived, wrong codes, revocations, second copies sold

VARIABLES reg,      \* the server's registry
          vault,    \* what each tablet keeps on its own storage
          call,     \* the operation each native service is in
          late,     \* the requests given up that may still arrive
          journal,  \* the sealed events of each tablet
          trouble   \* how much has gone wrong so far

vars == <<reg, vault, call, late, journal, trouble>>

NoSession == [sid |-> 0, k |-> 0, fresh |-> FALSE]
NoRotation == [id |-> 0, k |-> 0, late |-> FALSE]
NoCode == 0
WrongCode == -1
NoOperation == [path |-> "none", req |-> 0, replaces |-> NoInst, op |-> <<>>]
NewVault ==
  [status |-> "not_enrolled", enroll |-> 0, dossier |-> <<>>, restored |-> FALSE,
   req |-> 0, act |-> NoCode, sess |-> NoSession, rot |-> NoRotation,
   manager |-> NoOperation, ops |-> 0, holds |-> FALSE]

NoMessage == [action |-> "none"]
NoAnswer == [code |-> "none"]
Idle == [kind |-> "none", stage |-> "none", retried |-> FALSE,
         msg |-> NoMessage, ans |-> NoAnswer]

\* One tablet holds the chain; the others are empty until a backup is restored.
Init ==
  /\ reg = EmptyRegistry
  /\ \E i \in Inst : vault = [j \in Inst |-> [NewVault EXCEPT !.holds = (j = i)]]
  /\ call = [i \in Inst |-> Idle]
  /\ late = [i \in Inst |-> {}]
  /\ journal = [i \in Inst |-> <<>>]
  /\ trouble = 0

Trouble == trouble < MaxTrouble /\ trouble' = trouble + 1

(***************************************************************************)
(* What the tablet shows and stores.                                       *)
(***************************************************************************)
PublicStatus(v) ==
  IF v.status # "authorized" THEN v.status
  ELSE IF v.restored \/ v.sess = NoSession THEN "needs_recovery"
  ELSE IF ~v.sess.fresh THEN "session_expired" ELSE "authorized"

Reconnectable ==
  {"rejected", "revoked", "session_expired", "attempts_exceeded",
   "invitation_expired", "authorization_denied"}

\* The state a refusal of the server stands for.
Translated(code) ==
  CASE code = "AUTH_REQUIRED" -> "session_expired"
    [] code = "ACCESS_REVOKED" -> "revoked"
    [] code \in {"REFRESH_REPLAY", "PROOF_REQUIRED"} -> "authorization_denied"
    [] code = "ENROLLMENT_EXPIRED" -> "invitation_expired"
    [] code = "ATTEMPTS_EXCEEDED" -> "attempts_exceeded"
    [] code = "INVITATION_INVALID" -> "invitation_invalid"
    [] code = "REPLACEMENT_CONFLICT" -> "replacement_conflict"
    [] code = "SEQUENCE_FORK" -> "sync_failure"
    [] OTHER -> "needs_recovery"

\* Some failures are kept, the others only shown.
Failed(v, state) ==
  IF state \in Reconnectable \cup {"needs_recovery"}
  THEN [v EXCEPT !.status = state] ELSE v

(***************************************************************************)
(* Signed requests: a challenge first, then the message.                   *)
(***************************************************************************)
Asked(r, i, kind, stage, retried, m) ==
  LET code == Challenge(r, i, m) IN
  [kind |-> kind, stage |-> stage, retried |-> retried,
   msg |-> IF code = "OK" THEN m ELSE NoMessage,
   ans |-> IF code = "OK" THEN NoAnswer ELSE [code |-> code]]
Sent(i, kind, stage, retried, m) == Asked(reg, i, kind, stage, retried, m)

EnrollMessage(v) ==
  [action |-> "request", op |-> v.enroll, dossier |-> v.dossier, restored |-> v.restored]
CodeMessage(v) ==
  [action |-> "activate", req |-> v.req, code |-> v.act]
RefreshMessage(v) ==
  [action |-> "refresh", sid |-> v.sess.sid, k |-> v.rot.k, rid |-> v.rot.id]
MainMessage(i, v, kind) ==
  [action |-> kind, sid |-> v.sess.sid,
   dossier |-> IF kind = "sync" THEN journal[i] ELSE <<>>]

\* The rotation in the vault, prepared before it is sent the first time.
Prepared(v) ==
  IF v.rot # NoRotation THEN v
  ELSE [v EXCEPT !.rot = [id |-> v.sess.k + 1, k |-> v.sess.k, late |-> FALSE]]

\* An operation of a session: its access token renewed first when it must be.
StartOrRenew(i, r, v, kind, retried) ==
  IF v.sess = NoSession
  THEN /\ vault' = [vault EXCEPT ![i] = Failed(v, "session_expired")]
       /\ call' = [call EXCEPT ![i] = Idle]
  ELSE IF v.sess.fresh /\ v.rot = NoRotation
  THEN /\ vault' = [vault EXCEPT ![i] = v]
       /\ call' = [call EXCEPT ![i] =
                     Asked(r, i, kind, "main", retried, MainMessage(i, v, kind))]
  ELSE LET p == Prepared(v) IN
       IF p.rot.late
       THEN /\ vault' = [vault EXCEPT ![i] = Failed(p, "session_expired")]
            /\ call' = [call EXCEPT ![i] = Idle]
       ELSE /\ vault' = [vault EXCEPT ![i] = p]
            /\ call' = [call EXCEPT ![i] =
                          Asked(r, i, kind, "refresh", retried, RefreshMessage(p))]

Prepares(i, w) ==
  w.ops = vault[i].ops \/ SumFunction([j \in Inst |-> vault[j].ops]) < MaxDecisions

Free(i) ==
  /\ call[i] = Idle /\ vault[i].holds
  /\ Cardinality({j \in Inst : call[j] # Idle}) < MaxCalls

(***************************************************************************)
(* Enrollment, from the settings of the tablet.                            *)
(***************************************************************************)
\* The request prepared in the vault, then sent; sent again as it is until it
\* is answered.
RequestEnrollment(i, reconnect) ==
  LET v == vault[i]
      new == reconnect \/ v.enroll = 0
      v1 == IF ~new THEN v
            ELSE [v EXCEPT !.enroll = @ + 1, !.dossier = journal[i], !.status = "pending",
                           !.req = 0, !.sess = NoSession, !.rot = NoRotation, !.act = NoCode]
  IN
  /\ new => SumFunction([j \in Inst |-> vault[j].enroll]) < MaxRequests
  /\ reconnect => PublicStatus(v) \in Reconnectable
  /\ reconnect \/ v.sess = NoSession
  /\ vault' = [vault EXCEPT ![i] = v1]
  /\ call' = [call EXCEPT ![i] = Sent(i, "enroll", "main", FALSE, EnrollMessage(v1))]

AskEnrollment(i) ==
  /\ Free(i)
  /\ RequestEnrollment(i, PublicStatus(vault[i]) \in Reconnectable)
  /\ UNCHANGED <<reg, late, journal, trouble>>

\* The activation is in the vault before it is sent; a different code is a
\* different operation.
WithCode(v, code) == [v EXCEPT !.act = code]

Activating(i, v, code) ==
  LET w == WithCode(v, code) IN
  /\ vault' = [vault EXCEPT ![i] = w]
  /\ call' = [call EXCEPT ![i] = Sent(i, "activate", "main", FALSE, CodeMessage(w))]

\* A code given by a manager elsewhere, well or badly copied.
EnterCode(i) ==
  /\ Free(i) /\ vault[i].req # 0
  /\ vault[i].status \in {"pending", "invitation_expired"}
  /\ reg.req[i].code # 0
  /\ \E code \in {WrongCode, reg.req[i].code} :
       /\ IF code = WrongCode THEN vault[i].act \in {NoCode, WrongCode} /\ Trouble
          ELSE UNCHANGED trouble
       /\ Activating(i, vault[i], code)
  /\ UNCHANGED <<reg, late, journal>>

(***************************************************************************)
(* The manager.  An operation prepared on a tablet is repeated under its   *)
(* first number until another one is prepared.                             *)
(***************************************************************************)
WithOperation(v, path, req, replaces) ==
  IF v.manager.path = path /\ v.manager.req = req /\ v.manager.replaces = replaces
  THEN v
  ELSE [v EXCEPT !.manager = [path |-> path, req |-> req, replaces |-> replaces,
                              op |-> <<"here", v.ops + 1, 0>>],
                 !.ops = @ + 1]

\* Approved on the tablet, after its dossier was examined: the invitation is
\* used at once.
Approve(i, replaces) ==
  LET w == WithOperation(vault[i], "approve", vault[i].req, replaces)
      done == Decide(reg, i, [req |-> w.req, op |-> w.manager.op, approve |-> TRUE,
                              replaces |-> replaces])
  IN
  /\ Free(i) /\ vault[i].req # 0 /\ Prepares(i, w)
  /\ w.ops = vault[i].ops \/ reg.req[i].code < MaxCodes
  /\ PublicStatus(vault[i]) \notin Reconnectable \cup {"authorized"}
  /\ reg' = done.reg
  /\ \/ done.ans.code = "OK" /\ vault' = [vault EXCEPT ![i] = WithCode(w, done.ans.invitation)]
        /\ call' = [call EXCEPT ![i] =
                      Asked(done.reg, i, "activate", "main", FALSE,
                            CodeMessage(WithCode(w, done.ans.invitation)))]
     \/ done.ans.code = "INVITATION_UNAVAILABLE"
        /\ vault' = [vault EXCEPT ![i] = [w EXCEPT !.manager = NoOperation]]
        /\ UNCHANGED call
     \/ vault' = [vault EXCEPT ![i] = w] /\ UNCHANGED call
  /\ Trouble /\ UNCHANGED <<late, journal>>

\* Rejected on the tablet: the form asks for the same examination.
Reject(i) ==
  LET w == WithOperation(vault[i], "reject", vault[i].req, NoInst)
      done == Decide(reg, i, [req |-> w.req, op |-> w.manager.op, approve |-> FALSE,
                              replaces |-> NoInst])
  IN
  /\ Free(i) /\ vault[i].req # 0 /\ Prepares(i, w)
  /\ PublicStatus(vault[i]) \notin Reconnectable \cup {"authorized"}
  /\ reg' = done.reg
  /\ \/ /\ done.ans.code = "OK"
        /\ vault' = [vault EXCEPT ![i] = [w EXCEPT !.status = "rejected"]]
     \/ vault' = [vault EXCEPT ![i] = w]
  /\ Trouble /\ UNCHANGED <<call, late, journal>>

\* Decided elsewhere: the code reaches the tablet by another way.
ApproveElsewhere(i, replaces) ==
  LET d == [req |-> reg.req[i].id, op |-> <<"elsewhere", reg.req[i].id, reg.req[i].code>>,
            approve |-> TRUE, replaces |-> replaces]
  IN
  /\ reg.req[i].status \in {"pending", "approved"}
  /\ reg.req[i].code < MaxCodes
  /\ Decide(reg, i, d).ans.code = "OK"
  /\ reg' = Decide(reg, i, d).reg
  /\ UNCHANGED <<vault, call, late, journal, trouble>>

RevokeHere(i) ==
  LET w == WithOperation(vault[i], "revoke", 0, NoInst)
      done == Revoke(reg, i, w.manager.op)
  IN
  /\ Free(i) /\ vault[i].enroll # 0 /\ Prepares(i, w)
  /\ reg' = done.reg
  /\ \/ done.ans.code = "OK" /\ vault' = [vault EXCEPT ![i] = [w EXCEPT !.status = "revoked"]]
     \/ vault' = [vault EXCEPT ![i] = w]
  /\ Trouble /\ UNCHANGED <<call, late, journal>>

RevokeElsewhere(i) ==
  /\ reg.inst[i].active
  /\ reg' = Revoke(reg, i, <<"elsewhere", 0, reg.inst[i].gen>>).reg
  /\ Trouble /\ UNCHANGED <<vault, call, late, journal>>

(***************************************************************************)
(* The operations of an enrolled tablet.                                   *)
(***************************************************************************)
\* "Verify": an activation or a request without an answer is taken up again.
Verify(i) ==
  LET v == vault[i] IN
  /\ Free(i) /\ v.enroll # 0
  /\ IF v.sess = NoSession /\ v.act # NoCode THEN Activating(i, v, v.act)
     ELSE IF v.sess = NoSession /\ v.req = 0 THEN RequestEnrollment(i, FALSE)
     ELSE IF v.sess = NoSession
     THEN /\ call' = [call EXCEPT ![i] =
                Sent(i, "pending", "main", FALSE, [action |-> "pending", req |-> v.req])]
          /\ UNCHANGED vault
     ELSE StartOrRenew(i, reg, v, "status", FALSE)
  /\ UNCHANGED <<reg, late, journal, trouble>>

SendSync(i) ==
  /\ Free(i) /\ PublicStatus(vault[i]) \in {"authorized", "session_expired"}
  /\ StartOrRenew(i, reg, vault[i], "sync", FALSE)
  /\ UNCHANGED <<reg, late, journal, trouble>>

\* What the tablet does of an answer.
Remember(v, kind, a) ==
  IF kind = "enroll"
  THEN [v EXCEPT !.req = a.id,
                 !.status = IF a.status = "rejected" THEN "rejected" ELSE "pending"]
  ELSE IF kind = "activate"
  THEN [v EXCEPT !.sess = [sid |-> a.sid, k |-> a.k, fresh |-> TRUE], !.act = NoCode,
                 !.status = a.status, !.restored = @ /\ a.status # "authorized"]
  ELSE IF kind = "sync" THEN v
  ELSE [v EXCEPT !.status = a.status]

Renewed(v, a) ==
  [v EXCEPT !.sess = [sid |-> a.sid, k |-> a.k, fresh |-> TRUE], !.rot = NoRotation,
            !.status = "authorized"]

\* The end of a step of the operation under way, in the registry r.
Answered(i, r, a) ==
  LET c == call[i] v == vault[i]
      done(w) == vault' = [vault EXCEPT ![i] = w] /\ call' = [call EXCEPT ![i] = Idle]
  IN
  IF a.code = "OK" /\ c.stage = "refresh"
  THEN StartOrRenew(i, r, Renewed(v, a), c.kind, c.retried)
  ELSE IF a.code = "OK" /\ c.stage = "main" THEN done(Remember(v, c.kind, a))
  ELSE IF a.code = "AUTH_REQUIRED" /\ c.kind = "sync" /\ ~c.retried
  THEN StartOrRenew(i, r, [v EXCEPT !.sess.fresh = FALSE], "sync", TRUE)
  ELSE done(Failed(v, Translated(a.code)))

\* No challenge was given.
Refused(i) ==
  /\ call[i].ans # NoAnswer
  /\ Answered(i, reg, call[i].ans)
  /\ UNCHANGED <<reg, late, journal, trouble>>

(***************************************************************************)
(* The network and the process.                                            *)
(***************************************************************************)
\* Served, and the answer read or lost.
Serve(i) ==
  LET h == Handle(reg, i, call[i].msg) IN
  /\ call[i].msg # NoMessage
  /\ reg' = h.reg
  /\ \/ Answered(i, h.reg, h.ans) /\ UNCHANGED trouble
     \/ call' = [call EXCEPT ![i] = Idle] /\ UNCHANGED vault /\ Trouble
  /\ UNCHANGED <<late, journal>>

\* The connection times out or the process stops: the request may arrive later.
Abandon(i) ==
  /\ call[i] # Idle
  /\ call' = [call EXCEPT ![i] = Idle]
  /\ \/ UNCHANGED late
     \/ /\ call[i].msg # NoMessage
        /\ \A j \in Inst : Cardinality(late[j]) < MaxLate
        /\ late' = [late EXCEPT ![i] = @ \cup {call[i].msg}]
  /\ Trouble /\ UNCHANGED <<reg, vault, journal>>

\* A late request arrives: its challenge must still be live, or it never does.
ServeLate(i) ==
  \E m \in late[i] :
    /\ late' = [late EXCEPT ![i] = @ \ {m}]
    /\ reg' = Handle(reg, i, m).reg
    /\ UNCHANGED <<vault, call, journal, trouble>>

(***************************************************************************)
(* Time: an access token near its end; the minute of a rotation on the     *)
(* tablet, then on the server, which started counting later; the minute of *)
(* a sealed activation; the ten minutes of an invitation; the day of a     *)
(* request.                                                                *)
(***************************************************************************)
AccessExpires(i) ==
  /\ call[i] = Idle /\ vault[i].sess.fresh /\ vault[i].sess.k < MaxRotations
  /\ vault' = [vault EXCEPT ![i].sess.fresh = FALSE]
  /\ UNCHANGED <<reg, call, late, journal, trouble>>

Outlived ==
  \E i \in Inst :
    \/ /\ vault[i].rot # NoRotation /\ ~vault[i].rot.late
       /\ vault' = [vault EXCEPT ![i].rot.late = TRUE]
       /\ UNCHANGED reg
    \/ \E s \in DOMAIN reg.sess : \E k \in DOMAIN reg.sess[s].rots :
         /\ reg.sess[s].inst = i /\ ~reg.sess[s].rots[k].dead
         /\ vault[i].sess.sid = s /\ vault[i].rot.k = k - 1 /\ vault[i].rot # NoRotation
              => vault[i].rot.late
         /\ reg' = [reg EXCEPT !.sess[s].rots[k].dead = TRUE]
         /\ UNCHANGED vault
    \/ /\ \/ /\ reg.req[i].status = "activated" /\ ~reg.req[i].sealDead
             /\ reg' = [reg EXCEPT !.req[i].sealDead = TRUE]
          \/ /\ reg.req[i].status = "approved" /\ ~reg.req[i].codeDead
             /\ reg' = [reg EXCEPT !.req[i].codeDead = TRUE]
          \/ /\ reg.req[i].status \in {"pending", "approved"} /\ ~reg.req[i].dead
             /\ reg' = [reg EXCEPT !.req[i].dead = TRUE]
       /\ UNCHANGED vault

Elapse ==
  /\ Trouble /\ Outlived
  /\ UNCHANGED <<call, late, journal>>

(***************************************************************************)
(* The journals: a sale, a backup restored on an empty tablet, and then    *)
(* sales on two copies of one chain.                                       *)
(***************************************************************************)
Sell(i) ==
  /\ call[i] = Idle /\ vault[i].holds /\ Len(journal[i]) < MaxJournal
  /\ journal' = [journal EXCEPT ![i] = Append(@, i)]
  /\ IF \E j \in Inst : j # i /\ vault[j].holds THEN Trouble ELSE UNCHANGED trouble
  /\ UNCHANGED <<reg, vault, call, late>>

Restore(i, j) ==
  /\ vault[i].holds /\ ~vault[j].holds
  /\ \E n \in 0 .. Len(journal[i]) :
       journal' = [journal EXCEPT ![j] = SubSeq(journal[i], 1, n)]
  /\ vault' = [vault EXCEPT ![j] = [NewVault EXCEPT !.holds = TRUE, !.restored = TRUE]]
  /\ UNCHANGED <<reg, call, late, trouble>>

Tablet(i) == AskEnrollment(i) \/ EnterCode(i) \/ Verify(i) \/ SendSync(i) \/ Refused(i)
Manager(i) ==
  \/ \E j \in Inst \cup {NoInst} : Approve(i, j) \/ ApproveElsewhere(i, j)
  \/ Reject(i) \/ RevokeHere(i) \/ RevokeElsewhere(i)
World(i) == Serve(i) \/ Abandon(i) \/ ServeLate(i) \/ AccessExpires(i) \/ Sell(i)

Next ==
  \/ \E i \in Inst : Tablet(i) \/ Manager(i) \/ World(i)
  \/ \E i, j \in Inst : Restore(i, j)
  \/ Elapse

Spec == Init /\ [][Next]_vars

-----------------------------------------------------------------------------
\* Types, and the bounds of what is counted.
TypeOK ==
  /\ reg.gen \in 0 .. Len(reg.sess) + 1
  /\ \A i \in Inst :
       /\ reg.req[i].attempts \in 0 .. MaxAttempts
       /\ reg.inst[i].gen \in 0 .. reg.gen
       /\ reg.inst[i].auth \in {"none", "authorized", "needs_recovery", "revoked"}
       /\ vault[i].sess.sid \in 0 .. Len(reg.sess)
       /\ journal[i] \in Seq(Inst)

\* One installation at a time may write the chain, and only with a session of
\* the chain's present generation: whatever the order of approvals,
\* activations and revocations (service.ts 722-909 and 1045-1127).
OneUploader ==
  /\ \A i, j \in Inst : reg.inst[i].active /\ reg.inst[j].active => i = j
  /\ \A s \in DOMAIN reg.sess :
       reg.sess[s].active =>
         /\ reg.inst[reg.sess[s].inst].active
         /\ reg.sess[s].gen = reg.inst[reg.sess[s].inst].gen
         /\ reg.sess[s].gen = reg.gen

\* A tablet that follows the protocol never ends its own session: lost
\* answers, repeated and delayed rotations are never taken for a stolen token,
\* so an active installation always has its one session; and the refresh token
\* in the vault is the server's, or was used up by the very rotation the vault
\* holds, whose answer the server still has while the tablet may ask for it.
SessionSurvives ==
  \A i \in Inst :
    LET v == vault[i] IN
    /\ reg.inst[i].active => Cardinality(LiveSessions(reg, i)) = 1
    /\ v.sess # NoSession /\ reg.sess[v.sess.sid].active =>
         LET rots == reg.sess[v.sess.sid].rots n == Len(rots) IN
         \/ v.sess.k = n
         \/ /\ v.sess.k = n - 1 /\ v.rot # NoRotation
            /\ v.rot.k = v.sess.k /\ v.rot.id = rots[n].id
            /\ rots[n].dead => v.rot.late

\* What the server has of the chain is always the beginning of the journal of
\* the installation it authorizes, forks and old backups included: an
\* authorized tablet is never refused for a fork.
AuthorizedContinues ==
  \A i \in Inst :
    reg.inst[i].active /\ reg.inst[i].auth = "authorized" =>
      IsPrefix(reg.ledger, journal[i])
=============================================================================
