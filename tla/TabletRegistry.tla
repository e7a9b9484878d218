--------------------------- MODULE TabletRegistry ---------------------------
(***************************************************************************)
(* The server's registry of one sales chain: who may write it, with which  *)
(* session, and what an enrollment request has become                      *)
(* (server/src/tablet-auth/service.ts and guards.ts).  Each handler is an  *)
(* operator from the registry and a message to the registry its            *)
(* transaction commits and the answer it gives: a handler is one           *)
(* transaction.  The scope and the manager's grant are live throughout.    *)
(* An installation's key never changes, so a proof always verifies; what a *)
(* proof is bound to (a request, a session) is kept.                       *)
(***************************************************************************)
EXTENDS Integers, FiniteSets, SequencesExt

CONSTANTS Inst,         \* the installations that may hold a copy of the chain
          NoInst,       \* no installation
          MaxAttempts   \* wrong codes an invitation survives (5 in the code)

ASSUME RegistryAssumption == NoInst \notin Inst /\ MaxAttempts \in Nat \ {0}

NoRequest ==
  [id |-> 0, op |-> 0, dossier |-> <<>>, restored |-> FALSE, status |-> "none",
   dead |-> FALSE, decided |-> <<>>, pinnedGen |-> 0, pinnedInst |-> NoInst,
   code |-> 0, codeDead |-> FALSE, attempts |-> 0, sid |-> 0,
   sealDead |-> FALSE]

NoInstallation == [gen |-> 0, active |-> FALSE, auth |-> "none"]

\* gen = 0: the chain is unknown to the server.
EmptyRegistry ==
  [gen |-> 0, ledger |-> <<>>, sess |-> <<>>, audits |-> {},
   inst |-> [i \in Inst |-> NoInstallation], req |-> [i \in Inst |-> NoRequest]]

OK(r, answer) ==
  [reg |-> r,
   ans |-> [f \in DOMAIN answer \cup {"code"} |-> IF f = "code" THEN "OK" ELSE answer[f]]]
Refuse(r, why) == [reg |-> r, ans |-> [code |-> why]]

ActiveInst(r) ==
  IF \E i \in Inst : r.inst[i].active
  THEN CHOOSE i \in Inst : r.inst[i].active ELSE NoInst

\* What a manager has done is written down once, by its operation.
Audited(r, known) == [r EXCEPT !.audits = @ \cup {known}]

Spent(q) == q.attempts >= MaxAttempts

\* A request that still stands in the way of another one of its installation.
Alive(q) ==
  /\ q.status \in {"pending", "approved"} /\ ~q.dead
  /\ ~(q.status = "approved" /\ (q.codeDead \/ Spent(q)))

(***************************************************************************)
(* Challenges: what the server requires before it hands out a nonce.       *)
(***************************************************************************)
LiveSessions(r, i) ==
  {s \in DOMAIN r.sess : r.sess[s].inst = i /\ r.sess[s].active
                         /\ r.sess[s].gen = r.inst[i].gen}

Challenge(r, i, m) ==
  IF m.action = "request" THEN "OK"
  ELSE IF m.action \in {"activate", "pending"}
  THEN IF r.req[i].id = m.req THEN "OK" ELSE "PROOF_REQUIRED"
  ELSE IF ~r.inst[i].active THEN "ACCESS_REVOKED"
  ELSE IF \E s \in DOMAIN r.sess : LiveSessions(r, i) = {s} THEN "OK" ELSE "AUTH_REQUIRED"

\* What the claims of a session are worth now; recover: an installation whose
\* journal does not continue the server's may pass.
TabletGuard(r, i, sid, recover) ==
  LET s == r.sess[sid] n == r.inst[i] IN
  IF \/ ~n.active \/ n.gen # s.gen
     \/ ~recover /\ n.auth # "authorized"
  THEN "ACCESS_REVOKED"
  ELSE IF ~s.active THEN "AUTH_REQUIRED"
  ELSE IF r.gen # s.gen THEN "ACCESS_REVOKED" ELSE "OK"

(***************************************************************************)
(* Enrollment: the request of a tablet, the decision of a manager, the     *)
(* activation.                                                             *)
(***************************************************************************)
Request(r, i, m) ==
  LET q == r.req[i] IN
  IF q.status # "none" /\ q.op = m.op
  THEN IF q.dead THEN Refuse(r, "ENROLLMENT_EXPIRED")
       ELSE OK(r, [id |-> q.id, status |-> q.status])
  ELSE IF Alive(q) THEN Refuse(r, "CONFLICT")
  ELSE OK([r EXCEPT !.req[i] =
             [NoRequest EXCEPT !.id = q.id + 1, !.op = m.op, !.status = "pending",
                               !.dossier = m.dossier, !.restored = m.restored]],
          [id |-> q.id + 1, status |-> "pending"])

\* d: [req, op, approve, replaces].  A renewed approval is a new invitation
\* and a new pin; an invitation is never given twice.
Decide(r, i, d) ==
  LET q == r.req[i]
      known == [who |-> i, op |-> d.op]
      active == ActiveInst(r)
      wrongReplacement ==
        \/ active \notin {NoInst, i, d.replaces}
        \/ d.replaces # NoInst /\ active # d.replaces
      gen == IF r.gen = 0 /\ d.approve THEN 1 ELSE r.gen
  IN
  IF q.id # d.req \/ q.status = "none" THEN Refuse(r, "NOT_FOUND")
  ELSE IF q.dead THEN Refuse(r, "ENROLLMENT_EXPIRED")
  ELSE IF known \in r.audits
  THEN IF q.decided # d.op THEN Refuse(r, "RECOVERY_REQUIRED")
       ELSE IF q.status = "rejected" THEN OK(r, [status |-> "rejected"])
       ELSE Refuse(r, "INVITATION_UNAVAILABLE")
  ELSE IF q.status \in {"activated", "rejected"} THEN Refuse(r, "CONFLICT")
  ELSE IF d.approve /\ q.restored /\ r.gen = 0 THEN Refuse(r, "RECOVERY_REQUIRED")
  ELSE IF d.approve /\ wrongReplacement THEN Refuse(r, "REPLACEMENT_CONFLICT")
  ELSE OK([Audited(r, known) EXCEPT
             !.gen = gen,
             !.req[i] = IF d.approve
                        THEN [q EXCEPT !.status = "approved", !.decided = d.op,
                                       !.pinnedGen = gen, !.pinnedInst = active,
                                       !.code = q.code + 1, !.codeDead = FALSE, !.attempts = 0]
                        ELSE [q EXCEPT !.status = "rejected", !.decided = d.op]],
          [status |-> "decided", invitation |-> q.code + 1])

\* mistake: only the lengths of the journals are compared
LengthContinues(ledger, dossier) == Len(ledger) <= Len(dossier)
\* The journal the server has is the beginning of the dossier's.
CheckContinuity(ledger, dossier) == IsPrefix(ledger, dossier)

\* mistake: the sessions of the replaced installation are left alone
OnlyInstallationRetired(r, i) ==
  [r EXCEPT !.inst[i].active = FALSE, !.inst[i].auth = "revoked"]
\* An installation leaves the chain with every session it has.
Retire(r, i) ==
  [r EXCEPT !.inst[i].active = FALSE, !.inst[i].auth = "revoked",
            !.sess = [s \in DOMAIN @ |->
                        IF @[s].inst = i THEN [@[s] EXCEPT !.active = FALSE] ELSE @[s]]]

\* The session of an installation, with the refresh token that has not rotated.
NewSession(i, gen) == [inst |-> i, gen |-> gen, active |-> TRUE, rots |-> <<>>]

\* Under the pinned generation and installation: the old installation retired,
\* the new one with its session; the generation moves on when anyone was
\* enrolled here before.
Enroll(r, i) ==
  LET q == r.req[i]
      active == ActiveInst(r)
      ready == CheckContinuity(r.ledger, q.dossier)
      gen == IF active # NoInst \/ r.inst[i].gen # 0 THEN r.gen + 1 ELSE r.gen
      old == IF active = NoInst THEN r ELSE Retire(r, active)
      auth == IF ready THEN "authorized" ELSE "needs_recovery"
      sid == Len(r.sess) + 1
  IN OK([old EXCEPT
           !.gen = gen,
           !.inst[i] = [gen |-> gen, active |-> TRUE, auth |-> auth],
           !.sess = Append(@, NewSession(i, gen)),
           !.req[i] = [q EXCEPT !.status = "activated", !.sid = sid, !.sealDead = FALSE]],
        [status |-> auth, sid |-> sid, k |-> 0])

\* The answer to an activation already done, while it is sealed and its
\* session has not rotated since.  An activation is named by its code: the
\* tablet keeps one operation per code.
Recovered(r, i, m) ==
  LET q == r.req[i] s == r.sess[q.sid] IN
  IF m.code # q.code THEN Refuse(r, "CONFLICT")
  ELSE IF ~r.inst[i].active \/ q.sealDead THEN Refuse(r, "RECOVERY_REQUIRED")
  ELSE IF TabletGuard(r, i, q.sid, TRUE) # "OK"
       THEN Refuse(r, TabletGuard(r, i, q.sid, TRUE))
  ELSE IF s.rots # <<>> THEN Refuse(r, "RECOVERY_REQUIRED")
  ELSE OK(r, [status |-> r.inst[i].auth, sid |-> q.sid, k |-> 0])

Activate(r, i, m) ==
  LET q == r.req[i] IN
  IF q.id # m.req \/ q.status \in {"none", "pending"} THEN Refuse(r, "PROOF_REQUIRED")
  ELSE IF q.status = "activated" THEN Recovered(r, i, m)
  ELSE IF q.status # "approved" \/ q.dead \/ q.codeDead
       THEN Refuse(r, "ENROLLMENT_EXPIRED")
  ELSE IF Spent(q) THEN Refuse(r, "ATTEMPTS_EXCEEDED")
  ELSE IF m.code # q.code
       THEN Refuse([r EXCEPT !.req[i].attempts = @ + 1],
                   IF q.attempts + 1 >= MaxAttempts THEN "ATTEMPTS_EXCEEDED"
                   ELSE "INVITATION_INVALID")
  ELSE IF r.gen # q.pinnedGen \/ ActiveInst(r) # q.pinnedInst
       THEN Refuse(r, "REPLACEMENT_CONFLICT")
  ELSE Enroll(r, i)

PendingStatus(r, i, m) ==
  LET q == r.req[i] IN
  IF q.id # m.req THEN Refuse(r, "PROOF_REQUIRED")
  ELSE IF q.dead THEN Refuse(r, "ENROLLMENT_EXPIRED")
  ELSE OK(r, [status |-> IF q.status = "rejected" THEN "rejected"
                         ELSE IF q.status = "activated" THEN "needs_recovery"
                         ELSE "pending"])

(***************************************************************************)
(* Sessions: the refresh token of session s is the number of its rotations *)
(* so far; rots[k + 1] is the rotation that used up token k.               *)
(***************************************************************************)
EndFamily(r, sid) == Refuse([r EXCEPT !.sess[sid].active = FALSE], "REFRESH_REPLAY")

\* mistake: an exact repetition is answered by a new rotation
RotatesAgain(r, i, m) ==
  LET s == r.sess[m.sid] IN
  IF TabletGuard(r, i, m.sid, TRUE) # "OK"
  THEN Refuse(r, TabletGuard(r, i, m.sid, TRUE))
  ELSE OK([r EXCEPT !.sess[m.sid].rots = Append(@, [id |-> m.rid, dead |-> FALSE])],
          [sid |-> m.sid, k |-> Len(s.rots) + 1])

Refresh(r, i, m) ==
  LET s == r.sess[m.sid] IN
  IF TabletGuard(r, i, m.sid, TRUE) # "OK"
  THEN Refuse(r, TabletGuard(r, i, m.sid, TRUE))
  ELSE IF m.k > Len(s.rots) THEN EndFamily(r, m.sid)
  ELSE IF m.k < Len(s.rots)
  THEN LET old == s.rots[m.k + 1] IN
       IF old.id # m.rid THEN EndFamily(r, m.sid)
       ELSE IF old.dead THEN Refuse(r, "RECOVERY_REQUIRED")
       ELSE OK(r, [sid |-> m.sid, k |-> m.k + 1])
  ELSE OK([r EXCEPT !.sess[m.sid].rots = Append(@, [id |-> m.rid, dead |-> FALSE])],
          [sid |-> m.sid, k |-> m.k + 1])

Status(r, i, m) ==
  IF TabletGuard(r, i, m.sid, TRUE) # "OK"
  THEN Refuse(r, TabletGuard(r, i, m.sid, TRUE))
  ELSE OK(r, [status |-> r.inst[i].auth])

\* A batch of the journal, behind the guard and in its transaction.
Sync(r, i, m) ==
  IF TabletGuard(r, i, m.sid, FALSE) # "OK"
  THEN Refuse(r, TabletGuard(r, i, m.sid, FALSE))
  ELSE IF IsPrefix(r.ledger, m.dossier)
  THEN OK([r EXCEPT !.ledger = m.dossier], [status |-> "sent"])
  ELSE IF IsPrefix(m.dossier, r.ledger) THEN OK(r, [status |-> "sent"])
  ELSE Refuse(r, "SEQUENCE_FORK")

(***************************************************************************)
(* Revocation by a manager, answered from the audit when it is repeated.   *)
(***************************************************************************)
Revoke(r, i, op) ==
  LET known == [who |-> i, op |-> op] IN
  IF known \in r.audits THEN OK(r, [status |-> "revoked"])
  ELSE IF r.inst[i].auth = "none" THEN Refuse(r, "NOT_FOUND")
  ELSE IF ~r.inst[i].active /\ r.inst[i].auth = "revoked"
       THEN OK(Audited(r, known), [status |-> "revoked"])
  ELSE IF r.gen # r.inst[i].gen THEN Refuse(r, "ACCESS_REVOKED")
  ELSE OK(Audited(Retire(r, i), known), [status |-> "revoked"])

\* The route of a signed message.
Handle(r, i, m) ==
  IF m.action = "request" THEN Request(r, i, m)
  ELSE IF m.action = "activate" THEN Activate(r, i, m)
  ELSE IF m.action = "pending" THEN PendingStatus(r, i, m)
  ELSE IF m.action = "refresh" THEN Refresh(r, i, m)
  ELSE IF m.action = "status" THEN Status(r, i, m)
  ELSE Sync(r, i, m)
=============================================================================
