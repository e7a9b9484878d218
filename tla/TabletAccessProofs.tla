------------------------- MODULE TabletAccessProofs -------------------------
(***************************************************************************)
(* One installation at a time writes a sales chain, and what the server    *)
(* has of the chain is always the beginning of the journal it authorizes:  *)
(* for any installations, journals, bounds and delays.                     *)
(*                                                                         *)
(* Each handler of TabletRegistry is shown to keep what the registry       *)
(* promises, whatever message it is given, and to leave the other          *)
(* installations alone.  Of the messages only one thing is asked: a        *)
(* journal they carry is the beginning of the journal of the tablet that   *)
(* sent them, which is what a tablet writes in them and stays true however *)
(* late they arrive, because a journal only grows.                         *)
(*                                                                         *)
(* A second invariant, on top of the first, follows the sessions: which    *)
(* token a vault holds, which rotation used up which token and what a      *)
(* refresh under way may carry, so that no retry ends a session.           *)
(***************************************************************************)
EXTENDS TabletAccess, SequenceTheorems, FiniteSetTheorems, TLAPS

Statuses == {"none", "authorized", "needs_recovery", "revoked"}

IsSeq(s) == s \in Seq({s[n] : n \in DOMAIN s})

SessionOK(s) ==
  /\ {"inst", "gen", "active", "rots"} \subseteq DOMAIN s
  /\ s.inst \in Inst /\ s.gen \in Nat /\ s.active \in BOOLEAN

RequestOK(q) ==
  /\ {"dossier", "status", "pinnedGen", "pinnedInst"} \subseteq DOMAIN q
  /\ q.dossier \in Seq(Inst) /\ q.pinnedGen \in Nat

RegistryOK(r) ==
  /\ {"gen", "ledger", "sess", "audits", "inst", "req"} \subseteq DOMAIN r
  /\ r.gen \in Nat /\ r.ledger \in Seq(Inst)
  /\ IsSeq(r.sess) /\ \A s \in DOMAIN r.sess : SessionOK(r.sess[s])
  /\ r.inst \in [Inst -> [gen : Nat, active : BOOLEAN, auth : Statuses]]
  /\ DOMAIN r.req = Inst /\ \A i \in Inst : RequestOK(r.req[i])

(* OneUploader of a registry r.  An approval was given under a generation  *)
(* the chain already had, and the generation never goes back to none.      *)
OneWriter(r) ==
  /\ \A i, j \in Inst : r.inst[i].active /\ r.inst[j].active => i = j
  /\ \A s \in DOMAIN r.sess :
       r.sess[s].active =>
         /\ r.inst[r.sess[s].inst].active
         /\ r.sess[s].gen = r.inst[r.sess[s].inst].gen
         /\ r.sess[s].gen = r.gen
  /\ \A i \in Inst : r.inst[i].active => r.gen # 0
  /\ \A i \in Inst : r.req[i].status = "approved" => r.req[i].pinnedGen # 0

(* The server's journal begins that of the authorized installation, and so *)
(* does the dossier of every request that may still be activated.          *)
Continues(r, journals) ==
  /\ \A i \in Inst :
       r.inst[i].active /\ r.inst[i].auth = "authorized" => IsPrefix(r.ledger, journals[i])
  /\ \A i \in Inst : IsPrefix(r.req[i].dossier, journals[i])

RegistryInv(r, journals) == RegistryOK(r) /\ OneWriter(r) /\ Continues(r, journals)

(* A message that carries a journal: any but those that carry none.        *)
Bare == {"activate", "pending", "refresh", "status"}
MessageOK(m, sold) ==
  m.action \in Bare \/ (m.dossier \in Seq(Inst) /\ IsPrefix(m.dossier, sold))

VaultOK(v, sold) ==
  /\ {"dossier", "holds"} \subseteq DOMAIN v
  /\ v.dossier \in Seq(Inst) /\ IsPrefix(v.dossier, sold)

TabletsInv ==
  /\ journal \in [Inst -> Seq(Inst)]
  /\ DOMAIN vault = Inst /\ DOMAIN call = Inst /\ DOMAIN late = Inst
  /\ \A i \in Inst :
       /\ VaultOK(vault[i], journal[i])
       /\ call[i].msg = NoMessage \/ MessageOK(call[i].msg, journal[i])
       /\ \A m \in late[i] : MessageOK(m, journal[i])

(* A tablet without a copy of the chain has asked for nothing: restoring a *)
(* backup on it changes nothing the server knows of.                       *)
Blank(r, i) == r.req[i].status = "none" /\ r.req[i].dossier = <<>> /\ ~r.inst[i].active
EmptyInv ==
  \A i \in Inst : ~vault[i].holds => call[i] = Idle /\ late[i] = {} /\ Blank(reg, i)

IInv == RegistryInv(reg, journal) /\ TabletsInv /\ EmptyInv
-----------------------------------------------------------------------------
(* Sequences.                                                              *)

LEMMA PrefixElements ==
  ASSUME NEW S, NEW s \in Seq(S), NEW t \in Seq(S)
  PROVE  IsPrefix(s, t) <=> Len(s) <= Len(t) /\ \A n \in 1..Len(s) : s[n] = t[n]
<1> DEFINE n == Len(s)
<1>1. n \in Nat /\ Len(t) \in Nat
  BY LenProperties
<1>2. SUFFICES ASSUME n <= Len(t)
               PROVE  SubSeq(t, 1, n) = SubSeq(s, 1, n) <=> \A k \in 1..n : s[k] = t[k]
  BY DEF IsPrefix
<1>3. \A k \in 1..n : s[k] \in S /\ t[k] \in S
  BY <1>1, <1>2, ElementOfSeq
<1>4. /\ SubSeq(s, 1, n) \in Seq(S) /\ SubSeq(t, 1, n) \in Seq(S)
      /\ Len(SubSeq(s, 1, n)) = n /\ Len(SubSeq(t, 1, n)) = n
      /\ \A k \in 1..n : SubSeq(s, 1, n)[k] = s[k] /\ SubSeq(t, 1, n)[k] = t[k]
  <2> HIDE DEF n
  <2> QED
    BY <1>1, <1>3, SubSeqProperties
<1> HIDE DEF n
<1>5. ASSUME \A k \in 1..n : s[k] = t[k]
      PROVE  SubSeq(t, 1, n) = SubSeq(s, 1, n)
  BY <1>4, <1>5, SeqEqual
<1> QED
  BY <1>4, <1>5

LEMMA PrefixOfItself ==
  ASSUME NEW S, NEW s \in Seq(S)
  PROVE  IsPrefix(s, s)
  BY DEF IsPrefix

LEMMA EmptyIsPrefix ==
  ASSUME NEW S, NEW s \in Seq(S)
  PROVE  IsPrefix(<<>>, s)
  BY DEF IsPrefix

LEMMA PrefixOfPrefix ==
  ASSUME NEW S, NEW s \in Seq(S), NEW t \in Seq(S), NEW u \in Seq(S),
         IsPrefix(s, t), IsPrefix(t, u)
  PROVE  IsPrefix(s, u)
<1>1. Len(s) \in Nat /\ Len(t) \in Nat /\ Len(u) \in Nat
  BY LenProperties
<1>2. /\ Len(s) <= Len(t) /\ \A n \in 1..Len(s) : s[n] = t[n]
      /\ Len(t) <= Len(u) /\ \A n \in 1..Len(t) : t[n] = u[n]
  BY PrefixElements
<1>3. Len(s) <= Len(u) /\ \A n \in 1..Len(s) : s[n] = u[n]
  BY <1>1, <1>2
<1> QED
  BY <1>3, PrefixElements

LEMMA PrefixOfAppend ==
  ASSUME NEW S, NEW s \in Seq(S), NEW t \in Seq(S), NEW e \in S, IsPrefix(s, t)
  PROVE  IsPrefix(s, Append(t, e))
<1>1. Append(t, e) \in Seq(S) /\ Len(s) \in Nat /\ Len(t) \in Nat
  BY AppendProperties, LenProperties
<1>2. Len(s) <= Len(t) /\ \A n \in 1..Len(s) : s[n] = t[n]
  BY PrefixElements
<1>3. Len(s) <= Len(Append(t, e)) /\ \A n \in 1..Len(s) : s[n] = Append(t, e)[n]
  BY <1>1, <1>2, AppendProperties
<1> QED
  BY <1>1, <1>3, PrefixElements

LEMMA AppendIsSeq ==
  ASSUME NEW s, IsSeq(s), NEW e
  PROVE  /\ IsSeq(Append(s, e))
         /\ Len(s) \in Nat /\ DOMAIN s = 1..Len(s)
         /\ DOMAIN Append(s, e) = 1..(Len(s) + 1)
         /\ \A n \in 1..Len(s) : Append(s, e)[n] = s[n]
         /\ Append(s, e)[Len(s) + 1] = e
<1> DEFINE S == {s[n] : n \in DOMAIN s}
           t == Append(s, e)
           T == {t[n] : n \in DOMAIN t}
<1>1. s \in Seq(S) /\ Len(s) \in Nat /\ DOMAIN s = 1..Len(s)
  BY LenProperties DEF IsSeq
<1>2. s \in Seq(S \cup {e})
  <2>1. \A n \in 1..Len(s) : s[n] \in S \cup {e}
    BY <1>1
  <2>2. s = [n \in 1..Len(s) |-> s[n]]
    BY <1>1, LenProperties
  <2> HIDE DEF S
  <2> QED
    BY <1>1, <2>1, <2>2, SeqDef
<1> HIDE DEF S
<1>3. /\ t \in Seq(S \cup {e}) /\ Len(t) = Len(s) + 1
      /\ \A n \in 1..Len(s) : t[n] = s[n]
      /\ t[Len(s) + 1] = e
  BY <1>2, AppendProperties
<1> HIDE DEF t
<1>4. DOMAIN t = 1..(Len(s) + 1)
  BY <1>3, LenProperties
<1>5. t \in Seq(T)
  <2>1. \A n \in 1..Len(t) : t[n] \in T
    BY <1>3, <1>4
  <2>2. t = [n \in 1..Len(t) |-> t[n]] /\ Len(t) \in Nat
    BY <1>3, LenProperties
  <2> HIDE DEF T
  <2> QED
    BY <2>1, <2>2, SeqDef
<1> QED
  BY <1>1, <1>3, <1>4, <1>5 DEF IsSeq, t, T

(* The same places, other contents.                                        *)
LEMMA RewrittenIsSeq ==
  ASSUME NEW s, IsSeq(s), NEW t, DOMAIN t = DOMAIN s, t = [n \in DOMAIN s |-> t[n]]
  PROVE  IsSeq(t)
<1> DEFINE T == {t[n] : n \in DOMAIN t}
<1>1. Len(s) \in Nat /\ DOMAIN s = 1..Len(s)
  BY LenProperties DEF IsSeq
<1>2. \A n \in 1..Len(s) : t[n] \in T
  BY <1>1
<1>3. t = [n \in 1..Len(s) |-> t[n]]
  BY <1>1
<1> HIDE DEF T
<1>4. t \in Seq(T)
  BY <1>1, <1>2, <1>3, SeqDef
<1> QED
  BY <1>4 DEF IsSeq, T

-----------------------------------------------------------------------------
(* The handlers.  Each of them keeps what the registry promises and leaves *)
(* the requests of the other installations alone.                          *)

Kept(r, q, i) ==
  \A j \in Inst \ {i} :
    q.req[j] = r.req[j] /\ (q.inst[j].active => r.inst[j].active)

LEMMA RefuseKeeps ==
  ASSUME NEW r, NEW why
  PROVE  Refuse(r, why).reg = r
  BY DEF Refuse

LEMMA AnswerKeeps ==
  ASSUME NEW r, NEW answer
  PROVE  OK(r, answer).reg = r
  BY DEF OK

(* Requests may change when nobody is activated or retired.                *)
LEMMA RequestsChange ==
  ASSUME NEW J, NEW r, RegistryInv(r, J), NEW i \in Inst, NEW request, RequestOK(request),
         IsPrefix(request.dossier, J[i]),
         request.status = "approved" => request.pinnedGen # 0
  PROVE  LET q == [r EXCEPT !.req[i] = request]
         IN  RegistryInv(q, J) /\ Kept(r, q, i)
<1> DEFINE q == [r EXCEPT !.req[i] = request]
<1>1. /\ q.gen = r.gen /\ q.ledger = r.ledger /\ q.sess = r.sess /\ q.inst = r.inst
      /\ q.req = [r.req EXCEPT ![i] = request]
      /\ DOMAIN q = DOMAIN r
  BY DEF RegistryInv, RegistryOK
<1>2. /\ DOMAIN q.req = Inst /\ q.req[i] = request
      /\ \A j \in Inst \ {i} : q.req[j] = r.req[j]
  BY <1>1 DEF RegistryInv, RegistryOK
<1> HIDE DEF q
<1>3. RegistryOK(q)
  BY <1>1, <1>2 DEF RegistryInv, RegistryOK
<1>4. OneWriter(q)
  BY <1>1, <1>2 DEF RegistryInv, OneWriter
<1>5. Continues(q, J)
  BY <1>1, <1>2 DEF RegistryInv, Continues
<1>6. Kept(r, q, i)
  BY <1>1, <1>2 DEF Kept
<1> QED
  BY <1>3, <1>4, <1>5, <1>6 DEF RegistryInv, q

LEMMA NothingChanges ==
  ASSUME NEW J, NEW r, RegistryInv(r, J), NEW i \in Inst
  PROVE  RegistryInv(r, J) /\ Kept(r, r, i)
  BY DEF Kept

LEMMA RequestKeeps ==
  ASSUME NEW J, NEW r, RegistryInv(r, J), NEW i \in Inst, NEW m,
         m.dossier \in Seq(Inst), IsPrefix(m.dossier, J[i])
  PROVE  RegistryInv(Request(r, i, m).reg, J) /\ Kept(r, Request(r, i, m).reg, i)
<1> DEFINE request == [NoRequest EXCEPT !.id = r.req[i].id + 1, !.op = m.op, !.status = "pending",
                         !.dossier = m.dossier, !.restored = m.restored]
           new == [r EXCEPT !.req[i] = request]
<1>1. Request(r, i, m).reg = r \/ Request(r, i, m).reg = new
  BY DEF Request, OK, Refuse
<1>2. /\ RequestOK(request) /\ IsPrefix(request.dossier, J[i]) /\ request.status = "pending"
  BY DEF NoRequest, RequestOK
<1> HIDE DEF request
<1>3. RegistryInv(new, J) /\ Kept(r, new, i)
  BY <1>2, RequestsChange
<1> QED
  BY <1>1, <1>3, NothingChanges

(* Nothing of the session but its rotations and its end may change, except *)
(* that it is retired with its installation.                               *)
LEMMA SessionsChange ==
  ASSUME NEW J, NEW r, RegistryInv(r, J), NEW i \in Inst, NEW sessions,
         DOMAIN sessions = DOMAIN r.sess,
         sessions = [s \in DOMAIN r.sess |-> sessions[s]],
         \A s \in DOMAIN r.sess :
           /\ SessionOK(sessions[s])
           /\ sessions[s].inst = r.sess[s].inst /\ sessions[s].gen = r.sess[s].gen
           /\ sessions[s].active => r.sess[s].active
  PROVE  LET q == [r EXCEPT !.sess = sessions]
         IN  RegistryInv(q, J) /\ Kept(r, q, i)
<1> DEFINE q == [r EXCEPT !.sess = sessions]
<1>1. /\ q.gen = r.gen /\ q.ledger = r.ledger /\ q.sess = sessions /\ q.inst = r.inst
      /\ q.req = r.req /\ DOMAIN q = DOMAIN r
  BY DEF RegistryInv, RegistryOK
<1>2. IsSeq(sessions)
  BY RewrittenIsSeq DEF RegistryInv, RegistryOK
<1> HIDE DEF q
<1>3. RegistryOK(q)
  <2>1. /\ {"gen", "ledger", "sess", "audits", "inst", "req"} \subseteq DOMAIN q
        /\ q.gen \in Nat /\ q.ledger \in Seq(Inst)
        /\ q.inst \in [Inst -> [gen : Nat, active : BOOLEAN, auth : Statuses]]
    BY <1>1 DEF RegistryInv, RegistryOK
  <2>2. DOMAIN q.req = Inst /\ \A j \in Inst : RequestOK(q.req[j])
    BY <1>1 DEF RegistryInv, RegistryOK
  <2>3. \A s \in DOMAIN q.sess : SessionOK(q.sess[s])
    BY <1>1
  <2> QED
    BY <1>1, <1>2, <2>1, <2>2, <2>3 DEF RegistryOK
<1>4. OneWriter(q)
  <2>1. OneWriter(r)
    BY DEF RegistryInv
  <2>2. ASSUME NEW s \in DOMAIN q.sess, q.sess[s].active
        PROVE  /\ q.inst[q.sess[s].inst].active
               /\ q.sess[s].gen = q.inst[q.sess[s].inst].gen
               /\ q.sess[s].gen = q.gen
    <3>1. /\ s \in DOMAIN r.sess /\ r.sess[s].active
          /\ q.sess[s].inst = r.sess[s].inst /\ q.sess[s].gen = r.sess[s].gen
      BY <1>1, <2>2
    <3>2. /\ r.inst[r.sess[s].inst].active
          /\ r.sess[s].gen = r.inst[r.sess[s].inst].gen
          /\ r.sess[s].gen = r.gen
      BY <2>1, <3>1 DEF OneWriter
    <3> QED
      BY <1>1, <3>1, <3>2
  <2>3. /\ \A j, k \in Inst : q.inst[j].active /\ q.inst[k].active => j = k
        /\ \A j \in Inst : q.inst[j].active => q.gen # 0
        /\ \A j \in Inst : q.req[j].status = "approved" => q.req[j].pinnedGen # 0
    BY <1>1, <2>1 DEF OneWriter
  <2> QED
    BY <2>2, <2>3 DEF OneWriter
<1>5. Continues(q, J) /\ Kept(r, q, i)
  BY <1>1 DEF RegistryInv, Continues, Kept
<1> QED
  BY <1>3, <1>4, <1>5 DEF RegistryInv, q

LEMMA RefreshKeeps ==
  ASSUME NEW J, NEW r, RegistryInv(r, J), NEW i \in Inst, NEW m
  PROVE  RegistryInv(Refresh(r, i, m).reg, J) /\ Kept(r, Refresh(r, i, m).reg, i)
<1> DEFINE ended   == [r EXCEPT !.sess[m.sid].active = FALSE]
           rotated == [r EXCEPT !.sess[m.sid].rots = Append(@, [id |-> m.rid, dead |-> FALSE])]
           rots    == Append(r.sess[m.sid].rots, [id |-> m.rid, dead |-> FALSE])
           S       == [r.sess EXCEPT ![m.sid] = [@ EXCEPT !.active = FALSE]]
           T       == [r.sess EXCEPT ![m.sid] = [@ EXCEPT !.rots = rots]]
<1>1. Refresh(r, i, m).reg \in {r, ended, rotated}
  BY DEF Refresh, EndFamily, OK, Refuse
<1>2. \A s \in DOMAIN r.sess : SessionOK(r.sess[s])
  BY DEF RegistryInv, RegistryOK
<1>3. RegistryInv(ended, J) /\ Kept(r, ended, i)
  <2>1. /\ DOMAIN S = DOMAIN r.sess
        /\ S = [s \in DOMAIN r.sess |-> S[s]]
        /\ \A s \in DOMAIN r.sess :
             /\ SessionOK(S[s])
             /\ S[s].inst = r.sess[s].inst /\ S[s].gen = r.sess[s].gen
             /\ S[s].active => r.sess[s].active
    BY <1>2 DEF SessionOK
  <2>2. ended = [r EXCEPT !.sess = S]
    BY DEF RegistryInv, RegistryOK
  <2> HIDE DEF S
  <2> QED
    BY <2>1, <2>2, SessionsChange
<1>4. RegistryInv(rotated, J) /\ Kept(r, rotated, i)
  <2> HIDE DEF rots
  <2>1. /\ DOMAIN T = DOMAIN r.sess
        /\ T = [s \in DOMAIN r.sess |-> T[s]]
        /\ \A s \in DOMAIN r.sess :
             /\ SessionOK(T[s])
             /\ T[s].inst = r.sess[s].inst /\ T[s].gen = r.sess[s].gen
             /\ T[s].active => r.sess[s].active
    BY <1>2 DEF SessionOK
  <2>2. rotated = [r EXCEPT !.sess = T]
    BY DEF RegistryInv, RegistryOK, rots
  <2> HIDE DEF T
  <2> QED
    BY <2>1, <2>2, SessionsChange
<1> QED
  BY <1>1, <1>3, <1>4, NothingChanges

LEMMA SyncKeeps ==
  ASSUME NEW J, NEW r, RegistryInv(r, J), NEW i \in Inst, NEW m,
         m.dossier \in Seq(Inst), IsPrefix(m.dossier, J[i])
  PROVE  RegistryInv(Sync(r, i, m).reg, J) /\ Kept(r, Sync(r, i, m).reg, i)
<1> DEFINE q == [r EXCEPT !.ledger = m.dossier]
<1>1. CASE Sync(r, i, m).reg = r
  BY <1>1, NothingChanges
<1>2. CASE Sync(r, i, m).reg = q /\ TabletGuard(r, i, m.sid, FALSE) = "OK"
  <2>1. /\ q.gen = r.gen /\ q.ledger = m.dossier /\ q.sess = r.sess /\ q.inst = r.inst
        /\ q.req = r.req /\ DOMAIN q = DOMAIN r
    BY DEF RegistryInv, RegistryOK
  <2>2. r.inst[i].active
    BY <1>2 DEF TabletGuard
  <2> HIDE DEF q
  <2>3. RegistryOK(q) /\ OneWriter(q)
    BY <2>1 DEF RegistryInv, RegistryOK, OneWriter
  <2>4. Continues(q, J)
    <3>1. \A j \in Inst : r.inst[j].active => j = i
      BY <2>2 DEF RegistryInv, OneWriter
    <3> QED
      BY <2>1, <3>1 DEF RegistryInv, Continues
  <2>5. Kept(r, q, i)
    BY <2>1 DEF Kept
  <2> QED
    BY <1>2, <2>3, <2>4, <2>5 DEF RegistryInv
<1> QED
  BY <1>1, <1>2 DEF Sync, OK, Refuse

(* An installation retired is not active any more, nor is any session of   *)
(* it; the rest of the registry is as it was.                              *)
LEMMA Retired ==
  ASSUME NEW r, RegistryOK(r), NEW i \in Inst
  PROVE  LET q == Retire(r, i)
         IN  /\ RegistryOK(q)
             /\ q.gen = r.gen /\ q.ledger = r.ledger /\ q.req = r.req
             /\ DOMAIN q.sess = DOMAIN r.sess
             /\ \A s \in DOMAIN r.sess :
                  /\ q.sess[s].inst = r.sess[s].inst /\ q.sess[s].gen = r.sess[s].gen
                  /\ q.sess[s].active => r.sess[s].active /\ r.sess[s].inst # i
             /\ ~q.inst[i].active
             /\ \A j \in Inst \ {i} : q.inst[j] = r.inst[j]
<1> DEFINE ended(s) == IF r.sess[s].inst = i THEN [r.sess[s] EXCEPT !.active = FALSE] ELSE r.sess[s]
           sessions == [s \in DOMAIN r.sess |-> ended(s)]
           insts    == [r.inst EXCEPT ![i] = [[@ EXCEPT !.active = FALSE] EXCEPT !.auth = "revoked"]]
           q        == Retire(r, i)
<1>1. /\ q.gen = r.gen /\ q.ledger = r.ledger /\ q.req = r.req /\ DOMAIN q = DOMAIN r
      /\ q.sess = sessions
      /\ q.inst = insts
  BY DEF Retire, RegistryOK
<1>2. \A s \in DOMAIN r.sess :
        /\ SessionOK(ended(s))
        /\ ended(s).inst = r.sess[s].inst /\ ended(s).gen = r.sess[s].gen
        /\ ended(s).active => r.sess[s].active /\ r.sess[s].inst # i
  BY DEF RegistryOK, SessionOK
<1>3. /\ insts \in [Inst -> [gen : Nat, active : BOOLEAN, auth : Statuses]]
      /\ ~insts[i].active
      /\ \A j \in Inst \ {i} : insts[j] = r.inst[j]
  BY DEF RegistryOK, Statuses
<1> HIDE DEF ended
<1>4. /\ DOMAIN sessions = DOMAIN r.sess
      /\ sessions = [s \in DOMAIN r.sess |-> sessions[s]]
      /\ \A s \in DOMAIN r.sess : sessions[s] = ended(s)
  OBVIOUS
<1> HIDE DEF sessions, insts, q
<1>5. IsSeq(sessions)
  BY <1>4, RewrittenIsSeq DEF RegistryOK
<1>6. RegistryOK(q)
  <2>1. /\ {"gen", "ledger", "sess", "audits", "inst", "req"} \subseteq DOMAIN q
        /\ q.gen \in Nat /\ q.ledger \in Seq(Inst)
        /\ q.inst \in [Inst -> [gen : Nat, active : BOOLEAN, auth : Statuses]]
    BY <1>1, <1>3 DEF RegistryOK
  <2>2. DOMAIN q.req = Inst /\ \A j \in Inst : RequestOK(q.req[j])
    BY <1>1 DEF RegistryOK
  <2>3. \A s \in DOMAIN q.sess : SessionOK(q.sess[s])
    BY <1>1, <1>2, <1>4
  <2> QED
    BY <1>1, <1>5, <2>1, <2>2, <2>3 DEF RegistryOK
<1>7. \A s \in DOMAIN r.sess :
        /\ q.sess[s].inst = r.sess[s].inst /\ q.sess[s].gen = r.sess[s].gen
        /\ q.sess[s].active => r.sess[s].active /\ r.sess[s].inst # i
  BY <1>1, <1>2, <1>4
<1>8. /\ q.gen = r.gen /\ q.ledger = r.ledger /\ q.req = r.req
      /\ DOMAIN q.sess = DOMAIN r.sess
      /\ ~q.inst[i].active
      /\ \A j \in Inst \ {i} : q.inst[j] = r.inst[j]
  BY <1>1, <1>3, <1>4
<1> QED
  BY <1>6, <1>7, <1>8 DEF q

LEMMA RetireKeeps ==
  ASSUME NEW J, NEW r, RegistryInv(r, J), NEW i \in Inst
  PROVE  RegistryInv(Retire(r, i), J) /\ Kept(r, Retire(r, i), i)
<1> DEFINE q == Retire(r, i)
<1>1. /\ RegistryOK(q)
      /\ q.gen = r.gen /\ q.ledger = r.ledger /\ q.req = r.req
      /\ DOMAIN q.sess = DOMAIN r.sess
      /\ \A s \in DOMAIN r.sess :
           /\ q.sess[s].inst = r.sess[s].inst /\ q.sess[s].gen = r.sess[s].gen
           /\ q.sess[s].active => r.sess[s].active /\ r.sess[s].inst # i
      /\ ~q.inst[i].active
      /\ \A j \in Inst \ {i} : q.inst[j] = r.inst[j]
  BY Retired DEF RegistryInv
<1> HIDE DEF q
<1>2. \A s \in DOMAIN r.sess : r.sess[s].inst \in Inst
  BY DEF RegistryInv, RegistryOK, SessionOK
<1>3. OneWriter(q)
  BY <1>1, <1>2 DEF RegistryInv, OneWriter
<1>4. Continues(q, J) /\ Kept(r, q, i)
  BY <1>1 DEF RegistryInv, Continues, Kept
<1> QED
  BY <1>1, <1>3, <1>4 DEF RegistryInv, q

(* Whoever was active is the only one the enrollment can leave active      *)
(* besides the new installation, and it is retired.                        *)
LEMMA EnrollKeeps ==
  ASSUME NEW J \in [Inst -> Seq(Inst)], NEW r, RegistryInv(r, J), NEW i \in Inst, r.gen # 0
  PROVE  RegistryInv(Enroll(r, i).reg, J) /\ Kept(r, Enroll(r, i).reg, i)
<1> DEFINE active == ActiveInst(r)
           old  == IF active = NoInst THEN r ELSE Retire(r, active)
           gen  == IF active # NoInst \/ r.inst[i].gen # 0 THEN r.gen + 1 ELSE r.gen
           auth == IF CheckContinuity(r.ledger, r.req[i].dossier) THEN "authorized"
                   ELSE "needs_recovery"
           mine == NewSession(i, gen)
           request == [r.req[i] EXCEPT !.status = "activated", !.sid = Len(r.sess) + 1,
                                       !.sealDead = FALSE]
           q    == [old EXCEPT
                      !.gen = gen,
                      !.inst[i] = [gen |-> gen, active |-> TRUE, auth |-> auth],
                      !.sess = Append(@, mine),
                      !.req[i] = request]
<1>1. Enroll(r, i).reg = q
  BY DEF Enroll, OK
<1>2. /\ RegistryOK(old)
      /\ old.ledger = r.ledger /\ old.req = r.req
      /\ \A j \in Inst : ~old.inst[j].active
      /\ \A s \in DOMAIN old.sess : ~old.sess[s].active
  <2>1. CASE \A j \in Inst : ~r.inst[j].active
    <3>1. active = NoInst
      BY <2>1 DEF ActiveInst
    <3>2. \A s \in DOMAIN r.sess : ~r.sess[s].active
      BY <2>1 DEF RegistryInv, OneWriter, RegistryOK, SessionOK
    <3> QED
      BY <2>1, <3>1, <3>2 DEF RegistryInv
  <2>2. CASE \E j \in Inst : r.inst[j].active
    <3>1. active \in Inst /\ r.inst[active].active
      BY <2>2 DEF ActiveInst
    <3> HIDE DEF active
    <3>2. old = Retire(r, active)
      BY <3>1, RegistryAssumption
    <3>3. \A j \in Inst : r.inst[j].active => j = active
      BY <3>1 DEF RegistryInv, OneWriter
    <3>4. \A s \in DOMAIN r.sess : r.sess[s].active => r.sess[s].inst = active
      BY <3>3 DEF RegistryInv, OneWriter, RegistryOK, SessionOK
    <3>5. /\ RegistryOK(old)
          /\ old.ledger = r.ledger /\ old.req = r.req
          /\ DOMAIN old.sess = DOMAIN r.sess
          /\ \A s \in DOMAIN r.sess :
               old.sess[s].active => r.sess[s].active /\ r.sess[s].inst # active
          /\ ~old.inst[active].active
          /\ \A j \in Inst \ {active} : old.inst[j] = r.inst[j]
      <4> HIDE DEF old
      <4>1. RegistryOK(r)
        BY DEF RegistryInv
      <4> QED
        BY <3>1, <3>2, <4>1, Retired
    <3> HIDE DEF old
    <3> QED
      BY <3>3, <3>4, <3>5
  <2> QED
    BY <2>1, <2>2
<1>3. gen \in Nat \ {0}
  BY DEF RegistryInv, RegistryOK
<1>4. /\ RequestOK(request) /\ request.dossier = r.req[i].dossier
      /\ request.status = "activated"
  BY DEF RegistryInv, RegistryOK, RequestOK
<1>5. auth \in Statuses /\ (auth = "authorized" => IsPrefix(r.ledger, r.req[i].dossier))
  BY DEF Statuses, CheckContinuity
<1>6. SessionOK(mine) /\ mine.inst = i /\ mine.gen = gen
  BY <1>3 DEF SessionOK, NewSession
<1> DEFINE insts == [old.inst EXCEPT ![i] = [gen |-> gen, active |-> TRUE, auth |-> auth]]
           sessions == Append(old.sess, mine)
           requests == [r.req EXCEPT ![i] = request]
<1> HIDE DEF gen, auth, mine, request, old
<1>7. /\ q.gen = gen /\ q.inst = insts /\ q.sess = sessions /\ q.req = requests
      /\ q.ledger = r.ledger /\ DOMAIN q = DOMAIN old
  BY <1>2 DEF RegistryOK
<1>8. /\ insts \in [Inst -> [gen : Nat, active : BOOLEAN, auth : Statuses]]
      /\ insts[i].active /\ insts[i].gen = gen /\ insts[i].auth = auth
      /\ \A j \in Inst \ {i} : ~insts[j].active
  BY <1>2, <1>3, <1>5 DEF RegistryOK
<1>9. /\ IsSeq(sessions)
      /\ \A s \in DOMAIN sessions :
           (s \in DOMAIN old.sess /\ sessions[s] = old.sess[s]) \/ sessions[s] = mine
  BY <1>2, AppendIsSeq DEF RegistryOK
<1>10. /\ DOMAIN requests = Inst /\ requests[i] = request
       /\ \A j \in Inst \ {i} : requests[j] = r.req[j]
  BY DEF RegistryInv, RegistryOK
<1> HIDE DEF insts, sessions, requests, q
<1>11. RegistryOK(q)
  <2>1. /\ {"gen", "ledger", "sess", "audits", "inst", "req"} \subseteq DOMAIN q
        /\ q.gen \in Nat /\ q.ledger \in Seq(Inst)
        /\ q.inst \in [Inst -> [gen : Nat, active : BOOLEAN, auth : Statuses]]
    BY <1>2, <1>3, <1>7, <1>8 DEF RegistryOK, RegistryInv
  <2>2. \A j \in Inst : RequestOK(r.req[j])
    BY DEF RegistryOK, RegistryInv
  <2>3. DOMAIN q.req = Inst /\ \A j \in Inst : RequestOK(q.req[j])
    BY <1>4, <1>7, <1>10, <2>2
  <2>4. \A s \in DOMAIN old.sess : SessionOK(old.sess[s])
    BY <1>2 DEF RegistryOK
  <2>5. \A s \in DOMAIN q.sess : SessionOK(q.sess[s])
    BY <1>6, <1>7, <1>9, <2>4
  <2>6. IsSeq(q.sess)
    BY <1>7, <1>9
  <2> QED
    BY <2>1, <2>3, <2>5, <2>6 DEF RegistryOK
<1>12. OneWriter(q)
  <2>1. ASSUME NEW s \in DOMAIN q.sess, q.sess[s].active PROVE q.sess[s] = mine
    <3>1. (s \in DOMAIN old.sess /\ q.sess[s] = old.sess[s]) \/ q.sess[s] = mine
      BY <1>7, <1>9
    <3>2. s \in DOMAIN old.sess => ~old.sess[s].active
      BY <1>2
    <3> QED
      BY <2>1, <3>1, <3>2
  <2>2. \A j, k \in Inst : q.inst[j].active /\ q.inst[k].active => j = k
    BY <1>7, <1>8
  <2>3. /\ q.inst[mine.inst].active
        /\ mine.gen = q.inst[mine.inst].gen
        /\ mine.gen = q.gen
        /\ q.gen # 0
    BY <1>3, <1>6, <1>7, <1>8
  <2>4. \A j \in Inst : q.req[j].status = "approved" => q.req[j].pinnedGen # 0
    <3>1. \A j \in Inst : r.req[j].status = "approved" => r.req[j].pinnedGen # 0
      BY DEF OneWriter, RegistryInv
    <3> QED
      BY <1>4, <1>7, <1>10, <3>1
  <2>5. \A s \in DOMAIN q.sess :
          q.sess[s].active =>
            /\ q.inst[q.sess[s].inst].active
            /\ q.sess[s].gen = q.inst[q.sess[s].inst].gen
            /\ q.sess[s].gen = q.gen
    BY <2>1, <2>3
  <2> QED
    BY <2>2, <2>3, <2>4, <2>5 DEF OneWriter
<1>13. Continues(q, J)
  <2>1. \A j \in Inst : IsPrefix(q.req[j].dossier, J[j])
    BY <1>4, <1>7, <1>10 DEF RegistryInv, Continues
  <2>2. IsPrefix(r.ledger, r.req[i].dossier) => IsPrefix(r.ledger, J[i])
    BY PrefixOfPrefix DEF RegistryInv, RegistryOK, RequestOK, Continues
  <2> QED
    BY <1>5, <1>7, <1>8, <2>1, <2>2 DEF Continues
<1>14. Kept(r, q, i)
  BY <1>7, <1>8, <1>10 DEF Kept
<1> QED
  BY <1>1, <1>11, <1>12, <1>13, <1>14 DEF RegistryInv

(* An activation either enrolls, under the generation the approval was     *)
(* given, or changes at most the count of wrong codes.                     *)
LEMMA ActivateKeeps ==
  ASSUME NEW J \in [Inst -> Seq(Inst)], NEW r, RegistryInv(r, J), NEW i \in Inst, NEW m
  PROVE  RegistryInv(Activate(r, i, m).reg, J) /\ Kept(r, Activate(r, i, m).reg, i)
<1> DEFINE request == [r.req[i] EXCEPT !.attempts = @ + 1]
           counted == [r EXCEPT !.req[i] = request]
<1>1. Recovered(r, i, m).reg = r
  BY DEF Recovered, OK, Refuse
<1>2. counted = [r EXCEPT !.req[i].attempts = @ + 1]
  OBVIOUS
<1>3. RequestOK(r.req[i])
  BY DEF RegistryInv, RegistryOK
<1>4. /\ RequestOK(request) /\ request.dossier = r.req[i].dossier
      /\ request.status = r.req[i].status /\ request.pinnedGen = r.req[i].pinnedGen
  BY <1>3 DEF RequestOK
<1>5. RegistryInv(counted, J) /\ Kept(r, counted, i)
  <2>1. IsPrefix(request.dossier, J[i])
    BY <1>4 DEF RegistryInv, Continues
  <2>2. request.status = "approved" => request.pinnedGen # 0
    BY <1>4 DEF RegistryInv, OneWriter
  <2> HIDE DEF request
  <2> QED
    BY <1>4, <2>1, <2>2, RequestsChange
<1>6. \/ Activate(r, i, m).reg \in {r, counted}
      \/ /\ Activate(r, i, m).reg = Enroll(r, i).reg
         /\ r.req[i].status = "approved" /\ r.gen = r.req[i].pinnedGen
  <2> HIDE DEF counted
  <2> QED
    BY <1>1, <1>2, RefuseKeeps DEF Activate
<1>7. r.req[i].status = "approved" => r.req[i].pinnedGen # 0
  BY DEF RegistryInv, OneWriter
<1> HIDE DEF counted
<1> QED
  BY <1>5, <1>6, <1>7, EnrollKeeps, NothingChanges

(* A decision founds the chain when nobody has written it yet, and pins    *)
(* the generation it saw.                                                  *)
LEMMA DecideKeeps ==
  ASSUME NEW J, NEW r, RegistryInv(r, J), NEW i \in Inst, NEW d
  PROVE  RegistryInv(Decide(r, i, d).reg, J) /\ Kept(r, Decide(r, i, d).reg, i)
<1> DEFINE active  == ActiveInst(r)
           gen     == IF r.gen = 0 /\ d.approve THEN 1 ELSE r.gen
           known   == [who |-> i, op |-> d.op]
           request == IF d.approve
                      THEN [r.req[i] EXCEPT !.status = "approved", !.decided = d.op,
                                     !.pinnedGen = gen, !.pinnedInst = active,
                                     !.code = r.req[i].code + 1, !.codeDead = FALSE, !.attempts = 0]
                      ELSE [r.req[i] EXCEPT !.status = "rejected", !.decided = d.op]
           q == [Audited(r, known) EXCEPT !.gen = gen, !.req[i] = request]
<1>1. Decide(r, i, d).reg = r \/ Decide(r, i, d).reg = q
  BY DEF Decide, OK, Refuse
<1>2. /\ gen \in Nat
      /\ d.approve => gen # 0
      /\ r.gen # 0 => gen = r.gen
  BY DEF RegistryInv, RegistryOK
<1>3. /\ RequestOK(request) /\ request.dossier = r.req[i].dossier
      /\ request.status = "approved" => request.pinnedGen # 0
  <2>1. RequestOK(r.req[i])
    BY DEF RegistryInv, RegistryOK
  <2> HIDE DEF gen, active
  <2> QED
    BY <1>2, <2>1 DEF RequestOK
<1> HIDE DEF request
<1>4. /\ q.gen = gen /\ q.inst = r.inst /\ q.sess = r.sess /\ q.ledger = r.ledger
      /\ q.req = [r.req EXCEPT ![i] = request] /\ DOMAIN q = DOMAIN r
  BY DEF RegistryInv, RegistryOK, Audited
<1>5. /\ DOMAIN q.req = Inst /\ q.req[i] = request
      /\ \A j \in Inst \ {i} : q.req[j] = r.req[j]
  BY <1>4 DEF RegistryInv, RegistryOK
<1> HIDE DEF gen, q
<1>6. RegistryOK(q)
  BY <1>2, <1>3, <1>4, <1>5 DEF RegistryInv, RegistryOK
<1>7. OneWriter(q)
  <2>1. \A j \in Inst : r.inst[j].active => gen = r.gen
    BY <1>2 DEF RegistryInv, OneWriter
  <2>2. \A s \in DOMAIN r.sess : r.sess[s].active => gen = r.gen
    BY <2>1 DEF RegistryInv, OneWriter, RegistryOK, SessionOK
  <2>3. \A j \in Inst : q.req[j].status = "approved" => q.req[j].pinnedGen # 0
    BY <1>3, <1>5 DEF RegistryInv, OneWriter
  <2> QED
    BY <1>4, <2>1, <2>2, <2>3 DEF RegistryInv, OneWriter
<1>8. Continues(q, J) /\ Kept(r, q, i)
  BY <1>3, <1>4, <1>5 DEF RegistryInv, Continues, Kept
<1> QED
  BY <1>1, <1>6, <1>7, <1>8, NothingChanges DEF RegistryInv

(* The audit of an operation changes nothing else.                         *)
LEMMA AuditKeeps ==
  ASSUME NEW J, NEW r, RegistryInv(r, J), NEW known
  PROVE  /\ RegistryInv(Audited(r, known), J)
         /\ Audited(r, known).req = r.req /\ Audited(r, known).inst = r.inst
<1> DEFINE q == Audited(r, known)
<1>1. /\ q.gen = r.gen /\ q.inst = r.inst /\ q.sess = r.sess /\ q.ledger = r.ledger
      /\ q.req = r.req /\ DOMAIN q = DOMAIN r
  BY DEF RegistryInv, RegistryOK, Audited
<1> HIDE DEF q
<1>2. RegistryInv(q, J)
  BY <1>1 DEF RegistryInv, RegistryOK, OneWriter, Continues
<1> QED
  BY <1>1, <1>2 DEF q

LEMMA RevokeKeeps ==
  ASSUME NEW J, NEW r, RegistryInv(r, J), NEW i \in Inst, NEW op
  PROVE  RegistryInv(Revoke(r, i, op).reg, J) /\ Kept(r, Revoke(r, i, op).reg, i)
<1> DEFINE known == [who |-> i, op |-> op]
           out   == Retire(r, i)
<1>1. Revoke(r, i, op).reg \in {r, Audited(r, known), Audited(out, known)}
  BY DEF Revoke, OK, Refuse
<1>2. RegistryInv(out, J) /\ Kept(r, out, i)
  BY RetireKeeps
<1> HIDE DEF known, out
<1>3. /\ RegistryInv(Audited(r, known), J)
      /\ Kept(r, Audited(r, known), i)
  BY AuditKeeps DEF Kept
<1>4. /\ RegistryInv(Audited(out, known), J)
      /\ Kept(r, Audited(out, known), i)
  <2>1. /\ RegistryInv(Audited(out, known), J)
        /\ Audited(out, known).req = out.req /\ Audited(out, known).inst = out.inst
    BY <1>2, AuditKeeps
  <2> QED
    BY <1>2, <2>1 DEF Kept
<1> QED
  BY <1>1, <1>3, <1>4, NothingChanges

(* Any message of the tablet whose journal it carries.                     *)
LEMMA HandleKeeps ==
  ASSUME NEW J \in [Inst -> Seq(Inst)], NEW r, RegistryInv(r, J), NEW i \in Inst, NEW m,
         MessageOK(m, J[i])
  PROVE  RegistryInv(Handle(r, i, m).reg, J) /\ Kept(r, Handle(r, i, m).reg, i)
<1>1. PendingStatus(r, i, m).reg = r /\ Status(r, i, m).reg = r
  BY DEF PendingStatus, Status, OK, Refuse
<1>2. CASE m.action \in Bare
  BY <1>1, <1>2, ActivateKeeps, RefreshKeeps, NothingChanges DEF Handle, Bare
<1>3. CASE m.action \notin Bare
  <2>1. m.dossier \in Seq(Inst) /\ IsPrefix(m.dossier, J[i])
    BY <1>3 DEF MessageOK
  <2> QED
    BY <1>3, <2>1, RequestKeeps, SyncKeeps DEF Handle, Bare
<1> QED
  BY <1>2, <1>3

-----------------------------------------------------------------------------
(* The tablets.  What happens to one tablet leaves the others alone.       *)

Others(i) ==
  \A j \in Inst \ {i} : vault'[j] = vault[j] /\ call'[j] = call[j] /\ late'[j] = late[j]

TabletStep(i) ==
  /\ vault[i].holds
  /\ DOMAIN vault' = Inst /\ DOMAIN call' = Inst /\ DOMAIN late' = Inst
  /\ Others(i)
  /\ VaultOK(vault'[i], journal[i]) /\ vault'[i].holds
  /\ call'[i].msg = NoMessage \/ MessageOK(call'[i].msg, journal[i])
  /\ \A m \in late'[i] : MessageOK(m, journal[i])

LEMMA TabletStepKeeps ==
  ASSUME IInv, NEW i \in Inst, TabletStep(i), UNCHANGED journal,
         RegistryInv(reg', journal), Kept(reg, reg', i)
  PROVE  IInv'
<1>1. RegistryInv(reg, journal)'
  OBVIOUS
<1>2. TabletsInv'
  <2>1. ASSUME NEW j \in Inst
        PROVE  /\ VaultOK(vault'[j], journal'[j])
               /\ call'[j].msg = NoMessage \/ MessageOK(call'[j].msg, journal'[j])
               /\ \A m \in late'[j] : MessageOK(m, journal'[j])
    BY DEF TabletStep, Others, IInv, TabletsInv
  <2> QED
    BY <2>1 DEF TabletStep, IInv, TabletsInv
<1>3. EmptyInv'
  <2>1. ASSUME NEW j \in Inst, ~vault'[j].holds
        PROVE  call'[j] = Idle /\ late'[j] = {} /\ Blank(reg', j)
    <3>1. j # i
      BY <2>1 DEF TabletStep
    <3>2. vault'[j] = vault[j] /\ call'[j] = call[j] /\ late'[j] = late[j]
      BY <3>1 DEF TabletStep, Others
    <3>3. call[j] = Idle /\ late[j] = {} /\ Blank(reg, j)
      BY <2>1, <3>2 DEF IInv, EmptyInv
    <3>4. reg'.req[j] = reg.req[j] /\ (reg'.inst[j].active => reg.inst[j].active)
      BY <3>1 DEF Kept
    <3> QED
      BY <3>2, <3>3, <3>4 DEF Blank
  <2> QED
    BY <2>1 DEF EmptyInv, Blank
<1> QED
  BY <1>1, <1>2, <1>3 DEF IInv

(* The vault and the operation of one tablet change.                       *)
LEMMA LocalStep ==
  ASSUME IInv, NEW i \in Inst, vault[i].holds,
         NEW w, VaultOK(w, journal[i]), w.holds,
         NEW c, c.msg = NoMessage \/ MessageOK(c.msg, journal[i]),
         vault' = [vault EXCEPT ![i] = w], call' = [call EXCEPT ![i] = c], UNCHANGED late
  PROVE  TabletStep(i)
<1>1. /\ DOMAIN vault' = Inst /\ DOMAIN call' = Inst /\ DOMAIN late' = Inst
      /\ vault'[i] = w /\ call'[i] = c /\ late'[i] = late[i]
      /\ Others(i)
  BY DEF IInv, TabletsInv, Others
<1> QED
  BY <1>1 DEF TabletStep, IInv, TabletsInv

(* Only the vault changes.                                                 *)
LEMMA VaultStep ==
  ASSUME IInv, NEW i \in Inst, vault[i].holds,
         NEW w, VaultOK(w, journal[i]), w.holds,
         vault' = [vault EXCEPT ![i] = w], UNCHANGED <<call, late>>
  PROVE  TabletStep(i)
<1>1. /\ DOMAIN vault' = Inst /\ DOMAIN call' = Inst /\ DOMAIN late' = Inst
      /\ vault'[i] = w /\ call'[i] = call[i] /\ late'[i] = late[i]
      /\ Others(i)
  BY DEF IInv, TabletsInv, Others
<1> QED
  BY <1>1 DEF TabletStep, IInv, TabletsInv

(* Only the operation changes.                                             *)
LEMMA CallStep ==
  ASSUME IInv, NEW i \in Inst, vault[i].holds,
         NEW c, c.msg = NoMessage \/ MessageOK(c.msg, journal[i]),
         call' = [call EXCEPT ![i] = c], UNCHANGED <<vault, late>>
  PROVE  TabletStep(i)
<1>1. /\ DOMAIN vault' = Inst /\ DOMAIN call' = Inst /\ DOMAIN late' = Inst
      /\ vault'[i] = vault[i] /\ call'[i] = c /\ late'[i] = late[i]
      /\ Others(i)
  BY DEF IInv, TabletsInv, Others
<1> QED
  BY <1>1 DEF TabletStep, IInv, TabletsInv

LEMMA NothingMoves ==
  ASSUME IInv, NEW i \in Inst, vault[i].holds, UNCHANGED <<vault, call, late>>
  PROVE  TabletStep(i)
  BY DEF TabletStep, Others, IInv, TabletsInv

(* The registry as it was.                                                 *)
LEMMA RegistryStays ==
  ASSUME IInv, NEW i \in Inst, UNCHANGED reg
  PROVE  RegistryInv(reg', journal) /\ Kept(reg, reg', i)
  BY DEF IInv, Kept

(* What the tablet writes in its vault keeps the dossier and the journal.  *)
SameCopy(v, w) ==
  /\ {"dossier", "holds"} \subseteq DOMAIN w
  /\ w.dossier = v.dossier /\ w.holds = v.holds

LEMMA SameCopyOK ==
  ASSUME NEW v, NEW w, NEW sold, VaultOK(v, sold), SameCopy(v, w)
  PROVE  VaultOK(w, sold)
  BY DEF VaultOK, SameCopy

LEMMA VaultWrites ==
  ASSUME NEW v, {"dossier", "holds"} \subseteq DOMAIN v
  PROVE  /\ SameCopy(v, v)
         /\ \A state : SameCopy(v, Failed(v, state))
         /\ SameCopy(v, Prepared(v))
         /\ \A code : SameCopy(v, WithCode(v, code))
         /\ \A path, req, replaces : SameCopy(v, WithOperation(v, path, req, replaces))
         /\ \A kind, a : SameCopy(v, Remember(v, kind, a))
         /\ \A a : SameCopy(v, Renewed(v, a))
         /\ \A state : SameCopy(v, [v EXCEPT !.status = state])
         /\ SameCopy(v, [v EXCEPT !.sess.fresh = FALSE])
         /\ SameCopy(v, [v EXCEPT !.rot.late = TRUE])
<1>1. SameCopy(v, v) /\ \A state : SameCopy(v, Failed(v, state))
  BY DEF SameCopy, Failed
<1>2. SameCopy(v, Prepared(v)) /\ \A code : SameCopy(v, WithCode(v, code))
  BY DEF SameCopy, Prepared, WithCode
<1>3. \A path, req, replaces : SameCopy(v, WithOperation(v, path, req, replaces))
  BY DEF SameCopy, WithOperation
<1>4. \A kind, a : SameCopy(v, Remember(v, kind, a))
  BY DEF SameCopy, Remember
<1>5. \A a : SameCopy(v, Renewed(v, a))
  BY DEF SameCopy, Renewed
<1>6. /\ \A state : SameCopy(v, [v EXCEPT !.status = state])
      /\ SameCopy(v, [v EXCEPT !.sess.fresh = FALSE])
      /\ SameCopy(v, [v EXCEPT !.rot.late = TRUE])
  BY DEF SameCopy
<1> QED
  BY <1>1, <1>2, <1>3, <1>4, <1>5, <1>6

(* What the tablet sends.                                                  *)
LEMMA MessagesSent ==
  ASSUME NEW v, NEW sold \in Seq(Inst), VaultOK(v, sold)
  PROVE  /\ MessageOK(EnrollMessage(v), sold)
         /\ MessageOK(CodeMessage(v), sold)
         /\ MessageOK(RefreshMessage(v), sold)
         /\ \A req : MessageOK([action |-> "pending", req |-> req], sold)
<1>1. MessageOK(EnrollMessage(v), sold)
  BY DEF MessageOK, EnrollMessage, VaultOK
<1> QED
  BY <1>1 DEF MessageOK, CodeMessage, RefreshMessage, Bare

LEMMA MainSent ==
  ASSUME NEW i \in Inst, journal[i] \in Seq(Inst), NEW v, NEW kind
  PROVE  MessageOK(MainMessage(i, v, kind), journal[i])
<1>1. \/ MainMessage(i, v, kind).dossier = journal[i]
      \/ MainMessage(i, v, kind).dossier = <<>>
  BY DEF MainMessage
<1>2. <<>> \in Seq(Inst)
  BY EmptySeq
<1> QED
  BY <1>1, <1>2, PrefixOfItself, EmptyIsPrefix DEF MessageOK

LEMMA AskedOK ==
  ASSUME NEW sold, NEW m, MessageOK(m, sold), NEW r, NEW i, NEW kind, NEW stage, NEW retried
  PROVE  LET c == Asked(r, i, kind, stage, retried, m)
         IN  c.msg = NoMessage \/ MessageOK(c.msg, sold)
  BY DEF Asked

LEMMA RenewalStep ==
  ASSUME IInv, NEW i \in Inst, vault[i].holds, NEW r, NEW v, SameCopy(vault[i], v),
         NEW kind, NEW retried, StartOrRenew(i, r, v, kind, retried), UNCHANGED late
  PROVE  TabletStep(i)
<1>1. VaultOK(vault[i], journal[i]) /\ journal[i] \in Seq(Inst)
  BY DEF IInv, TabletsInv
<1>2. VaultOK(v, journal[i]) /\ v.holds
  BY <1>1, SameCopyOK DEF SameCopy
<1>3. /\ SameCopy(v, Prepared(v))
      /\ \A state : SameCopy(v, Failed(v, state))
  BY <1>2, VaultWrites DEF VaultOK
<1>4. VaultOK(Prepared(v), journal[i]) /\ Prepared(v).holds
  BY <1>2, <1>3, SameCopyOK DEF SameCopy
<1>5. \A state : SameCopy(Prepared(v), Failed(Prepared(v), state))
  BY <1>4, VaultWrites DEF VaultOK
<1>6. ASSUME NEW state
      PROVE  /\ VaultOK(Failed(v, state), journal[i]) /\ Failed(v, state).holds
             /\ VaultOK(Failed(Prepared(v), state), journal[i])
             /\ Failed(Prepared(v), state).holds
  <2>1. SameCopy(v, Failed(v, state)) /\ SameCopy(Prepared(v), Failed(Prepared(v), state))
    BY <1>3, <1>5
  <2>2. VaultOK(Failed(v, state), journal[i])
    BY <1>2, <2>1, SameCopyOK
  <2>3. VaultOK(Failed(Prepared(v), state), journal[i])
    BY <1>4, <2>1, SameCopyOK
  <2> QED
    BY <1>2, <1>4, <2>1, <2>2, <2>3 DEF SameCopy
<1>7. CASE \E w : /\ VaultOK(w, journal[i]) /\ w.holds
                  /\ vault' = [vault EXCEPT ![i] = w] /\ call' = [call EXCEPT ![i] = Idle]
  <2>1. Idle.msg = NoMessage
    BY DEF Idle
  <2> QED
    BY <1>7, <2>1, LocalStep
<1>8. CASE /\ vault' = [vault EXCEPT ![i] = v]
           /\ call' = [call EXCEPT ![i] =
                         Asked(r, i, kind, "main", retried, MainMessage(i, v, kind))]
  <2> DEFINE c == Asked(r, i, kind, "main", retried, MainMessage(i, v, kind))
  <2>1. c.msg = NoMessage \/ MessageOK(c.msg, journal[i])
    BY <1>1, MainSent, AskedOK
  <2> HIDE DEF c
  <2> QED
    BY <1>2, <1>8, <2>1, LocalStep DEF c
<1>9. CASE /\ vault' = [vault EXCEPT ![i] = Prepared(v)]
           /\ call' = [call EXCEPT ![i] =
                         Asked(r, i, kind, "refresh", retried, RefreshMessage(Prepared(v)))]
  <2> DEFINE c == Asked(r, i, kind, "refresh", retried, RefreshMessage(Prepared(v)))
  <2>1. c.msg = NoMessage \/ MessageOK(c.msg, journal[i])
    BY <1>1, <1>4, MessagesSent, AskedOK
  <2> HIDE DEF c
  <2> QED
    BY <1>4, <1>9, <2>1, LocalStep DEF c
<1> QED
  BY <1>6, <1>7, <1>8, <1>9 DEF StartOrRenew

-----------------------------------------------------------------------------
(* The actions of a tablet.                                                *)

LEMMA CopyOf ==
  ASSUME IInv, NEW i \in Inst, NEW w, SameCopy(vault[i], w), vault[i].holds
  PROVE  VaultOK(w, journal[i]) /\ w.holds
<1>1. VaultOK(vault[i], journal[i])
  BY DEF IInv, TabletsInv
<1> QED
  BY <1>1, SameCopyOK DEF SameCopy

LEMMA Vaults ==
  ASSUME IInv, NEW i \in Inst
  PROVE  /\ VaultOK(vault[i], journal[i]) /\ journal[i] \in Seq(Inst)
         /\ {"dossier", "holds"} \subseteq DOMAIN vault[i]
  BY DEF IInv, TabletsInv, VaultOK

LEMMA EnrollmentStep ==
  ASSUME IInv, NEW i \in Inst, vault[i].holds, NEW reconnect,
         RequestEnrollment(i, reconnect), UNCHANGED late
  PROVE  TabletStep(i)
<1> DEFINE v   == vault[i]
           new == [v EXCEPT !.enroll = @ + 1, !.dossier = journal[i], !.status = "pending",
                            !.req = 0, !.sess = NoSession, !.rot = NoRotation, !.act = NoCode]
<1>1. VaultOK(v, journal[i]) /\ journal[i] \in Seq(Inst)
  BY Vaults
<1>2. VaultOK(new, journal[i]) /\ new.holds
  <2>1. {"dossier", "holds"} \subseteq DOMAIN new /\ new.dossier = journal[i] /\ new.holds
    BY <1>1 DEF VaultOK
  <2> HIDE DEF new
  <2> QED
    BY <1>1, <2>1, PrefixOfItself DEF VaultOK
<1>3. \E w \in {v, new} : /\ vault' = [vault EXCEPT ![i] = w]
                          /\ call' = [call EXCEPT ![i] =
                                        Sent(i, "enroll", "main", FALSE, EnrollMessage(w))]
  <2>1. \/ /\ vault' = [vault EXCEPT ![i] = v]
           /\ call' = [call EXCEPT ![i] = Sent(i, "enroll", "main", FALSE, EnrollMessage(v))]
        \/ /\ vault' = [vault EXCEPT ![i] = new]
           /\ call' = [call EXCEPT ![i] = Sent(i, "enroll", "main", FALSE, EnrollMessage(new))]
    BY DEF RequestEnrollment
  <2> QED
    BY <2>1
<1> HIDE DEF new, v
<1>4. PICK w \in {v, new} :
        /\ vault' = [vault EXCEPT ![i] = w]
        /\ call' = [call EXCEPT ![i] = Sent(i, "enroll", "main", FALSE, EnrollMessage(w))]
  BY <1>3
<1>5. VaultOK(w, journal[i]) /\ w.holds
  BY <1>1, <1>2, <1>4 DEF v
<1> DEFINE c == Sent(i, "enroll", "main", FALSE, EnrollMessage(w))
<1>6. c.msg = NoMessage \/ MessageOK(c.msg, journal[i])
  BY <1>1, <1>5, MessagesSent, AskedOK DEF Sent
<1>7. call' = [call EXCEPT ![i] = c]
  BY <1>4
<1> HIDE DEF c
<1> QED
  BY <1>4, <1>5, <1>6, <1>7, LocalStep

LEMMA ActivatingStep ==
  ASSUME IInv, NEW i \in Inst, vault[i].holds, NEW code,
         Activating(i, vault[i], code), UNCHANGED late
  PROVE  TabletStep(i)
<1> DEFINE w == WithCode(vault[i], code)
           c == Sent(i, "activate", "main", FALSE, CodeMessage(w))
<1>1. vault' = [vault EXCEPT ![i] = w] /\ call' = [call EXCEPT ![i] = c]
  BY DEF Activating
<1>2. VaultOK(w, journal[i]) /\ w.holds
  BY Vaults, VaultWrites, CopyOf
<1> HIDE DEF w
<1>3. c.msg = NoMessage \/ MessageOK(c.msg, journal[i])
  BY <1>2, Vaults, MessagesSent, AskedOK DEF Sent
<1> HIDE DEF c
<1> QED
  BY <1>1, <1>2, <1>3, LocalStep

LEMMA AskEnrollmentStep ==
  ASSUME IInv, NEW i \in Inst, AskEnrollment(i)
  PROVE  IInv'
<1>1. TabletStep(i)
  BY EnrollmentStep DEF AskEnrollment, Free
<1> QED
  BY <1>1, RegistryStays, TabletStepKeeps DEF AskEnrollment

LEMMA EnterCodeStep ==
  ASSUME IInv, NEW i \in Inst, EnterCode(i)
  PROVE  IInv'
<1>1. TabletStep(i)
  BY ActivatingStep DEF EnterCode, Free
<1> QED
  BY <1>1, RegistryStays, TabletStepKeeps DEF EnterCode

LEMMA VerifyStep ==
  ASSUME IInv, NEW i \in Inst, Verify(i)
  PROVE  IInv'
<1>1. vault[i].holds /\ UNCHANGED <<reg, late, journal>>
  BY DEF Verify, Free
<1>2. CASE Activating(i, vault[i], vault[i].act)
  BY <1>1, <1>2, ActivatingStep, RegistryStays, TabletStepKeeps
<1>3. CASE RequestEnrollment(i, FALSE)
  BY <1>1, <1>3, EnrollmentStep, RegistryStays, TabletStepKeeps
<1>4. CASE /\ call' = [call EXCEPT ![i] = Sent(i, "pending", "main", FALSE,
                                               [action |-> "pending", req |-> vault[i].req])]
           /\ UNCHANGED vault
  <2> DEFINE m == [action |-> "pending", req |-> vault[i].req]
             c == Sent(i, "pending", "main", FALSE, m)
  <2>1. MessageOK(m, journal[i])
    BY DEF MessageOK, Bare
  <2> HIDE DEF m
  <2>2. c.msg = NoMessage \/ MessageOK(c.msg, journal[i])
    BY <2>1, AskedOK DEF Sent
  <2>3. call' = [call EXCEPT ![i] = c]
    BY <1>4 DEF m
  <2> HIDE DEF c
  <2> QED
    BY <1>1, <1>4, <2>2, <2>3, CallStep, RegistryStays, TabletStepKeeps
<1>5. CASE StartOrRenew(i, reg, vault[i], "status", FALSE)
  BY <1>1, <1>5, Vaults, VaultWrites, RenewalStep, RegistryStays, TabletStepKeeps
<1> QED
  BY <1>2, <1>3, <1>4, <1>5 DEF Verify

LEMMA SendSyncStep ==
  ASSUME IInv, NEW i \in Inst, SendSync(i)
  PROVE  IInv'
<1>1. TabletStep(i)
  BY Vaults, VaultWrites, RenewalStep DEF SendSync, Free
<1> QED
  BY <1>1, RegistryStays, TabletStepKeeps DEF SendSync

(* Whatever the answer.                                                    *)
LEMMA AnsweredStep ==
  ASSUME IInv, NEW i \in Inst, vault[i].holds, NEW r, NEW a, Answered(i, r, a), UNCHANGED late
  PROVE  TabletStep(i)
<1>1. {"dossier", "holds"} \subseteq DOMAIN vault[i]
  BY Vaults
<1>2. /\ SameCopy(vault[i], Renewed(vault[i], a))
      /\ SameCopy(vault[i], [vault[i] EXCEPT !.sess.fresh = FALSE])
      /\ SameCopy(vault[i], Remember(vault[i], call[i].kind, a))
      /\ SameCopy(vault[i], Failed(vault[i], Translated(a.code)))
  BY <1>1, VaultWrites
<1>3. CASE StartOrRenew(i, r, Renewed(vault[i], a), call[i].kind, call[i].retried)
  BY <1>2, <1>3, RenewalStep
<1>4. CASE StartOrRenew(i, r, [vault[i] EXCEPT !.sess.fresh = FALSE], "sync", TRUE)
  BY <1>2, <1>4, RenewalStep
<1>5. ASSUME NEW w \in {Remember(vault[i], call[i].kind, a),
                        Failed(vault[i], Translated(a.code))},
             vault' = [vault EXCEPT ![i] = w], call' = [call EXCEPT ![i] = Idle]
      PROVE  TabletStep(i)
  <2>1. VaultOK(w, journal[i]) /\ w.holds
    BY <1>2, <1>5, CopyOf
  <2>2. Idle.msg = NoMessage
    BY DEF Idle
  <2> QED
    BY <1>5, <2>1, <2>2, LocalStep
<1> QED
  BY <1>3, <1>4, <1>5 DEF Answered

(* An operation under way is that of a tablet with a copy of the chain.    *)
LEMMA CallerHolds ==
  ASSUME IInv, NEW i \in Inst
  PROVE  /\ call[i].msg # NoMessage => vault[i].holds
         /\ call[i].ans # NoAnswer => vault[i].holds
         /\ call[i] # Idle => vault[i].holds
         /\ late[i] # {} => vault[i].holds
         /\ reg.req[i].status # "none" => vault[i].holds
         /\ reg.inst[i].active => vault[i].holds
<1> SUFFICES ASSUME ~vault[i].holds
             PROVE  /\ call[i] = Idle /\ call[i].msg = NoMessage /\ call[i].ans = NoAnswer
                    /\ late[i] = {} /\ reg.req[i].status = "none" /\ ~reg.inst[i].active
  OBVIOUS
<1>1. call[i] = Idle /\ late[i] = {} /\ Blank(reg, i)
  BY DEF IInv, EmptyInv
<1>2. Idle.msg = NoMessage /\ Idle.ans = NoAnswer
  BY DEF Idle
<1> QED
  BY <1>1, <1>2 DEF Blank

LEMMA RefusedStep ==
  ASSUME IInv, NEW i \in Inst, Refused(i)
  PROVE  IInv'
<1>1. TabletStep(i)
  BY CallerHolds, AnsweredStep DEF Refused
<1> QED
  BY <1>1, RegistryStays, TabletStepKeeps DEF Refused

-----------------------------------------------------------------------------
(* The actions of a manager.                                               *)

LEMMA ApproveStep ==
  ASSUME IInv, NEW i \in Inst, NEW replaces, Approve(i, replaces)
  PROVE  IInv'
<1> DEFINE w    == WithOperation(vault[i], "approve", vault[i].req, replaces)
           done == Decide(reg, i, [req |-> w.req, op |-> w.manager.op, approve |-> TRUE,
                                   replaces |-> replaces])
           x    == WithCode(w, done.ans.invitation)
           c    == Asked(done.reg, i, "activate", "main", FALSE, CodeMessage(x))
           y    == [w EXCEPT !.manager = NoOperation]
<1>1. /\ vault[i].holds /\ UNCHANGED <<late, journal>> /\ reg' = done.reg
      /\ \/ vault' = [vault EXCEPT ![i] = x] /\ call' = [call EXCEPT ![i] = c]
         \/ vault' = [vault EXCEPT ![i] = y] /\ UNCHANGED call
         \/ vault' = [vault EXCEPT ![i] = w] /\ UNCHANGED call
  BY DEF Approve, Free
<1>2. SameCopy(vault[i], w)
  BY Vaults, VaultWrites
<1>3. RegistryInv(reg', journal) /\ Kept(reg, reg', i)
  BY <1>1, DecideKeeps DEF IInv
<1> HIDE DEF w, done
<1>4. SameCopy(vault[i], x) /\ SameCopy(vault[i], y)
  BY <1>2 DEF SameCopy, WithCode
<1> HIDE DEF x, y
<1>5. /\ VaultOK(w, journal[i]) /\ w.holds
      /\ VaultOK(x, journal[i]) /\ x.holds
      /\ VaultOK(y, journal[i]) /\ y.holds
  BY <1>1, <1>2, <1>4, CopyOf
<1>6. c.msg = NoMessage \/ MessageOK(c.msg, journal[i])
  BY <1>5, Vaults, MessagesSent, AskedOK
<1> HIDE DEF c
<1>7. TabletStep(i)
  BY <1>1, <1>5, <1>6, LocalStep, VaultStep
<1> QED
  BY <1>1, <1>3, <1>7, TabletStepKeeps

(* The manager's operation is written in the vault, and perhaps a status.  *)
LEMMA OperationStep ==
  ASSUME IInv, NEW i \in Inst, vault[i].holds, NEW path, NEW request, NEW state,
         LET w == WithOperation(vault[i], path, request, NoInst)
         IN  \/ vault' = [vault EXCEPT ![i] = [w EXCEPT !.status = state]]
             \/ vault' = [vault EXCEPT ![i] = w],
         UNCHANGED <<call, late>>
  PROVE  TabletStep(i)
<1> DEFINE w == WithOperation(vault[i], path, request, NoInst)
           x == [w EXCEPT !.status = state]
<1>1. vault' = [vault EXCEPT ![i] = x] \/ vault' = [vault EXCEPT ![i] = w]
  OBVIOUS
<1>2. SameCopy(vault[i], w)
  BY Vaults, VaultWrites
<1> HIDE DEF w
<1>3. SameCopy(vault[i], x)
  BY <1>2 DEF SameCopy
<1> HIDE DEF x
<1>4. /\ VaultOK(w, journal[i]) /\ w.holds
      /\ VaultOK(x, journal[i]) /\ x.holds
  BY <1>2, <1>3, CopyOf
<1> QED
  BY <1>1, <1>4, VaultStep

LEMMA RejectStep ==
  ASSUME IInv, NEW i \in Inst, Reject(i)
  PROVE  IInv'
<1>1. TabletStep(i)
  BY OperationStep DEF Reject, Free
<1>2. RegistryInv(reg', journal) /\ Kept(reg, reg', i)
  BY DecideKeeps DEF IInv, Reject
<1> QED
  BY <1>1, <1>2, TabletStepKeeps DEF Reject

LEMMA RevokeHereStep ==
  ASSUME IInv, NEW i \in Inst, RevokeHere(i)
  PROVE  IInv'
<1>1. TabletStep(i)
  BY OperationStep DEF RevokeHere, Free
<1>2. RegistryInv(reg', journal) /\ Kept(reg, reg', i)
  BY RevokeKeeps DEF IInv, RevokeHere
<1> QED
  BY <1>1, <1>2, TabletStepKeeps DEF RevokeHere

LEMMA ApproveElsewhereStep ==
  ASSUME IInv, NEW i \in Inst, NEW replaces, ApproveElsewhere(i, replaces)
  PROVE  IInv'
<1>1. vault[i].holds /\ UNCHANGED <<vault, call, late, journal>>
  BY CallerHolds DEF ApproveElsewhere
<1>2. TabletStep(i)
  BY <1>1, NothingMoves
<1>3. RegistryInv(reg', journal) /\ Kept(reg, reg', i)
  BY DecideKeeps DEF IInv, ApproveElsewhere
<1> QED
  BY <1>1, <1>2, <1>3, TabletStepKeeps

LEMMA RevokeElsewhereStep ==
  ASSUME IInv, NEW i \in Inst, RevokeElsewhere(i)
  PROVE  IInv'
<1>1. vault[i].holds /\ UNCHANGED <<vault, call, late, journal>>
  BY CallerHolds DEF RevokeElsewhere
<1>2. TabletStep(i)
  BY <1>1, NothingMoves
<1>3. RegistryInv(reg', journal) /\ Kept(reg, reg', i)
  BY RevokeKeeps DEF IInv, RevokeElsewhere
<1> QED
  BY <1>1, <1>2, <1>3, TabletStepKeeps

-----------------------------------------------------------------------------
(* The network, time and the journals.                                     *)

LEMMA HandledStep ==
  ASSUME IInv, NEW i \in Inst, NEW m, MessageOK(m, journal[i]), reg' = Handle(reg, i, m).reg
  PROVE  RegistryInv(reg', journal) /\ Kept(reg, reg', i)
<1>1. journal \in [Inst -> Seq(Inst)] /\ RegistryInv(reg, journal)
  BY DEF IInv, TabletsInv
<1> QED
  BY <1>1, HandleKeeps

LEMMA ServeStep ==
  ASSUME IInv, NEW i \in Inst, Serve(i)
  PROVE  IInv'
<1> DEFINE h == Handle(reg, i, call[i].msg)
<1>1. /\ call[i].msg # NoMessage /\ vault[i].holds /\ UNCHANGED <<late, journal>>
      /\ reg' = h.reg
      /\ \/ Answered(i, h.reg, h.ans)
         \/ call' = [call EXCEPT ![i] = Idle] /\ UNCHANGED vault
  BY CallerHolds DEF Serve
<1>2. RegistryInv(reg', journal) /\ Kept(reg, reg', i)
  <2>1. MessageOK(call[i].msg, journal[i])
    BY <1>1 DEF IInv, TabletsInv
  <2> QED
    BY <1>1, <2>1, HandledStep
<1> HIDE DEF h
<1>3. TabletStep(i)
  <2>1. Idle.msg = NoMessage
    BY DEF Idle
  <2> QED
    BY <1>1, <2>1, AnsweredStep, CallStep
<1> QED
  BY <1>1, <1>2, <1>3, TabletStepKeeps

LEMMA AbandonStep ==
  ASSUME IInv, NEW i \in Inst, Abandon(i)
  PROVE  IInv'
<1>1. vault[i].holds /\ UNCHANGED <<reg, vault, journal>> /\ call' = [call EXCEPT ![i] = Idle]
  BY CallerHolds DEF Abandon
<1>2. \/ UNCHANGED late
      \/ call[i].msg # NoMessage /\ late' = [late EXCEPT ![i] = @ \cup {call[i].msg}]
  BY DEF Abandon
<1>3. /\ DOMAIN call' = Inst /\ DOMAIN late' = Inst /\ DOMAIN vault' = Inst
      /\ Others(i)
      /\ call'[i].msg = NoMessage
      /\ \A m \in late'[i] : MessageOK(m, journal[i])
    BY <1>1, <1>2 DEF IInv, TabletsInv, Others, Idle
<1>4. TabletStep(i)
  BY <1>1, <1>3 DEF TabletStep, IInv, TabletsInv
<1> QED
  BY <1>1, <1>4, RegistryStays, TabletStepKeeps

LEMMA ServeLateStep ==
  ASSUME IInv, NEW i \in Inst, ServeLate(i)
  PROVE  IInv'
<1>1. PICK m \in late[i] : /\ late' = [late EXCEPT ![i] = @ \ {m}]
                           /\ reg' = Handle(reg, i, m).reg
                           /\ UNCHANGED <<vault, call, journal, trouble>>
  BY DEF ServeLate
<1>2. vault[i].holds /\ MessageOK(m, journal[i])
  BY CallerHolds DEF IInv, TabletsInv
<1>3. TabletStep(i)
  BY <1>1, <1>2 DEF TabletStep, Others, IInv, TabletsInv
<1>4. RegistryInv(reg', journal) /\ Kept(reg, reg', i)
  BY <1>1, <1>2, HandledStep
<1> QED
  BY <1>1, <1>3, <1>4, TabletStepKeeps

(* Fields of a vault that say nothing of its copy change.                  *)
LEMMA ClockStep ==
  ASSUME IInv, NEW i \in Inst, NEW w, SameCopy(vault[i], w),
         vault' = [vault EXCEPT ![i] = w], UNCHANGED <<reg, call, late, journal>>
  PROVE  IInv'
<1>1. /\ DOMAIN vault' = Inst
      /\ \A j \in Inst : vault'[j] = IF j = i THEN w ELSE vault[j]
  BY DEF IInv, TabletsInv
<1>2. VaultOK(w, journal[i]) /\ w.holds = vault[i].holds
  BY Vaults, SameCopyOK DEF SameCopy
<1>3. TabletsInv'
  BY <1>1, <1>2 DEF IInv, TabletsInv
<1>4. EmptyInv'
  <2>1. \A j \in Inst : vault'[j].holds = vault[j].holds
    BY <1>1, <1>2
  <2> QED
    BY <2>1 DEF IInv, EmptyInv, Blank
<1> QED
  BY <1>3, <1>4 DEF IInv

LEMMA AccessExpiresStep ==
  ASSUME IInv, NEW i \in Inst, AccessExpires(i)
  PROVE  IInv'
<1> DEFINE w == [vault[i] EXCEPT !.sess.fresh = FALSE]
<1>1. SameCopy(vault[i], w)
  BY Vaults, VaultWrites
<1>2. vault' = [vault EXCEPT ![i] = w] /\ UNCHANGED <<reg, call, late, journal>>
  BY DEF AccessExpires
<1> HIDE DEF w
<1> QED
  BY <1>1, <1>2, ClockStep

(* The registry alone changes, whichever tablet it is about.               *)
LEMMA RegistryStep ==
  ASSUME IInv, NEW i \in Inst, RegistryInv(reg', journal), Kept(reg, reg', i),
         vault[i].holds \/ (reg'.req = reg.req /\ reg'.inst = reg.inst),
         UNCHANGED <<vault, call, late, journal>>
  PROVE  IInv'
<1>1. CASE vault[i].holds
  BY <1>1, NothingMoves, TabletStepKeeps
<1>2. CASE reg'.req = reg.req /\ reg'.inst = reg.inst
  <2>1. EmptyInv' /\ TabletsInv'
    BY <1>2 DEF IInv, EmptyInv, Blank, TabletsInv
  <2> QED
    BY <2>1 DEF IInv
<1> QED
  BY <1>1, <1>2

LEMMA ElapseStep ==
  ASSUME IInv, Elapse
  PROVE  IInv'
<1>1. UNCHANGED <<call, late, journal>> /\ Outlived
  BY DEF Elapse
<1>2. ASSUME NEW i \in Inst, vault' = [vault EXCEPT ![i].rot.late = TRUE], UNCHANGED reg
      PROVE  IInv'
  <2> DEFINE w == [vault[i] EXCEPT !.rot.late = TRUE]
  <2>1. SameCopy(vault[i], w)
    BY Vaults, VaultWrites
  <2>2. vault' = [vault EXCEPT ![i] = w]
    BY <1>2
  <2> HIDE DEF w
  <2> QED
    BY <1>1, <1>2, <2>1, <2>2, ClockStep
<1>3. ASSUME NEW i \in Inst, NEW s \in DOMAIN reg.sess, NEW k,
             reg' = [reg EXCEPT !.sess[s].rots[k].dead = TRUE], UNCHANGED vault
      PROVE  IInv'
  <2> DEFINE rots == [reg.sess[s].rots EXCEPT ![k].dead = TRUE]
             S    == [reg.sess EXCEPT ![s] = [@ EXCEPT !.rots = rots]]
  <2>1. \A t \in DOMAIN reg.sess : SessionOK(reg.sess[t])
    BY DEF IInv, RegistryInv, RegistryOK
  <2>2. reg' = [reg EXCEPT !.sess = S]
    BY <1>3 DEF IInv, RegistryInv, RegistryOK
  <2> HIDE DEF rots
  <2>3. /\ DOMAIN S = DOMAIN reg.sess
        /\ S = [t \in DOMAIN reg.sess |-> S[t]]
        /\ \A t \in DOMAIN reg.sess :
             /\ SessionOK(S[t])
             /\ S[t].inst = reg.sess[t].inst /\ S[t].gen = reg.sess[t].gen
             /\ S[t].active => reg.sess[t].active
    BY <2>1 DEF SessionOK
  <2> HIDE DEF S
  <2>4. RegistryInv(reg', journal) /\ Kept(reg, reg', i)
    BY <2>2, <2>3, SessionsChange DEF IInv
  <2>5. reg'.req = reg.req /\ reg'.inst = reg.inst
    BY <2>2 DEF IInv, RegistryInv, RegistryOK
  <2> QED
    BY <1>1, <1>3, <2>4, <2>5, RegistryStep
<1>4. ASSUME NEW i \in Inst, reg.req[i].status # "none", UNCHANGED vault,
             NEW q, reg' = [reg EXCEPT !.req[i] = q],
             {"dossier", "status", "pinnedGen", "pinnedInst"} \subseteq DOMAIN q,
             q.dossier = reg.req[i].dossier, q.status = reg.req[i].status,
             q.pinnedGen = reg.req[i].pinnedGen
      PROVE  IInv'
  <2>1. RequestOK(q) /\ IsPrefix(q.dossier, journal[i])
    BY <1>4 DEF IInv, RegistryInv, RegistryOK, RequestOK, Continues
  <2>2. q.status = "approved" => q.pinnedGen # 0
    BY <1>4 DEF IInv, RegistryInv, OneWriter
  <2>3. RegistryInv(reg', journal) /\ Kept(reg, reg', i)
    BY <1>4, <2>1, <2>2, RequestsChange DEF IInv
  <2>4. vault[i].holds
    BY <1>4, CallerHolds
  <2> QED
    BY <1>1, <1>4, <2>3, <2>4, RegistryStep
<1>5. ASSUME NEW i \in Inst, reg.req[i].status # "none", UNCHANGED vault,
             \/ reg' = [reg EXCEPT !.req[i].sealDead = TRUE]
             \/ reg' = [reg EXCEPT !.req[i].codeDead = TRUE]
             \/ reg' = [reg EXCEPT !.req[i].dead = TRUE]
      PROVE  IInv'
  <2>1. {"dossier", "status", "pinnedGen", "pinnedInst"} \subseteq DOMAIN reg.req[i]
    BY DEF IInv, RegistryInv, RegistryOK, RequestOK
  <2>2. CASE reg' = [reg EXCEPT !.req[i].sealDead = TRUE]
    <3> DEFINE q == [reg.req[i] EXCEPT !.sealDead = TRUE]
    <3>1. reg' = [reg EXCEPT !.req[i] = q]
      BY <2>2
    <3>2. /\ {"dossier", "status", "pinnedGen", "pinnedInst"} \subseteq DOMAIN q
          /\ q.dossier = reg.req[i].dossier /\ q.status = reg.req[i].status
          /\ q.pinnedGen = reg.req[i].pinnedGen
      BY <2>1
    <3> HIDE DEF q
    <3> QED
      BY <1>4, <1>5, <3>1, <3>2
  <2>3. CASE reg' = [reg EXCEPT !.req[i].codeDead = TRUE]
    <3> DEFINE q == [reg.req[i] EXCEPT !.codeDead = TRUE]
    <3>1. reg' = [reg EXCEPT !.req[i] = q]
      BY <2>3
    <3>2. /\ {"dossier", "status", "pinnedGen", "pinnedInst"} \subseteq DOMAIN q
          /\ q.dossier = reg.req[i].dossier /\ q.status = reg.req[i].status
          /\ q.pinnedGen = reg.req[i].pinnedGen
      BY <2>1
    <3> HIDE DEF q
    <3> QED
      BY <1>4, <1>5, <3>1, <3>2
  <2>4. CASE reg' = [reg EXCEPT !.req[i].dead = TRUE]
    <3> DEFINE q == [reg.req[i] EXCEPT !.dead = TRUE]
    <3>1. reg' = [reg EXCEPT !.req[i] = q]
      BY <2>4
    <3>2. /\ {"dossier", "status", "pinnedGen", "pinnedInst"} \subseteq DOMAIN q
          /\ q.dossier = reg.req[i].dossier /\ q.status = reg.req[i].status
          /\ q.pinnedGen = reg.req[i].pinnedGen
      BY <2>1
    <3> HIDE DEF q
    <3> QED
      BY <1>4, <1>5, <3>1, <3>2
  <2> QED
    BY <1>5, <2>2, <2>3, <2>4
<1> QED
  BY <1>1, <1>2, <1>3, <1>5 DEF Outlived

(* A sale: what was the beginning of the journal still is.                 *)
LEMMA SellStep ==
  ASSUME IInv, NEW i \in Inst, Sell(i)
  PROVE  IInv'
<1>1. UNCHANGED <<reg, vault, call, late>> /\ journal' = [journal EXCEPT ![i] = Append(@, i)]
  BY DEF Sell
<1>2. journal \in [Inst -> Seq(Inst)]
  BY DEF IInv, TabletsInv
<1>3. journal' \in [Inst -> Seq(Inst)]
  BY <1>1, <1>2, AppendProperties
<1>4. ASSUME NEW s \in Seq(Inst), NEW j \in Inst, IsPrefix(s, journal[j])
      PROVE  IsPrefix(s, journal'[j])
  BY <1>1, <1>2, <1>4, PrefixOfAppend
<1>5. RegistryInv(reg', journal')
  <2>1. Continues(reg', journal')
    BY <1>1, <1>4 DEF IInv, RegistryInv, RegistryOK, RequestOK, Continues
  <2> QED
    BY <1>1, <2>1 DEF IInv, RegistryInv
<1>6. TabletsInv'
  <2>1. \A j \in Inst : VaultOK(vault'[j], journal'[j])
    BY <1>1, <1>4 DEF IInv, TabletsInv, VaultOK
  <2>2. \A j \in Inst : /\ call'[j].msg = NoMessage \/ MessageOK(call'[j].msg, journal'[j])
                        /\ \A m \in late'[j] : MessageOK(m, journal'[j])
    BY <1>1, <1>4 DEF IInv, TabletsInv, MessageOK
  <2> QED
    BY <1>1, <1>3, <2>1, <2>2 DEF IInv, TabletsInv
<1>7. EmptyInv'
  BY <1>1 DEF IInv, EmptyInv, Blank
<1> QED
  BY <1>5, <1>6, <1>7 DEF IInv

(* A backup restored where nothing was asked yet.                          *)
LEMMA RestoreStep ==
  ASSUME IInv, NEW i \in Inst, NEW j \in Inst, Restore(i, j)
  PROVE  IInv'
<1> DEFINE w == [NewVault EXCEPT !.holds = TRUE, !.restored = TRUE]
<1>1. PICK n \in 0 .. Len(journal[i]) :
        journal' = [journal EXCEPT ![j] = SubSeq(journal[i], 1, n)]
  BY DEF Restore
<1>2. /\ ~vault[j].holds /\ vault' = [vault EXCEPT ![j] = w]
      /\ UNCHANGED <<reg, call, late>>
  BY DEF Restore
<1>3. journal \in [Inst -> Seq(Inst)]
  BY DEF IInv, TabletsInv
<1>4. SubSeq(journal[i], 1, n) \in Seq(Inst)
  <2>1. n \in Int /\ Len(journal[i]) \in Nat /\ n <= Len(journal[i])
    BY <1>3, LenProperties
  <2>2. \A k \in 1..n : journal[i][k] \in Inst
    BY <1>3, <2>1, ElementOfSeq
  <2> QED
    BY <2>1, <2>2, SubSeqProperties
<1>5. /\ journal' \in [Inst -> Seq(Inst)]
      /\ \A k \in Inst \ {j} : journal'[k] = journal[k]
  BY <1>1, <1>3, <1>4
<1>6. call[j] = Idle /\ late[j] = {} /\ Blank(reg, j)
  BY <1>2 DEF IInv, EmptyInv
<1>7. <<>> \in Seq(Inst) /\ IsPrefix(<<>>, journal'[j])
  BY <1>5, EmptySeq, EmptyIsPrefix
<1>8. RegistryInv(reg', journal')
  <2>1. Continues(reg', journal')
    BY <1>2, <1>5, <1>6, <1>7 DEF IInv, RegistryInv, Continues, Blank
  <2> QED
    BY <1>2, <2>1 DEF IInv, RegistryInv
<1>9. /\ DOMAIN vault' = Inst /\ vault'[j] = w
      /\ \A k \in Inst \ {j} : vault'[k] = vault[k]
  BY <1>2 DEF IInv, TabletsInv
<1>10. VaultOK(w, journal'[j]) /\ w.holds
  BY <1>7 DEF VaultOK, NewVault
<1> HIDE DEF w
<1>11. TabletsInv'
  <2>1. ASSUME NEW k \in Inst
        PROVE  /\ VaultOK(vault'[k], journal'[k])
               /\ call'[k].msg = NoMessage \/ MessageOK(call'[k].msg, journal'[k])
               /\ \A m \in late'[k] : MessageOK(m, journal'[k])
    <3>1. CASE k = j
      <4>1. call'[j].msg = NoMessage /\ late'[j] = {}
        BY <1>2, <1>6 DEF Idle
      <4> QED
        BY <1>9, <1>10, <3>1, <4>1
    <3>2. CASE k # j
      BY <1>2, <1>5, <1>9, <3>2 DEF IInv, TabletsInv
    <3> QED
      BY <3>1, <3>2
  <2> QED
    BY <1>2, <1>5, <1>9, <2>1 DEF IInv, TabletsInv
<1>12. EmptyInv'
  BY <1>2, <1>9, <1>10 DEF IInv, EmptyInv, Blank
<1> QED
  BY <1>8, <1>11, <1>12 DEF IInv

-----------------------------------------------------------------------------
(* The theorems                                                            *)

(* Nobody is enrolled at first.                                            *)
LEMMA InitIInv == Init => IInv
<1> SUFFICES ASSUME Init PROVE IInv
  OBVIOUS
<1>1. PICK i \in Inst : vault = [j \in Inst |-> [NewVault EXCEPT !.holds = (j = i)]]
  BY DEF Init
<1>2. /\ reg = EmptyRegistry /\ call = [j \in Inst |-> Idle]
      /\ late = [j \in Inst |-> {}] /\ journal = [j \in Inst |-> <<>>]
  BY DEF Init
<1>3. <<>> \in Seq(Inst) /\ IsPrefix(<<>>, <<>>) /\ IsSeq(<<>>)
  BY EmptySeq, EmptyIsPrefix DEF IsSeq
<1>4. /\ reg.gen = 0 /\ reg.ledger = <<>> /\ reg.sess = <<>>
      /\ reg.inst = [j \in Inst |-> NoInstallation] /\ reg.req = [j \in Inst |-> NoRequest]
      /\ DOMAIN reg = {"gen", "ledger", "sess", "audits", "inst", "req"}
  BY <1>2 DEF EmptyRegistry
<1>5. /\ RequestOK(NoRequest) /\ NoRequest.dossier = <<>> /\ NoRequest.status = "none"
      /\ NoInstallation \in [gen : Nat, active : BOOLEAN, auth : Statuses]
      /\ ~NoInstallation.active
  BY <1>3 DEF RequestOK, NoRequest, NoInstallation, Statuses
<1>6. DOMAIN reg.sess = {}
  BY <1>4
<1>7. RegistryOK(reg)
  BY <1>3, <1>4, <1>5, <1>6 DEF RegistryOK
<1>8. OneWriter(reg) /\ Continues(reg, journal)
  BY <1>2, <1>3, <1>4, <1>5, <1>6 DEF OneWriter, Continues
<1>9. TabletsInv
  BY <1>1, <1>2, <1>3 DEF TabletsInv, VaultOK, NewVault, Idle
<1>10. EmptyInv
  BY <1>2, <1>4, <1>5 DEF EmptyInv, Blank
<1> QED
  BY <1>7, <1>8, <1>9, <1>10 DEF IInv, RegistryInv

(* Every action keeps the invariant.                                       *)
LEMMA NextIInv == IInv /\ [Next]_vars => IInv'
<1> SUFFICES ASSUME IInv, [Next]_vars PROVE IInv'
  OBVIOUS
<1>1. CASE UNCHANGED vars
  BY <1>1 DEF vars, IInv, TabletsInv, EmptyInv, Blank
<1>2. ASSUME NEW i \in Inst, Tablet(i)
      PROVE  IInv'
  BY <1>2, AskEnrollmentStep, EnterCodeStep, VerifyStep, SendSyncStep, RefusedStep DEF Tablet
<1>3. ASSUME NEW i \in Inst, Manager(i)
      PROVE  IInv'
  BY <1>3, ApproveStep, ApproveElsewhereStep, RejectStep, RevokeHereStep, RevokeElsewhereStep
     DEF Manager
<1>4. ASSUME NEW i \in Inst, World(i)
      PROVE  IInv'
  BY <1>4, ServeStep, AbandonStep, ServeLateStep, AccessExpiresStep, SellStep DEF World
<1> QED
  BY <1>1, <1>2, <1>3, <1>4, RestoreStep, ElapseStep DEF Next

LEMMA Invariance == Spec => []IInv
  BY InitIInv, NextIInv, PTL DEF Spec

(* One installation at a time may write the chain, and only with a session *)
(* of its present generation: however approvals, activations, revocations  *)
(* and requests that arrive late are interleaved (activate, decide, revoke *)
(* and refresh of tablet-auth/service.ts).                                 *)
THEOREM OneInstallationWrites == Spec => []OneUploader
<1>1. IInv => OneUploader
  BY DEF IInv, RegistryInv, OneWriter, OneUploader
<1> QED
  BY <1>1, Invariance, PTL

(* What the server has of the chain is the beginning of the journal of the *)
(* installation it authorizes, forks and old backups included              *)
(* (checkContinuity and protectedTablet of tablet-auth/service.ts).        *)
THEOREM ServerContinuesTheAuthorized == Spec => []AuthorizedContinues
<1>1. IInv => AuthorizedContinues
  BY DEF IInv, RegistryInv, Continues, AuthorizedContinues
<1> QED
  BY <1>1, Invariance, PTL

-----------------------------------------------------------------------------
(* Sessions.  What the registry keeps of a session, what a vault keeps of  *)
(* it and what a refresh carries are tied together: a rotation is named by *)
(* the token it uses up, so the server knows a repetition from a theft.    *)

Rotation == [id : Nat, dead : BOOLEAN]
Held(r, i, s) == s \in DOMAIN r.sess /\ r.sess[s].inst = i

(* Every rotation is the one prepared for its token; an active             *)
(* installation has a session; an activated request opened one.            *)
RotationsOK(r) ==
  \A s \in DOMAIN r.sess :
    /\ r.sess[s].rots \in Seq(Rotation)
    /\ \A n \in 1..Len(r.sess[s].rots) : r.sess[s].rots[n].id = n
OneSession(r) ==
  \A i \in Inst : r.inst[i].active => \E s \in DOMAIN r.sess : LiveSessions(r, i) = {s}
Numbered(r, i) ==
  LET q == r.req[i] IN
  /\ {"id", "op", "sid"} \subseteq DOMAIN q
  /\ q.id \in Nat /\ q.op \in Nat
  /\ q.status # "none" => q.id # 0
  /\ q.status = "activated" => Held(r, i, q.sid)
SessionsOK(r) == RotationsOK(r) /\ OneSession(r) /\ \A i \in Inst : Numbered(r, i)

(* The token of a vault v, among the rotations of its session: the latest, *)
(* or used up by the rotation the vault holds.                             *)
Follows(v, rots) ==
  \/ v.sess.k = Len(rots)
  \/ /\ v.sess.k = Len(rots) - 1 /\ v.rot # NoRotation
     /\ rots[Len(rots)].dead => v.rot.late

VaultType(v) ==
  /\ {"status", "enroll", "dossier", "restored", "req", "act", "sess", "rot", "manager",
      "ops", "holds"} \subseteq DOMAIN v
  /\ v.enroll \in Nat /\ v.req \in Nat
  /\ v.sess \in [sid : Nat, k : Nat, fresh : BOOLEAN]
  /\ v.rot \in [id : Nat, k : Nat, late : BOOLEAN]

(* The request a vault follows, among those its installation made.         *)
VaultRequest(r, i, v) ==
  LET q == r.req[i] IN
  /\ ~v.holds => v.enroll = 0
  /\ v.req <= q.id /\ q.op <= v.enroll
  /\ v.req # 0 /\ v.req = q.id => q.op = v.enroll

VaultSession(r, i, v) ==
  /\ v.sess = NoSession => v.rot = NoRotation
  /\ v.sess # NoSession =>
       /\ Held(r, i, v.sess.sid)
       /\ v.req = r.req[i].id => r.req[i].status = "activated"
       /\ v.status \notin {"pending", "invitation_expired"}
       /\ v.rot # NoRotation => v.rot.k = v.sess.k /\ v.rot.id = v.sess.k + 1
       /\ Follows(v, r.sess[v.sess.sid].rots)

VaultInv(r, i, v) == VaultType(v) /\ VaultRequest(r, i, v) /\ VaultSession(r, i, v)

(* An operation under way, by its kind.                                    *)
Enrolling(v, c) ==
  /\ v.sess = NoSession /\ c.stage = "main" /\ c.ans.code # "OK"
  /\ \/ c.kind = "enroll" /\ c.msg \in {NoMessage, EnrollMessage(v)}
     \/ c.kind = "activate" /\ c.msg \in {NoMessage, CodeMessage(v)}
     \/ c.kind = "pending" /\ c.msg \in {NoMessage, [action |-> "pending", req |-> v.req]}
GuardCodes == {"ACCESS_REVOKED", "AUTH_REQUIRED"}
UsingSession(v, c) ==
  /\ v.sess # NoSession /\ c.kind \in {"status", "sync"}
  /\ c.ans.code \in {"none"} \cup GuardCodes
  /\ \/ c.stage = "main" /\ (c.msg = NoMessage \/ c.msg.action = c.kind)
     \/ c.stage = "refresh" /\ v.rot # NoRotation /\ c.msg \in {NoMessage, RefreshMessage(v)}
CallInv(v, c) == c = Idle \/ Enrolling(v, c) \/ UsingSession(v, c)

(* A message that may still arrive: a request is not ahead of its vault, a *)
(* rotation is for a token the vault has left or is leaving.               *)
RotationSent(r, i, v, m) ==
  /\ Held(r, i, m.sid) /\ m.k \in Nat /\ m.rid = m.k + 1
  /\ m.k <= Len(r.sess[m.sid].rots)
  /\ v.sess.sid = m.sid => m.k < v.sess.k \/ (m.k = v.sess.k /\ v.rot # NoRotation)
  /\ v.sess = NoSession /\ r.req[i].status = "activated" /\ r.req[i].op = v.enroll
       => r.req[i].sid # m.sid
MsgInv(r, i, v, m) ==
  /\ m.action = "request" => m.op \in Nat /\ m.op <= v.enroll
  /\ m.action = "refresh" => RotationSent(r, i, v, m)

SessInv ==
  /\ SessionsOK(reg)
  /\ \A i \in Inst :
       /\ VaultInv(reg, i, vault[i]) /\ CallInv(vault[i], call[i])
       /\ \A m \in late[i] : MsgInv(reg, i, vault[i], m)

(* What a step of another installation leaves of the registry for j.       *)
Untouched(r, q, j) ==
  /\ \A s \in DOMAIN r.sess :
       /\ s \in DOMAIN q.sess /\ q.sess[s].inst = r.sess[s].inst
       /\ r.sess[s].inst = j => q.sess[s].rots = r.sess[s].rots
  /\ q.req[j].id = r.req[j].id /\ q.req[j].op = r.req[j].op /\ q.req[j].sid = r.req[j].sid
  /\ q.req[j].status = "activated" <=> r.req[j].status = "activated"

LEMMA UntouchedVault ==
  ASSUME NEW r, NEW q, NEW j, Untouched(r, q, j), NEW v, VaultInv(r, j, v)
  PROVE  VaultInv(q, j, v)
<1>1. VaultRequest(q, j, v)
  BY DEF VaultInv, VaultRequest, Untouched
<1>2. VaultSession(q, j, v)
  BY DEF VaultInv, VaultSession, Untouched, Held
<1> QED
  BY <1>1, <1>2 DEF VaultInv

LEMMA UntouchedMessage ==
  ASSUME NEW r, NEW q, NEW j, Untouched(r, q, j), NEW v, NEW m, MsgInv(r, j, v, m)
  PROVE  MsgInv(q, j, v, m)
<1>1. ASSUME RotationSent(r, j, v, m) PROVE RotationSent(q, j, v, m)
  BY <1>1 DEF RotationSent, Untouched, Held
<1> QED
  BY <1>1 DEF MsgInv

(* What the server does for installation i, whose vault is v.              *)
Served(r, q, i, v) ==
  /\ SessionsOK(q) /\ VaultInv(q, i, v)
  /\ \A m : MsgInv(r, i, v, m) => MsgInv(q, i, v, m)
  /\ \A j \in Inst \ {i} : Untouched(r, q, j)

LEMMA NothingServed ==
  ASSUME NEW r, SessionsOK(r), NEW i, NEW v, VaultInv(r, i, v)
  PROVE  Served(r, r, i, v)
  BY DEF Served, Untouched

LEMMA ServedUntouched ==
  ASSUME NEW r, NEW q, NEW i, NEW v, VaultInv(r, i, v), SessionsOK(q),
         Untouched(r, q, i), \A j \in Inst \ {i} : Untouched(r, q, j)
  PROVE  Served(r, q, i, v)
  BY UntouchedVault, UntouchedMessage DEF Served

(* A request changes and the sessions do not: the present request by       *)
(* another of the same standing, or a new one.                             *)
LEMMA RequestServed ==
  ASSUME NEW J, NEW r, RegistryInv(r, J), SessionsOK(r), NEW i \in Inst,
         NEW v, VaultInv(r, i, v),
         NEW q, q.sess = r.sess, q.inst = r.inst, NEW new, q.req = [r.req EXCEPT ![i] = new],
         {"id", "op", "sid"} \subseteq DOMAIN new,
         \/ /\ new.id = r.req[i].id /\ new.op = r.req[i].op /\ new.sid = r.req[i].sid
            /\ r.req[i].status # "none" \/ new.status = r.req[i].status
            /\ new.status = "activated" <=> r.req[i].status = "activated"
         \/ /\ new.id = r.req[i].id + 1 /\ new.op \in Nat /\ new.op <= v.enroll
            /\ new.status = "pending"
  PROVE  Served(r, q, i, v)
<1>1. /\ q.req[i] = new
      /\ \A j \in Inst \ {i} : q.req[j] = r.req[j]
  BY DEF RegistryInv, RegistryOK
<1>2. \A j \in Inst \ {i} : Untouched(r, q, j)
  BY <1>1 DEF Untouched
<1>3. SessionsOK(q)
  <2>1. RotationsOK(q) /\ OneSession(q)
    BY DEF SessionsOK, RotationsOK, OneSession, LiveSessions
  <2>2. \A j \in Inst : Numbered(r, j)
    BY DEF SessionsOK
  <2>3. \A j \in Inst \ {i} : Numbered(q, j)
    BY <1>1, <2>2 DEF Numbered, Held
  <2>4. Numbered(r, i)
    BY <2>2
  <2>5. Numbered(q, i)
    BY <1>1, <2>4 DEF Numbered, Held
  <2> QED
    BY <2>1, <2>3, <2>5 DEF SessionsOK
<1>4. CASE /\ new.id = r.req[i].id /\ new.op = r.req[i].op /\ new.sid = r.req[i].sid
           /\ new.status = "activated" <=> r.req[i].status = "activated"
  <2>1. Untouched(r, q, i)
    BY <1>1, <1>4 DEF Untouched
  <2> QED
    BY <1>2, <1>3, <2>1, ServedUntouched
<1>5. CASE /\ new.id = r.req[i].id + 1 /\ new.op \in Nat /\ new.op <= v.enroll
           /\ new.status = "pending"
  <2>1. Numbered(r, i)
    BY DEF SessionsOK
  <2>2. VaultInv(q, i, v)
    BY <1>1, <1>5, <2>1
       DEF VaultInv, VaultType, VaultRequest, VaultSession, Numbered, Held
  <2>3. \A m : MsgInv(r, i, v, m) => MsgInv(q, i, v, m)
    BY <1>1, <1>5 DEF MsgInv, RotationSent, Held
  <2> QED
    BY <1>2, <1>3, <2>2, <2>3 DEF Served
<1> QED
  BY <1>4, <1>5

LEMMA OKAnswer ==
  ASSUME NEW r, NEW answer, "code" \notin DOMAIN answer
  PROVE  /\ OK(r, answer).reg = r /\ OK(r, answer).ans.code = "OK"
         /\ \A f \in DOMAIN answer : OK(r, answer).ans[f] = answer[f]
  BY DEF OK

LEMMA RefusedAnswer ==
  ASSUME NEW r, NEW why
  PROVE  Refuse(r, why).reg = r /\ Refuse(r, why).ans.code = why
  BY DEF Refuse

LEMMA GuardAnswers ==
  ASSUME NEW r, NEW i, NEW sid, NEW recover
  PROVE  TabletGuard(r, i, sid, recover) \in {"OK"} \cup GuardCodes
  BY DEF TabletGuard, GuardCodes

(* The request of a tablet.                                                *)
LEMMA RequestServes ==
  ASSUME NEW J, NEW r, RegistryInv(r, J), SessionsOK(r), NEW i \in Inst,
         NEW v, VaultInv(r, i, v), NEW m, m.op \in Nat, m.op <= v.enroll
  PROVE  LET h == Request(r, i, m)
         IN  /\ Served(r, h.reg, i, v)
             /\ h.ans.code = "OK" =>
                  h.ans.id = h.reg.req[i].id /\ h.reg.req[i].op = m.op
<1> DEFINE old  == [id |-> r.req[i].id, status |-> r.req[i].status]
           new  == [id |-> r.req[i].id + 1, status |-> "pending"]
           request == [NoRequest EXCEPT !.id = r.req[i].id + 1, !.op = m.op, !.status = "pending",
                         !.dossier = m.dossier, !.restored = m.restored]
           q == [r EXCEPT !.req[i] = request]
           h == Request(r, i, m)
<1>1. \/ \E why \in {"ENROLLMENT_EXPIRED", "CONFLICT"} : h = Refuse(r, why)
      \/ h = OK(r, old) /\ r.req[i].op = m.op
      \/ h = OK(q, new)
  BY DEF Request
<1>2. CASE \E why \in {"ENROLLMENT_EXPIRED", "CONFLICT"} : h = Refuse(r, why)
  BY <1>2, RefusedAnswer, NothingServed
<1>3. CASE h = OK(r, old) /\ r.req[i].op = m.op
  <2>1. "code" \notin DOMAIN old /\ "id" \in DOMAIN old /\ old.id = r.req[i].id
    OBVIOUS
  <2> HIDE DEF old, h
  <2>2. h.reg = r /\ h.ans.id = r.req[i].id
    BY <1>3, <2>1, OKAnswer
  <2>3. Served(r, h.reg, i, v)
    BY <2>2, NothingServed
  <2> QED
    BY <1>3, <2>2, <2>3 DEF h
<1>4. CASE h = OK(q, new)
  <2>1. "code" \notin DOMAIN new /\ "id" \in DOMAIN new /\ new.id = r.req[i].id + 1
    OBVIOUS
  <2>2. /\ {"id", "op", "sid"} \subseteq DOMAIN request
        /\ request.id = r.req[i].id + 1 /\ request.op = m.op /\ request.status = "pending"
    BY DEF NoRequest
  <2>3. /\ q.sess = r.sess /\ q.inst = r.inst
        /\ q.req = [r.req EXCEPT ![i] = request] /\ q.req[i] = request
    BY DEF RegistryInv, RegistryOK
  <2> HIDE DEF new, request, q, h
  <2>4. h.reg = q /\ h.ans.id = r.req[i].id + 1
    BY <1>4, <2>1, OKAnswer
  <2>5. Served(r, q, i, v)
    BY <2>2, <2>3, RequestServed
  <2> QED
    BY <2>2, <2>3, <2>4, <2>5 DEF h
<1> QED
  BY <1>1, <1>2, <1>3, <1>4

(* A decision: it says no more of a request that was activated.            *)
LEMMA DecideServes ==
  ASSUME NEW J, NEW r, RegistryInv(r, J), SessionsOK(r), NEW i \in Inst,
         NEW v, VaultInv(r, i, v), NEW d
  PROVE  LET h == Decide(r, i, d)
         IN  /\ Served(r, h.reg, i, v)
             /\ h.ans.code = "OK" =>
                  /\ r.req[i].id = d.req
                  /\ r.req[i].status # "activated"
<1> DEFINE active  == ActiveInst(r)
           gen     == IF r.gen = 0 /\ d.approve THEN 1 ELSE r.gen
           known   == [who |-> i, op |-> d.op]
           request == IF d.approve
                      THEN [r.req[i] EXCEPT !.status = "approved", !.decided = d.op,
                                     !.pinnedGen = gen, !.pinnedInst = active,
                                     !.code = r.req[i].code + 1, !.codeDead = FALSE, !.attempts = 0]
                      ELSE [r.req[i] EXCEPT !.status = "rejected", !.decided = d.op]
           q == [Audited(r, known) EXCEPT !.gen = gen, !.req[i] = request]
           h == Decide(r, i, d)
           codes == {"NOT_FOUND", "ENROLLMENT_EXPIRED", "RECOVERY_REQUIRED", "CONFLICT",
                     "INVITATION_UNAVAILABLE", "REPLACEMENT_CONFLICT"}
<1>1. \/ \E why \in codes : h = Refuse(r, why)
      \/ /\ h.reg = r \/ h.reg = q
         /\ r.req[i].id = d.req /\ r.req[i].status # "none" /\ r.req[i].status # "activated"
  <2>1. \A s, a : OK(s, a).reg = s
    BY DEF OK
  <2> HIDE DEF q, gen, active, known
  <2> SUFFICES ASSUME \A why \in codes : h # Refuse(r, why)
               PROVE  /\ h.reg = r \/ h.reg = q
                      /\ r.req[i].id = d.req /\ r.req[i].status # "none"
                      /\ r.req[i].status # "activated"
    OBVIOUS
  <2>2. /\ r.req[i].id = d.req /\ r.req[i].status # "none" /\ ~r.req[i].dead
    BY DEF Decide
  <2>3. CASE known \in r.audits
    <3>1. r.req[i].status = "rejected" /\ h = OK(r, [status |-> "rejected"])
      BY <2>2, <2>3 DEF Decide, known
    <3> QED
      BY <2>1, <2>2, <3>1
  <2>4. CASE known \notin r.audits
    <3>1. r.req[i].status # "activated" /\ r.req[i].status # "rejected"
      BY <2>2, <2>4 DEF Decide, known
    <3>2. h = OK(q, [status |-> "decided", invitation |-> r.req[i].code + 1])
      BY <2>2, <2>4, <3>1 DEF Decide, q, gen, active, known
    <3> QED
      BY <2>1, <2>2, <3>1, <3>2
  <2> QED
    BY <2>3, <2>4
<1>2. CASE \E why \in codes : h = Refuse(r, why)
  BY <1>2, RefusedAnswer, NothingServed
<1>3. CASE /\ h.reg = r \/ h.reg = q
           /\ r.req[i].id = d.req /\ r.req[i].status # "none" /\ r.req[i].status # "activated"
  <2>1. /\ {"id", "op", "sid"} \subseteq DOMAIN r.req[i]
        /\ {"dossier", "status", "pinnedGen", "pinnedInst"} \subseteq DOMAIN r.req[i]
    BY DEF SessionsOK, Numbered, RegistryInv, RegistryOK, RequestOK
  <2>2. /\ {"id", "op", "sid"} \subseteq DOMAIN request
        /\ request.id = r.req[i].id /\ request.op = r.req[i].op /\ request.sid = r.req[i].sid
        /\ request.status # "activated"
    <3> HIDE DEF gen, active
    <3> QED
      BY <2>1
  <2> HIDE DEF request
  <2>3. /\ q.sess = r.sess /\ q.inst = r.inst
        /\ q.req = [r.req EXCEPT ![i] = request]
    BY DEF RegistryInv, RegistryOK, Audited
  <2> HIDE DEF q, h
  <2>4. Served(r, q, i, v)
    BY <1>3, <2>2, <2>3, RequestServed
  <2>5. Served(r, h.reg, i, v)
    BY <1>3, <2>4, NothingServed
  <2> QED
    BY <1>3, <2>5 DEF h
<1> QED
  BY <1>1, <1>2, <1>3

(* Sessions end and installations leave: no rotation is lost, and what is  *)
(* active still has its session.                                           *)
LEMMA EndingServes ==
  ASSUME NEW r, SessionsOK(r), NEW i \in Inst, NEW v, VaultInv(r, i, v),
         NEW q, q.req = r.req, DOMAIN q.sess = DOMAIN r.sess,
         \A s \in DOMAIN r.sess : q.sess[s].inst = r.sess[s].inst /\ q.sess[s].rots = r.sess[s].rots,
         \A j \in Inst : q.inst[j].active =>
           r.inst[j].active /\ LiveSessions(q, j) = LiveSessions(r, j)
  PROVE  Served(r, q, i, v)
<1>1. \A j \in Inst : Untouched(r, q, j)
  BY DEF Untouched
<1>2. RotationsOK(q) /\ OneSession(q)
  BY DEF SessionsOK, RotationsOK, OneSession
<1>3. \A j \in Inst : Numbered(q, j)
  BY DEF SessionsOK, Numbered, Held
<1> QED
  BY <1>1, <1>2, <1>3, ServedUntouched DEF SessionsOK

LEMMA RetiredSessions ==
  ASSUME NEW r, RegistryOK(r), NEW i \in Inst
  PROVE  LET q == Retire(r, i)
         IN  /\ DOMAIN q.sess = DOMAIN r.sess
             /\ \A s \in DOMAIN r.sess :
                  /\ q.sess[s].inst = r.sess[s].inst /\ q.sess[s].gen = r.sess[s].gen
                  /\ q.sess[s].rots = r.sess[s].rots
                  /\ r.sess[s].inst # i => q.sess[s] = r.sess[s]
<1> DEFINE ended(s) == IF r.sess[s].inst = i THEN [r.sess[s] EXCEPT !.active = FALSE] ELSE r.sess[s]
           q == Retire(r, i)
<1>1. q.sess = [s \in DOMAIN r.sess |-> ended(s)]
  BY DEF Retire, RegistryOK
<1>2. \A s \in DOMAIN r.sess :
        /\ ended(s).inst = r.sess[s].inst /\ ended(s).gen = r.sess[s].gen
        /\ ended(s).rots = r.sess[s].rots
        /\ r.sess[s].inst # i => ended(s) = r.sess[s]
  BY DEF RegistryOK, SessionOK
<1> HIDE DEF q, ended
<1> QED
  BY <1>1, <1>2 DEF q

LEMMA RetireServes ==
  ASSUME NEW J, NEW r, RegistryInv(r, J), SessionsOK(r), NEW i \in Inst,
         NEW v, VaultInv(r, i, v)
  PROVE  Served(r, Retire(r, i), i, v)
<1> DEFINE q == Retire(r, i)
<1>1. /\ q.req = r.req /\ ~q.inst[i].active
      /\ \A j \in Inst \ {i} : q.inst[j] = r.inst[j]
  BY Retired DEF RegistryInv
<1>2. /\ DOMAIN q.sess = DOMAIN r.sess
      /\ \A s \in DOMAIN r.sess :
           /\ q.sess[s].inst = r.sess[s].inst /\ q.sess[s].gen = r.sess[s].gen
           /\ q.sess[s].rots = r.sess[s].rots
           /\ r.sess[s].inst # i => q.sess[s] = r.sess[s]
  BY RetiredSessions DEF RegistryInv
<1> HIDE DEF q
<1>3. ASSUME NEW j \in Inst, q.inst[j].active
      PROVE  r.inst[j].active /\ LiveSessions(q, j) = LiveSessions(r, j)
  BY <1>1, <1>2, <1>3 DEF LiveSessions
<1>4. Served(r, q, i, v)
  BY <1>1, <1>2, <1>3, EndingServes
<1> QED
  BY <1>4 DEF q

LEMMA AuditServes ==
  ASSUME NEW r, NEW q, NEW i, NEW v, NEW J, RegistryInv(q, J), Served(r, q, i, v), NEW known
  PROVE  Served(r, Audited(q, known), i, v)
<1> DEFINE p == Audited(q, known)
<1>1. p.sess = q.sess /\ p.req = q.req /\ p.inst = q.inst
  BY DEF Audited, RegistryInv, RegistryOK
<1> HIDE DEF p
<1>2. SessionsOK(p)
  BY <1>1 DEF Served, SessionsOK, RotationsOK, OneSession, LiveSessions, Numbered, Held
<1>3. VaultInv(p, i, v)
  BY <1>1 DEF Served, VaultInv, VaultRequest, VaultSession, Held
<1>4. \A m : MsgInv(r, i, v, m) => MsgInv(p, i, v, m)
  BY <1>1 DEF Served, MsgInv, RotationSent, Held
<1>5. \A j \in Inst \ {i} : Untouched(r, p, j)
  BY <1>1 DEF Served, Untouched
<1> QED
  BY <1>2, <1>3, <1>4, <1>5 DEF Served, p

LEMMA RevokeServes ==
  ASSUME NEW J, NEW r, RegistryInv(r, J), SessionsOK(r), NEW i \in Inst,
         NEW v, VaultInv(r, i, v), NEW op
  PROVE  Served(r, Revoke(r, i, op).reg, i, v)
<1> DEFINE known == [who |-> i, op |-> op]
           out   == Retire(r, i)
<1>1. Revoke(r, i, op).reg \in {r, Audited(r, known), Audited(out, known)}
  BY DEF Revoke, OK, Refuse
<1>2. RegistryInv(out, J) /\ Served(r, out, i, v)
  BY RetireKeeps, RetireServes
<1> HIDE DEF known, out
<1> QED
  BY <1>1, <1>2, NothingServed, AuditServes

(* An enrollment opens the only session that is live, and no message can   *)
(* be about it yet.                                                        *)
LEMMA EnrolledSessions ==
  ASSUME NEW J, NEW r, RegistryInv(r, J), SessionsOK(r), NEW i \in Inst
  PROVE  LET q == Enroll(r, i).reg  n == Len(r.sess) + 1
         IN  /\ n \notin DOMAIN r.sess /\ DOMAIN q.sess = DOMAIN r.sess \cup {n}
             /\ \A s \in DOMAIN r.sess :
                  /\ q.sess[s].inst = r.sess[s].inst /\ q.sess[s].rots = r.sess[s].rots
                  /\ ~q.sess[s].active
             /\ q.sess[n].inst = i /\ q.sess[n].gen = q.inst[i].gen /\ q.sess[n].active
             /\ q.sess[n].rots = <<>>
             /\ \A j \in Inst : q.inst[j].active => j = i
             /\ q.req = [r.req EXCEPT ![i] = [r.req[i] EXCEPT !.status = "activated", !.sid = n,
                                                             !.sealDead = FALSE]]
             /\ q.inst[i].auth \in Statuses
<1> DEFINE active == ActiveInst(r)
           old  == IF active = NoInst THEN r ELSE Retire(r, active)
           gen  == IF active # NoInst \/ r.inst[i].gen # 0 THEN r.gen + 1 ELSE r.gen
           auth == IF CheckContinuity(r.ledger, r.req[i].dossier) THEN "authorized"
                   ELSE "needs_recovery"
           mine == NewSession(i, gen)
           n    == Len(r.sess) + 1
           request == [r.req[i] EXCEPT !.status = "activated", !.sid = n, !.sealDead = FALSE]
           q    == [old EXCEPT
                      !.gen = gen,
                      !.inst[i] = [gen |-> gen, active |-> TRUE, auth |-> auth],
                      !.sess = Append(@, mine),
                      !.req[i] = request]
<1>1. Enroll(r, i).reg = q
  BY DEF Enroll, OK
<1>2. /\ RegistryOK(old) /\ old.req = r.req
      /\ DOMAIN old.sess = DOMAIN r.sess
      /\ \A j \in Inst : ~old.inst[j].active
      /\ \A s \in DOMAIN r.sess :
           /\ old.sess[s].inst = r.sess[s].inst /\ old.sess[s].rots = r.sess[s].rots
           /\ ~old.sess[s].active
  <2>1. CASE \A j \in Inst : ~r.inst[j].active
    <3>1. active = NoInst
      BY <2>1 DEF ActiveInst
    <3>2. \A s \in DOMAIN r.sess : ~r.sess[s].active
      BY <2>1 DEF RegistryInv, OneWriter, RegistryOK, SessionOK
    <3> QED
      BY <2>1, <3>1, <3>2 DEF RegistryInv
  <2>2. CASE \E j \in Inst : r.inst[j].active
    <3>1. active \in Inst /\ r.inst[active].active
      BY <2>2 DEF ActiveInst
    <3> HIDE DEF active
    <3>2. old = Retire(r, active)
      BY <3>1, RegistryAssumption
    <3>3. \A j \in Inst : r.inst[j].active => j = active
      BY <3>1 DEF RegistryInv, OneWriter
    <3>4. \A s \in DOMAIN r.sess : r.sess[s].active => r.sess[s].inst = active
      BY <3>3 DEF RegistryInv, OneWriter, RegistryOK, SessionOK
    <3> HIDE DEF old
    <3>5. /\ RegistryOK(old) /\ old.req = r.req
          /\ \A s \in DOMAIN r.sess : old.sess[s].active => r.sess[s].active /\ r.sess[s].inst # active
          /\ ~old.inst[active].active
          /\ \A j \in Inst \ {active} : old.inst[j] = r.inst[j]
      <4>1. RegistryOK(r)
        BY DEF RegistryInv
      <4> QED
        BY <3>1, <3>2, <4>1, Retired
    <3>6. /\ DOMAIN old.sess = DOMAIN r.sess
          /\ \A s \in DOMAIN r.sess :
               old.sess[s].inst = r.sess[s].inst /\ old.sess[s].rots = r.sess[s].rots
      BY <3>1, <3>2, RetiredSessions DEF RegistryInv
    <3> QED
      BY <3>3, <3>4, <3>5, <3>6
  <2> QED
    BY <2>1, <2>2
<1>3. auth \in Statuses
  BY DEF Statuses
<1>4. /\ mine.inst = i /\ mine.gen = gen /\ mine.active /\ mine.rots = <<>>
  BY DEF NewSession
<1> DEFINE insts == [old.inst EXCEPT ![i] = [gen |-> gen, active |-> TRUE, auth |-> auth]]
           sessions == Append(old.sess, mine)
<1> HIDE DEF gen, auth, mine, request, old
<1>5. /\ q.inst = insts /\ q.sess = sessions
      /\ q.req = [r.req EXCEPT ![i] = request]
  BY <1>2 DEF RegistryOK
<1>6. /\ insts[i].gen = gen /\ insts[i].auth = auth
      /\ \A j \in Inst : insts[j].active => j = i
  BY <1>2 DEF RegistryOK
<1>7. Len(old.sess) = Len(r.sess) /\ n \notin DOMAIN r.sess
  <2>1. /\ DOMAIN old.sess = 1..Len(old.sess) /\ Len(old.sess) \in Nat
        /\ DOMAIN r.sess = 1..Len(r.sess) /\ Len(r.sess) \in Nat
    BY <1>2, AppendIsSeq DEF RegistryInv, RegistryOK
  <2>2. ASSUME NEW a \in Nat, NEW b \in Nat, 1..a = 1..b PROVE a = b
    <3>1. a \in 1..b \/ a = 0
      BY <2>2
    <3>2. b \in 1..a \/ b = 0
      BY <2>2
    <3> QED
      BY <2>2, <3>1, <3>2
  <2>3. Len(old.sess) = Len(r.sess)
    BY <1>2, <2>1, <2>2
  <2> QED
    BY <2>1, <2>3
<1>8. /\ DOMAIN sessions = DOMAIN r.sess \cup {n}
      /\ sessions[n] = mine
      /\ \A s \in DOMAIN r.sess : sessions[s] = old.sess[s]
  <2>1. /\ Len(old.sess) \in Nat /\ DOMAIN old.sess = 1..Len(old.sess)
        /\ DOMAIN sessions = 1..(Len(old.sess) + 1)
        /\ \A k \in 1..Len(old.sess) : sessions[k] = old.sess[k]
        /\ sessions[Len(old.sess) + 1] = mine
    BY <1>2, AppendIsSeq DEF RegistryOK
  <2> HIDE DEF sessions
  <2> QED
    BY <1>2, <1>7, <2>1
<1> HIDE DEF insts, sessions, q, n
<1>9. /\ q.sess[n].inst = i /\ q.sess[n].gen = q.inst[i].gen /\ q.sess[n].active
      /\ q.sess[n].rots = <<>>
  BY <1>4, <1>5, <1>6, <1>8
<1>10. /\ DOMAIN q.sess = DOMAIN r.sess \cup {n}
       /\ \A s \in DOMAIN r.sess :
            /\ q.sess[s].inst = r.sess[s].inst /\ q.sess[s].rots = r.sess[s].rots
            /\ ~q.sess[s].active
  BY <1>2, <1>5, <1>8
<1>11. /\ \A j \in Inst : q.inst[j].active => j = i
       /\ q.inst[i].auth \in Statuses
  BY <1>3, <1>5, <1>6
<1> QED
  BY <1>1, <1>5, <1>7, <1>9, <1>10, <1>11 DEF n, request

LEMMA EnrollServes ==
  ASSUME NEW J, NEW r, RegistryInv(r, J), SessionsOK(r), NEW i \in Inst,
         NEW v, VaultInv(r, i, v), r.req[i].status = "approved"
  PROVE  LET q == Enroll(r, i).reg  n == Len(r.sess) + 1
         IN  /\ Served(r, q, i, v)
             /\ q.req[i].sid = n /\ q.req[i].status = "activated" /\ q.req[i].id = r.req[i].id
             /\ q.sess[n].rots = <<>> /\ q.inst[i].auth \in Statuses
<1> DEFINE q == Enroll(r, i).reg
           n == Len(r.sess) + 1
           request == [r.req[i] EXCEPT !.status = "activated", !.sid = n, !.sealDead = FALSE]
<1>1. /\ n \notin DOMAIN r.sess /\ DOMAIN q.sess = DOMAIN r.sess \cup {n}
      /\ \A s \in DOMAIN r.sess :
           /\ q.sess[s].inst = r.sess[s].inst /\ q.sess[s].rots = r.sess[s].rots
           /\ ~q.sess[s].active
      /\ q.sess[n].inst = i /\ q.sess[n].gen = q.inst[i].gen /\ q.sess[n].active
      /\ q.sess[n].rots = <<>>
      /\ \A j \in Inst : q.inst[j].active => j = i
      /\ q.req = [r.req EXCEPT ![i] = request]
      /\ q.inst[i].auth \in Statuses
  BY EnrolledSessions
<1>2. \A j \in Inst : Numbered(r, j)
  BY DEF SessionsOK
<1>3. /\ {"id", "op", "sid"} \subseteq DOMAIN request
      /\ request.id = r.req[i].id /\ request.op = r.req[i].op
      /\ request.status = "activated" /\ request.sid = n
  <2>1. {"id", "op", "sid"} \subseteq DOMAIN r.req[i]
    BY <1>2 DEF Numbered
  <2>2. {"dossier", "status", "pinnedGen", "pinnedInst"} \subseteq DOMAIN r.req[i]
    BY DEF RegistryInv, RegistryOK, RequestOK
  <2> HIDE DEF n
  <2> QED
    BY <2>1, <2>2
<1> HIDE DEF q, n, request
<1>4. /\ q.req[i] = request
      /\ \A j \in Inst \ {i} : q.req[j] = r.req[j]
  <2>1. DOMAIN r.req = Inst
    BY DEF RegistryInv, RegistryOK
  <2>2. q.req = [r.req EXCEPT ![i] = request]
    BY <1>1
  <2> QED
    BY <2>1, <2>2
<1>5. SessionsOK(q)
  <2>1. RotationsOK(q)
    <3>1. <<>> \in Seq(Rotation) /\ Len(<<>>) = 0
      BY EmptySeq
    <3>2. \A s \in DOMAIN q.sess : q.sess[s].rots = <<>> \/ (s \in DOMAIN r.sess /\ q.sess[s].rots = r.sess[s].rots)
      BY <1>1
    <3>3. \A s \in DOMAIN r.sess :
            /\ r.sess[s].rots \in Seq(Rotation)
            /\ \A k \in 1..Len(r.sess[s].rots) : r.sess[s].rots[k].id = k
      BY DEF SessionsOK, RotationsOK
    <3>4. ASSUME NEW s \in DOMAIN q.sess
          PROVE  /\ q.sess[s].rots \in Seq(Rotation)
                 /\ \A k \in 1..Len(q.sess[s].rots) : q.sess[s].rots[k].id = k
      <4>1. CASE q.sess[s].rots = <<>>
        BY <3>1, <4>1
      <4>2. CASE s \in DOMAIN r.sess /\ q.sess[s].rots = r.sess[s].rots
        BY <3>3, <4>2
      <4> QED
        BY <3>2, <4>1, <4>2
    <3> QED
      BY <3>4 DEF RotationsOK
  <2>2. OneSession(q)
    <3>1. LiveSessions(q, i) = {n}
      BY <1>1 DEF LiveSessions
    <3> QED
      BY <1>1, <3>1 DEF OneSession
  <2>3. \A j \in Inst \ {i} : Numbered(q, j)
    BY <1>1, <1>2, <1>4 DEF Numbered, Held
  <2>4. Numbered(q, i)
    BY <1>1, <1>2, <1>3, <1>4 DEF Numbered, Held
  <2> QED
    BY <2>1, <2>2, <2>3, <2>4 DEF SessionsOK
<1>6. \A j \in Inst \ {i} : Untouched(r, q, j)
  BY <1>1, <1>4 DEF Untouched
<1>7. VaultInv(q, i, v)
  BY <1>1, <1>3, <1>4 DEF VaultInv, VaultRequest, VaultSession, Held
<1>8. \A m : MsgInv(r, i, v, m) => MsgInv(q, i, v, m)
  BY <1>1, <1>3, <1>4 DEF MsgInv, RotationSent, Held
<1> QED
  BY <1>1, <1>3, <1>4, <1>5, <1>6, <1>7, <1>8 DEF Served, q, n

(* What the answer to an activation is worth: the session of the request,  *)
(* not rotated yet.                                                        *)
Opened(q, i, m, a) ==
  /\ q.req[i].id = m.req /\ q.req[i].id # 0 /\ q.req[i].status = "activated"
  /\ a.sid = q.req[i].sid /\ a.k = 0 /\ q.sess[a.sid].rots = <<>>
  /\ a.status \in Statuses

LEMMA ActivateServes ==
  ASSUME NEW J, NEW r, RegistryInv(r, J), SessionsOK(r), NEW i \in Inst,
         NEW v, VaultInv(r, i, v), NEW m
  PROVE  LET h == Activate(r, i, m)
         IN  /\ Served(r, h.reg, i, v)
             /\ h.ans.code = "OK" => Opened(h.reg, i, m, h.ans)
<1> DEFINE request == [r.req[i] EXCEPT !.attempts = @ + 1]
           counted == [r EXCEPT !.req[i] = request]
           h == Activate(r, i, m)
           e == Enroll(r, i)
           again == [status |-> r.inst[i].auth, sid |-> r.req[i].sid, k |-> 0]
           codes == {"PROOF_REQUIRED", "ENROLLMENT_EXPIRED", "ATTEMPTS_EXCEEDED",
                     "INVITATION_INVALID", "REPLACEMENT_CONFLICT", "CONFLICT",
                     "RECOVERY_REQUIRED"} \cup GuardCodes
<1>1. \/ \E why \in codes : h = Refuse(r, why) \/ h = Refuse(counted, why)
      \/ h = e /\ r.req[i].status = "approved" /\ r.req[i].id = m.req
      \/ /\ h = OK(r, again) /\ r.req[i].status = "activated" /\ r.req[i].id = m.req
         /\ r.sess[r.req[i].sid].rots = <<>>
  <2>1. counted = [r EXCEPT !.req[i].attempts = @ + 1]
    OBVIOUS
  <2>2. TabletGuard(r, i, r.req[i].sid, TRUE) \in {"OK"} \cup GuardCodes
    BY GuardAnswers
  <2>3. \/ \E why \in codes : Recovered(r, i, m) = Refuse(r, why)
        \/ /\ Recovered(r, i, m) = OK(r, again)
           /\ r.sess[r.req[i].sid].rots = <<>>
    BY <2>2 DEF Recovered
  <2> HIDE DEF counted, again, e
  <2> QED
    BY <2>1, <2>3 DEF Activate, e
<1>2. \A j \in Inst : Numbered(r, j)
  BY DEF SessionsOK
<1>3. Served(r, counted, i, v)
  <2>1. {"id", "op", "sid"} \subseteq DOMAIN r.req[i]
    BY <1>2 DEF Numbered
  <2>2. /\ {"id", "op", "sid"} \subseteq DOMAIN request
        /\ request.id = r.req[i].id /\ request.op = r.req[i].op /\ request.sid = r.req[i].sid
        /\ request.status = r.req[i].status
    BY <2>1
  <2> HIDE DEF request
  <2>3. counted.sess = r.sess /\ counted.inst = r.inst /\ counted.req = [r.req EXCEPT ![i] = request]
    BY DEF RegistryInv, RegistryOK
  <2> HIDE DEF counted
  <2> QED
    BY <2>2, <2>3, RequestServed
<1>4. CASE \E why \in codes : h = Refuse(r, why) \/ h = Refuse(counted, why)
  <2> HIDE DEF counted, h
  <2>1. h.reg \in {r, counted} /\ h.ans.code # "OK"
    BY <1>4, RefusedAnswer DEF GuardCodes
  <2> QED
    BY <1>3, <2>1, NothingServed DEF h
<1>5. CASE h = e /\ r.req[i].status = "approved" /\ r.req[i].id = m.req
  <2> DEFINE n == Len(r.sess) + 1
             answer == [status |-> e.reg.inst[i].auth, sid |-> n, k |-> 0]
             q == e.reg
  <2>1. /\ Served(r, q, i, v)
        /\ q.req[i].sid = n /\ q.req[i].status = "activated" /\ q.req[i].id = r.req[i].id
        /\ q.sess[n].rots = <<>> /\ q.inst[i].auth \in Statuses
    BY <1>5, EnrollServes
  <2>2. /\ e.ans.status = IF CheckContinuity(r.ledger, r.req[i].dossier)
                          THEN "authorized" ELSE "needs_recovery"
        /\ e.ans.sid = n /\ e.ans.k = 0
    BY DEF Enroll, OK
  <2>3. e.ans.status \in Statuses
    BY <2>2 DEF Statuses
  <2>4. r.req[i].id # 0
    BY <1>2, <1>5 DEF Numbered
  <2> HIDE DEF n, e
  <2>5. Opened(q, i, m, e.ans)
    BY <1>5, <2>1, <2>2, <2>3, <2>4 DEF Opened
  <2> HIDE DEF h
  <2> QED
    BY <1>5, <2>1, <2>5 DEF h
<1>6. CASE /\ h = OK(r, again) /\ r.req[i].status = "activated" /\ r.req[i].id = m.req
           /\ r.sess[r.req[i].sid].rots = <<>>
  <2>1. /\ "code" \notin DOMAIN again /\ {"sid", "k", "status"} \subseteq DOMAIN again
        /\ again.sid = r.req[i].sid /\ again.k = 0 /\ again.status = r.inst[i].auth
    OBVIOUS
  <2>2. r.inst[i].auth \in Statuses
    BY DEF RegistryInv, RegistryOK
  <2> HIDE DEF again, h
  <2>3. /\ h.reg = r
        /\ h.ans.sid = r.req[i].sid /\ h.ans.k = 0 /\ h.ans.status = r.inst[i].auth
    BY <1>6, <2>1, OKAnswer
  <2>4. Opened(h.reg, i, m, h.ans)
    BY <1>2, <1>6, <2>2, <2>3 DEF Opened, Numbered
  <2> QED
    BY <2>3, <2>4, NothingServed DEF h
<1> HIDE DEF h
<1> QED
  BY <1>1, <1>4, <1>5, <1>6 DEF h

(* A rotation is recorded once; that it comes back is never taken for a    *)
(* theft, so no session ends.                                              *)
LEMMA RotatedServes ==
  ASSUME NEW J, NEW r, RegistryInv(r, J), SessionsOK(r), NEW i \in Inst,
         NEW v, VaultInv(r, i, v), NEW m, RotationSent(r, i, v, m),
         m.k = Len(r.sess[m.sid].rots)
  PROVE  LET q == [r EXCEPT !.sess[m.sid].rots = Append(@, [id |-> m.rid, dead |-> FALSE])]
         IN  /\ Served(r, q, i, v)
             /\ Len(q.sess[m.sid].rots) = m.k + 1
<1> DEFINE old  == r.sess[m.sid].rots
           rots == Append(old, [id |-> m.rid, dead |-> FALSE])
           S    == [r.sess EXCEPT ![m.sid] = [@ EXCEPT !.rots = rots]]
           q    == [r EXCEPT !.sess[m.sid].rots = Append(@, [id |-> m.rid, dead |-> FALSE])]
<1>1. /\ m.sid \in DOMAIN r.sess /\ r.sess[m.sid].inst = i
      /\ m.k \in Nat /\ m.rid = m.k + 1
  BY DEF RotationSent, Held
<1>2. /\ old \in Seq(Rotation) /\ Len(old) \in Nat
      /\ \A n \in 1..Len(old) : old[n].id = n
  BY <1>1, LenProperties DEF SessionsOK, RotationsOK
<1>3. [id |-> m.rid, dead |-> FALSE] \in Rotation
  BY <1>1 DEF Rotation
<1>4. /\ rots \in Seq(Rotation) /\ Len(rots) = m.k + 1
      /\ \A n \in 1..Len(old) : rots[n] = old[n]
      /\ rots[m.k + 1].id = m.k + 1 /\ ~rots[m.k + 1].dead
  <2> DEFINE e == [id |-> m.rid, dead |-> FALSE]
  <2>1. rots = Append(old, e) /\ e.id = m.rid /\ ~e.dead /\ Len(old) = m.k
    OBVIOUS
  <2> HIDE DEF rots, old, e
  <2>2. /\ rots \in Seq(Rotation) /\ Len(rots) = Len(old) + 1
        /\ \A n \in 1..Len(old) : rots[n] = old[n]
        /\ rots[Len(old) + 1] = e
    BY <1>2, <1>3, <2>1, AppendProperties DEF e
  <2> QED
    BY <1>1, <2>1, <2>2 DEF rots, old
<1>5. \A n \in 1..Len(rots) : rots[n].id = n
  <2> HIDE DEF rots, old
  <2>1. Len(old) = m.k
    BY DEF old
  <2> QED
    BY <1>1, <1>2, <1>4, <2>1
<1>6. /\ q.sess = S /\ q.inst = r.inst /\ q.req = r.req
  BY DEF RegistryInv, RegistryOK
<1>7. {"inst", "gen", "active", "rots"} \subseteq DOMAIN r.sess[m.sid]
  BY <1>1 DEF RegistryInv, RegistryOK, SessionOK
<1> HIDE DEF rots, old, q
<1>8. /\ DOMAIN S = DOMAIN r.sess
      /\ S[m.sid].rots = rots
      /\ \A s \in DOMAIN r.sess :
           /\ S[s].inst = r.sess[s].inst /\ S[s].gen = r.sess[s].gen
           /\ S[s].active = r.sess[s].active
           /\ s # m.sid => S[s].rots = r.sess[s].rots
  BY <1>1, <1>7
<1> HIDE DEF S
<1>9. SessionsOK(q)
  <2>1. RotationsOK(q)
    BY <1>4, <1>5, <1>6, <1>8 DEF SessionsOK, RotationsOK
  <2>2. \A j \in Inst : LiveSessions(q, j) = LiveSessions(r, j)
    BY <1>6, <1>8 DEF LiveSessions
  <2>3. OneSession(q)
    BY <1>6, <1>8, <2>2 DEF SessionsOK, OneSession
  <2>4. \A j \in Inst : Numbered(q, j)
    BY <1>6, <1>8 DEF SessionsOK, Numbered, Held
  <2> QED
    BY <2>1, <2>3, <2>4 DEF SessionsOK
<1>10. \A j \in Inst \ {i} : Untouched(r, q, j)
  BY <1>1, <1>6, <1>8 DEF Untouched
<1>11. VaultInv(q, i, v)
  <2>1. VaultRequest(q, i, v)
    BY <1>6 DEF VaultInv, VaultRequest
  <2>2. ASSUME v.sess # NoSession, v.sess.sid = m.sid
        PROVE  Follows(v, rots)
    <3>1. Follows(v, old) /\ v.sess.k \in Nat
      BY <2>2 DEF VaultInv, VaultSession, VaultType, old
    <3>2. m.k < v.sess.k \/ (m.k = v.sess.k /\ v.rot # NoRotation)
      BY <2>2 DEF RotationSent
    <3>3. v.sess.k = m.k /\ v.rot # NoRotation
      BY <1>1, <3>1, <3>2 DEF Follows, old
    <3> QED
      BY <1>1, <1>4, <3>3 DEF Follows
  <2>3. VaultSession(q, i, v)
    <3>1. VaultSession(r, i, v)
      BY DEF VaultInv
    <3>2. v.sess # NoSession => Follows(v, S[v.sess.sid].rots)
      <4>1. ASSUME v.sess # NoSession, v.sess.sid # m.sid
            PROVE  Follows(v, S[v.sess.sid].rots)
        BY <1>8, <3>1, <4>1 DEF VaultSession, Held
      <4> QED
        BY <1>8, <2>2, <4>1
    <3> QED
      BY <1>6, <1>8, <3>1, <3>2 DEF VaultSession, Held
  <2> QED
    BY <2>1, <2>3 DEF VaultInv
<1>12. ASSUME NEW p, MsgInv(r, i, v, p) PROVE MsgInv(q, i, v, p)
  <2>1. ASSUME RotationSent(r, i, v, p) PROVE RotationSent(q, i, v, p)
    <3>1. Held(q, i, p.sid) /\ p.k \in Nat /\ p.rid = p.k + 1
      BY <1>6, <1>8, <2>1 DEF RotationSent, Held
    <3>2. p.k <= Len(S[p.sid].rots)
      <4>1. CASE p.sid = m.sid
        BY <1>1, <1>4, <1>8, <2>1, <4>1 DEF RotationSent, old
      <4>2. CASE p.sid # m.sid
        BY <1>8, <2>1, <4>2 DEF RotationSent, Held
      <4> QED
        BY <4>1, <4>2
    <3> QED
      BY <1>6, <2>1, <3>1, <3>2 DEF RotationSent
  <2> QED
    BY <1>12, <2>1 DEF MsgInv
<1> QED
  BY <1>4, <1>6, <1>8, <1>9, <1>10, <1>11, <1>12 DEF Served, q

(* The token of an answer is one the session has reached.                  *)
Rotated(q, m, a) == a.sid = m.sid /\ a.k = m.k + 1 /\ a.k <= Len(q.sess[m.sid].rots)

LEMMA RefreshServes ==
  ASSUME NEW J, NEW r, RegistryInv(r, J), SessionsOK(r), NEW i \in Inst,
         NEW v, VaultInv(r, i, v), NEW m, RotationSent(r, i, v, m)
  PROVE  LET h == Refresh(r, i, m)
         IN  /\ Served(r, h.reg, i, v)
             /\ h.ans.code \in {"OK", "RECOVERY_REQUIRED"} \cup GuardCodes
             /\ h.ans.code = "OK" => Rotated(h.reg, m, h.ans)
<1> DEFINE h == Refresh(r, i, m)
           q == [r EXCEPT !.sess[m.sid].rots = Append(@, [id |-> m.rid, dead |-> FALSE])]
           answer == [sid |-> m.sid, k |-> m.k + 1]
           rots == r.sess[m.sid].rots
<1>1. /\ m.k \in Nat /\ m.rid = m.k + 1 /\ m.k <= Len(rots)
      /\ rots \in Seq(Rotation) /\ Len(rots) \in Nat
      /\ \A n \in 1..Len(rots) : rots[n].id = n
  BY LenProperties DEF RotationSent, Held, SessionsOK, RotationsOK
<1>2. m.k < Len(rots) => rots[m.k + 1].id = m.rid
  BY <1>1
<1>3. TabletGuard(r, i, m.sid, TRUE) \in {"OK"} \cup GuardCodes
  BY GuardAnswers
<1>4. \/ \E why \in {"RECOVERY_REQUIRED"} \cup GuardCodes : h = Refuse(r, why)
      \/ h = OK(r, answer) /\ m.k < Len(rots)
      \/ h = OK(q, answer) /\ m.k = Len(rots)
  <2> DEFINE guard == TabletGuard(r, i, m.sid, TRUE)
  <2>1. CASE guard # "OK"
    <3>1. h = Refuse(r, guard)
      BY <2>1 DEF Refresh
    <3> QED
      BY <1>3, <2>1, <3>1
  <2>2. CASE guard = "OK" /\ m.k < Len(rots)
    <3>1. ~(m.k > Len(rots)) /\ rots[m.k + 1].id = m.rid
      BY <1>1, <1>2, <2>2
    <3>2. h = Refuse(r, "RECOVERY_REQUIRED") \/ h = OK(r, answer)
      BY <2>2, <3>1 DEF Refresh
    <3> QED
      BY <2>2, <3>2
  <2>3. CASE guard = "OK" /\ m.k = Len(rots)
    <3>1. ~(m.k > Len(rots)) /\ ~(m.k < Len(rots))
      BY <1>1, <2>3
    <3>2. h = OK(q, answer)
      BY <2>3, <3>1 DEF Refresh
    <3> QED
      BY <2>3, <3>2
  <2>4. m.k < Len(rots) \/ m.k = Len(rots)
    BY <1>1
  <2> HIDE DEF guard, h, q, answer, rots
  <2> QED
    BY <2>1, <2>2, <2>3, <2>4
<1>5. /\ "code" \notin DOMAIN answer /\ {"sid", "k"} \subseteq DOMAIN answer
      /\ answer.sid = m.sid /\ answer.k = m.k + 1
  OBVIOUS
<1> HIDE DEF answer, h
<1>6. CASE \E why \in {"RECOVERY_REQUIRED"} \cup GuardCodes : h = Refuse(r, why)
  <2>1. h.reg = r /\ h.ans.code \in {"RECOVERY_REQUIRED"} \cup GuardCodes
    BY <1>6, RefusedAnswer
  <2> QED
    BY <2>1, NothingServed DEF h, GuardCodes
<1>7. CASE h = OK(r, answer) /\ m.k < Len(rots)
  <2>1. /\ h.reg = r /\ h.ans.code = "OK"
        /\ h.ans.sid = m.sid /\ h.ans.k = m.k + 1
    BY <1>5, <1>7, OKAnswer
  <2>2. Rotated(h.reg, m, h.ans)
    BY <1>1, <1>7, <2>1 DEF Rotated
  <2> QED
    BY <2>1, <2>2, NothingServed DEF h
<1>8. CASE h = OK(q, answer) /\ m.k = Len(rots)
  <2>1. Served(r, q, i, v) /\ Len(q.sess[m.sid].rots) = m.k + 1
    BY <1>8, RotatedServes
  <2> HIDE DEF q
  <2>2. /\ h.reg = q /\ h.ans.code = "OK"
        /\ h.ans.sid = m.sid /\ h.ans.k = m.k + 1
    BY <1>5, <1>8, OKAnswer
  <2>3. Rotated(h.reg, m, h.ans)
    BY <1>1, <2>1, <2>2 DEF Rotated
  <2> QED
    BY <2>1, <2>2, <2>3 DEF h
<1> QED
  BY <1>4, <1>6, <1>7, <1>8 DEF h

LEMMA StatusServes ==
  ASSUME NEW J, NEW r, RegistryInv(r, J), SessionsOK(r), NEW i \in Inst,
         NEW v, VaultInv(r, i, v), NEW m
  PROVE  LET h == Status(r, i, m)
         IN  /\ Served(r, h.reg, i, v)
             /\ h.ans.code \in {"OK"} \cup GuardCodes
             /\ h.ans.code = "OK" => h.ans.status \in Statuses
<1> DEFINE h == Status(r, i, m)
           answer == [status |-> r.inst[i].auth]
<1>1. TabletGuard(r, i, m.sid, TRUE) \in {"OK"} \cup GuardCodes
  BY GuardAnswers
<1>2. (\E why \in GuardCodes : h = Refuse(r, why)) \/ h = OK(r, answer)
  BY <1>1 DEF Status
<1>3. "code" \notin DOMAIN answer /\ "status" \in DOMAIN answer /\ answer.status \in Statuses
  BY DEF RegistryInv, RegistryOK
<1> HIDE DEF answer, h
<1>4. /\ h.reg = r /\ h.ans.code \in {"OK"} \cup GuardCodes
      /\ h.ans.code = "OK" => h.ans.status \in Statuses
  BY <1>2, <1>3, OKAnswer, RefusedAnswer DEF GuardCodes
<1> QED
  BY <1>4, NothingServed DEF h

LEMMA SyncServes ==
  ASSUME NEW J, NEW r, RegistryInv(r, J), SessionsOK(r), NEW i \in Inst,
         NEW v, VaultInv(r, i, v), NEW m
  PROVE  LET h == Sync(r, i, m)
         IN  /\ Served(r, h.reg, i, v)
             /\ h.ans.code \in {"OK", "SEQUENCE_FORK"} \cup GuardCodes
<1> DEFINE h == Sync(r, i, m)
           q == [r EXCEPT !.ledger = m.dossier]
           answer == [status |-> "sent"]
<1>1. TabletGuard(r, i, m.sid, FALSE) \in {"OK"} \cup GuardCodes
  BY GuardAnswers
<1>2. \/ \E why \in {"SEQUENCE_FORK"} \cup GuardCodes : h = Refuse(r, why)
      \/ h = OK(r, answer)
      \/ h = OK(q, answer)
  BY <1>1 DEF Sync
<1>3. q.sess = r.sess /\ q.inst = r.inst /\ q.req = r.req
  BY DEF RegistryInv, RegistryOK
<1>4. "code" \notin DOMAIN answer
  OBVIOUS
<1> HIDE DEF q, answer, h
<1>5. Served(r, q, i, v)
  BY <1>3, EndingServes DEF LiveSessions
<1>6. h.reg \in {r, q} /\ h.ans.code \in {"OK", "SEQUENCE_FORK"} \cup GuardCodes
  BY <1>2, <1>4, OKAnswer, RefusedAnswer
<1> QED
  BY <1>5, <1>6, NothingServed DEF h

(* Whatever arrives, on time or late.                                      *)
LEMMA HandleServes ==
  ASSUME NEW J, NEW r, RegistryInv(r, J), SessionsOK(r), NEW i \in Inst,
         NEW v, VaultInv(r, i, v), NEW m, MsgInv(r, i, v, m)
  PROVE  Served(r, Handle(r, i, m).reg, i, v)
<1>1. CASE m.action = "request"
  BY <1>1, RequestServes DEF Handle, MsgInv
<1>2. CASE m.action = "activate"
  BY <1>2, ActivateServes DEF Handle
<1>3. CASE m.action = "pending"
  <2>1. Handle(r, i, m).reg = r
    BY <1>3 DEF Handle, PendingStatus, OK, Refuse
  <2> QED
    BY <2>1, NothingServed
<1>4. CASE m.action = "refresh"
  BY <1>4, RefreshServes DEF Handle, MsgInv
<1>5. CASE m.action = "status"
  BY <1>5, StatusServes DEF Handle
<1>6. CASE m.action \notin {"request", "activate", "pending", "refresh", "status"}
  BY <1>6, SyncServes DEF Handle
<1> QED
  BY <1>1, <1>2, <1>3, <1>4, <1>5, <1>6

-----------------------------------------------------------------------------
(* What a tablet does of its session.                                      *)

(* An answer is about what was asked.                                      *)
AnswerInv(q, i, v, c, a) ==
  /\ c.kind = "enroll" /\ a.code = "OK" => a.id = q.req[i].id /\ q.req[i].op = v.enroll
  /\ c.kind = "activate" /\ a.code = "OK" => Opened(q, i, CodeMessage(v), a)
  /\ c.stage = "refresh" /\ a.code = "OK" => Rotated(q, RefreshMessage(v), a)
  /\ c.kind = "status" /\ c.stage = "main" /\ a.code = "OK" => a.status \in Statuses
  /\ c.kind \in {"status", "sync"} => a.code # "ENROLLMENT_EXPIRED"

LEMMA SentServes ==
  ASSUME NEW J, NEW r, RegistryInv(r, J), SessionsOK(r), NEW i \in Inst,
         NEW v, VaultInv(r, i, v), NEW c, CallInv(v, c)
  PROVE  /\ MsgInv(r, i, v, c.msg)
         /\ c.msg # NoMessage =>
              LET h == Handle(r, i, c.msg)
              IN  Served(r, h.reg, i, v) /\ AnswerInv(h.reg, i, v, c, h.ans)
<1> DEFINE h == Handle(r, i, c.msg)
<1>1. CASE c = Idle \/ c.msg = NoMessage
  BY <1>1 DEF Idle, NoMessage, MsgInv
<1>2. CASE Enrolling(v, c) /\ c.msg # NoMessage
  <2>1. CASE c.kind = "enroll" /\ c.msg = EnrollMessage(v)
    <3>1. /\ c.msg.action = "request" /\ c.msg.op = v.enroll
          /\ c.msg.op \in Nat /\ c.msg.op <= v.enroll
      BY <2>1 DEF EnrollMessage, VaultInv, VaultType
    <3>2. h = Request(r, i, c.msg)
      BY <3>1 DEF Handle
    <3>3. /\ Served(r, h.reg, i, v)
          /\ h.ans.code = "OK" => h.ans.id = h.reg.req[i].id /\ h.reg.req[i].op = c.msg.op
      BY <3>1, <3>2, RequestServes
    <3> HIDE DEF h
    <3>4. c.stage = "main"
      BY <1>2 DEF Enrolling
    <3>5. AnswerInv(h.reg, i, v, c, h.ans)
      BY <2>1, <3>1, <3>3, <3>4 DEF AnswerInv
    <3> QED
      BY <3>1, <3>3, <3>5 DEF MsgInv, h
  <2>2. CASE c.kind = "activate" /\ c.msg = CodeMessage(v)
    <3>1. c.msg.action = "activate"
      BY <2>2 DEF CodeMessage
    <3>2. h = Activate(r, i, c.msg)
      BY <3>1 DEF Handle
    <3>3. /\ Served(r, h.reg, i, v)
          /\ h.ans.code = "OK" => Opened(h.reg, i, c.msg, h.ans)
      BY <3>1, <3>2, ActivateServes
    <3> HIDE DEF h
    <3>4. c.stage = "main"
      BY <1>2 DEF Enrolling
    <3>5. AnswerInv(h.reg, i, v, c, h.ans)
      BY <2>2, <3>3, <3>4 DEF AnswerInv
    <3> QED
      BY <3>1, <3>3, <3>5 DEF MsgInv, h
  <2>3. CASE c.kind = "pending" /\ c.msg = [action |-> "pending", req |-> v.req]
    <3>1. c.msg.action = "pending" /\ c.stage = "main"
      BY <1>2, <2>3 DEF Enrolling
    <3>2. MsgInv(r, i, v, c.msg)
      BY <3>1 DEF MsgInv
    <3>3. Served(r, h.reg, i, v)
      BY <3>2, HandleServes
    <3> HIDE DEF h
    <3>4. AnswerInv(h.reg, i, v, c, h.ans)
      BY <2>3, <3>1 DEF AnswerInv
    <3> QED
      BY <3>2, <3>3, <3>4 DEF h
  <2> QED
    BY <1>2, <2>1, <2>2, <2>3 DEF Enrolling
<1>3. CASE UsingSession(v, c) /\ c.msg # NoMessage
  <2>1. CASE c.stage = "main"
    <3>1. c.kind \in {"status", "sync"} /\ c.msg.action = c.kind
      BY <1>3, <2>1 DEF UsingSession
    <3>2. MsgInv(r, i, v, c.msg)
      BY <3>1 DEF MsgInv
    <3>3. /\ c.kind = "status" => h = Status(r, i, c.msg)
          /\ c.kind = "sync" => h = Sync(r, i, c.msg)
      BY <3>1 DEF Handle
    <3>4. CASE c.kind = "status"
      <4>1. /\ Served(r, h.reg, i, v)
            /\ h.ans.code \in {"OK"} \cup GuardCodes
            /\ h.ans.code = "OK" => h.ans.status \in Statuses
        BY <3>3, <3>4, StatusServes
      <4> HIDE DEF h
      <4>2. AnswerInv(h.reg, i, v, c, h.ans)
        BY <2>1, <3>4, <4>1 DEF AnswerInv, GuardCodes
      <4> QED
        BY <3>2, <4>1, <4>2 DEF h
    <3>5. CASE c.kind = "sync"
      <4>1. /\ Served(r, h.reg, i, v)
            /\ h.ans.code \in {"OK", "SEQUENCE_FORK"} \cup GuardCodes
        BY <3>3, <3>5, SyncServes
      <4> HIDE DEF h
      <4>2. AnswerInv(h.reg, i, v, c, h.ans)
        BY <2>1, <3>5, <4>1 DEF AnswerInv, GuardCodes
      <4> QED
        BY <3>2, <4>1, <4>2 DEF h
    <3> QED
      BY <3>1, <3>4, <3>5
  <2>2. CASE c.stage = "refresh"
    <3>1. /\ v.sess # NoSession /\ v.rot # NoRotation /\ c.msg = RefreshMessage(v)
          /\ c.kind \in {"status", "sync"}
      BY <1>3, <2>2 DEF UsingSession
    <3>2. /\ c.msg.action = "refresh" /\ c.msg.sid = v.sess.sid
          /\ c.msg.k = v.rot.k /\ c.msg.rid = v.rot.id
      BY <3>1 DEF RefreshMessage
    <3>3. /\ Held(r, i, v.sess.sid) /\ v.sess.k \in Nat
          /\ v.rot.k = v.sess.k /\ v.rot.id = v.sess.k + 1
          /\ Follows(v, r.sess[v.sess.sid].rots)
      BY <3>1 DEF VaultInv, VaultType, VaultSession
    <3>4. Len(r.sess[v.sess.sid].rots) \in Nat
      BY <3>3, LenProperties DEF Held, SessionsOK, RotationsOK
    <3>5. RotationSent(r, i, v, c.msg)
      BY <3>1, <3>2, <3>3, <3>4 DEF RotationSent, Follows
    <3>6. MsgInv(r, i, v, c.msg)
      BY <3>2, <3>5 DEF MsgInv
    <3>7. h = Refresh(r, i, c.msg)
      BY <3>2 DEF Handle
    <3>8. /\ Served(r, h.reg, i, v)
          /\ h.ans.code \in {"OK", "RECOVERY_REQUIRED"} \cup GuardCodes
          /\ h.ans.code = "OK" => Rotated(h.reg, c.msg, h.ans)
      BY <3>5, <3>7, RefreshServes
    <3> HIDE DEF h
    <3>9. AnswerInv(h.reg, i, v, c, h.ans)
      BY <2>2, <3>1, <3>8 DEF AnswerInv, GuardCodes
    <3> QED
      BY <3>6, <3>8, <3>9 DEF h
  <2> QED
    BY <1>3, <2>1, <2>2 DEF UsingSession
<1> QED
  BY <1>1, <1>2, <1>3 DEF CallInv

(* What a tablet of vault v may become, with the registry q.               *)
Becomes(q, i, v, w) ==
  VaultInv(q, i, w) /\ \A m : MsgInv(q, i, v, m) => MsgInv(q, i, w, m)

LEMMA BecomesTwice ==
  ASSUME NEW q, NEW i, NEW u, NEW v, NEW w, Becomes(q, i, u, v), Becomes(q, i, v, w)
  PROVE  Becomes(q, i, u, w)
  BY DEF Becomes

(* Fields that say nothing of the session change.                          *)
SameSession(v, w) ==
  /\ DOMAIN w = DOMAIN v
  /\ w.enroll = v.enroll /\ w.req = v.req /\ w.sess = v.sess /\ w.rot = v.rot
  /\ w.holds = v.holds

LEMMA SameSessionBecomes ==
  ASSUME NEW q, NEW i, NEW v, VaultInv(q, i, v), NEW w, SameSession(v, w),
         \/ v.sess = NoSession
         \/ w.status = v.status
         \/ w.status \notin {"pending", "invitation_expired"}
  PROVE  Becomes(q, i, v, w)
<1>1. VaultType(w) /\ VaultRequest(q, i, w)
  BY DEF VaultInv, VaultType, VaultRequest, SameSession
<1>2. VaultSession(q, i, w)
  BY DEF VaultInv, VaultSession, SameSession, Follows
<1>3. ASSUME NEW m, MsgInv(q, i, v, m) PROVE MsgInv(q, i, w, m)
  BY <1>3 DEF MsgInv, RotationSent, SameSession
<1> QED
  BY <1>1, <1>2, <1>3 DEF Becomes, VaultInv

LEMMA Written ==
  ASSUME NEW v, VaultType(v)
  PROVE  /\ \A state : SameSession(v, [v EXCEPT !.status = state])
         /\ \A state : [v EXCEPT !.status = state].status = state
         /\ \A code : SameSession(v, WithCode(v, code)) /\ WithCode(v, code).status = v.status
         /\ \A path, req, replaces :
              /\ SameSession(v, WithOperation(v, path, req, replaces))
              /\ WithOperation(v, path, req, replaces).status = v.status
         /\ SameSession(v, [v EXCEPT !.manager = NoOperation])
         /\ [v EXCEPT !.manager = NoOperation].status = v.status
<1>1. /\ \A state : SameSession(v, [v EXCEPT !.status = state])
      /\ \A state : [v EXCEPT !.status = state].status = state
  BY DEF SameSession, VaultType
<1>2. \A code : SameSession(v, WithCode(v, code)) /\ WithCode(v, code).status = v.status
  BY DEF SameSession, VaultType, WithCode
<1>3. \A path, req, replaces :
        /\ SameSession(v, WithOperation(v, path, req, replaces))
        /\ WithOperation(v, path, req, replaces).status = v.status
  BY DEF SameSession, VaultType, WithOperation
<1>4. /\ SameSession(v, [v EXCEPT !.manager = NoOperation])
      /\ [v EXCEPT !.manager = NoOperation].status = v.status
  BY DEF SameSession, VaultType
<1> QED
  BY <1>1, <1>2, <1>3, <1>4

LEMMA FailedBecomes ==
  ASSUME NEW q, NEW i, NEW v, VaultInv(q, i, v), NEW state,
         v.sess = NoSession \/ state # "invitation_expired"
  PROVE  Becomes(q, i, v, Failed(v, state))
<1> DEFINE w == [v EXCEPT !.status = state]
<1>1. SameSession(v, w) /\ w.status = state /\ SameSession(v, v)
  BY Written DEF VaultInv, SameSession
<1>2. Failed(v, state) = v \/ (Failed(v, state) = w /\ state # "pending")
  BY DEF Failed, Reconnectable
<1> HIDE DEF w
<1> QED
  BY <1>1, <1>2, SameSessionBecomes

LEMMA SessionNumbered ==
  ASSUME NEW q, RegistryOK(q), NEW i, NEW s, Held(q, i, s)
  PROVE  s \in Nat \ {0}
<1>1. DOMAIN q.sess = 1..Len(q.sess) /\ Len(q.sess) \in Nat
  BY AppendIsSeq DEF RegistryOK
<1> QED
  BY <1>1 DEF Held

(* The rotation in the vault, prepared or found there.                     *)
LEMMA PreparedBecomes ==
  ASSUME NEW q, SessionsOK(q), NEW i, NEW v, VaultInv(q, i, v), v.sess # NoSession
  PROVE  LET p == Prepared(v)
         IN  /\ Becomes(q, i, v, p)
             /\ p.sess = v.sess /\ p.rot # NoRotation
<1> DEFINE p == Prepared(v)
           rotation == [id |-> v.sess.k + 1, k |-> v.sess.k, late |-> FALSE]
<1>1. VaultType(v) /\ VaultRequest(q, i, v) /\ VaultSession(q, i, v)
  BY DEF VaultInv
<1>2. CASE v.rot # NoRotation
  <2>1. p = v
    BY <1>2 DEF Prepared
  <2> HIDE DEF p
  <2> QED
    BY <1>2, <2>1 DEF Becomes, p
<1>3. CASE v.rot = NoRotation
  <2>1. p = [v EXCEPT !.rot = rotation]
    BY <1>3 DEF Prepared
  <2>2. /\ DOMAIN p = DOMAIN v
        /\ p.enroll = v.enroll /\ p.req = v.req /\ p.sess = v.sess /\ p.rot = rotation
        /\ p.holds = v.holds /\ p.status = v.status
    BY <1>1, <2>1 DEF VaultType
  <2>3. /\ rotation \in [id : Nat, k : Nat, late : BOOLEAN] /\ rotation # NoRotation
        /\ rotation.k = v.sess.k /\ rotation.id = v.sess.k + 1
    <3>1. v.sess.k \in Nat
      BY <1>1 DEF VaultType
    <3>2. rotation.id # NoRotation.id
      BY <3>1 DEF NoRotation
    <3> QED
      BY <3>1, <3>2
  <2> HIDE DEF p, rotation
  <2>4. VaultType(p) /\ VaultRequest(q, i, p)
    BY <1>1, <2>2, <2>3 DEF VaultType, VaultRequest
  <2>5. VaultSession(q, i, p)
    BY <1>1, <1>3, <2>2, <2>3 DEF VaultSession, Follows
  <2>6. ASSUME NEW m, MsgInv(q, i, v, m) PROVE MsgInv(q, i, p, m)
    BY <2>2, <2>3, <2>6 DEF MsgInv, RotationSent
  <2> QED
    BY <2>2, <2>3, <2>4, <2>5, <2>6 DEF Becomes, VaultInv, p
<1> QED
  BY <1>2, <1>3

(* The access token is not usable any more.                                *)
LEMMA StaleBecomes ==
  ASSUME NEW q, RegistryOK(q), NEW i, NEW v, VaultInv(q, i, v), v.sess # NoSession
  PROVE  LET w == [v EXCEPT !.sess.fresh = FALSE]
         IN  /\ Becomes(q, i, v, w)
             /\ w.sess # NoSession /\ w.rot = v.rot
<1> DEFINE w == [v EXCEPT !.sess.fresh = FALSE]
           s == [v.sess EXCEPT !.fresh = FALSE]
<1>1. VaultType(v) /\ VaultRequest(q, i, v) /\ VaultSession(q, i, v)
  BY DEF VaultInv
<1>2. /\ DOMAIN w = DOMAIN v
      /\ w.enroll = v.enroll /\ w.req = v.req /\ w.sess = s /\ w.rot = v.rot
      /\ w.holds = v.holds /\ w.status = v.status
  BY <1>1 DEF VaultType
<1>3. /\ s \in [sid : Nat, k : Nat, fresh : BOOLEAN]
      /\ s.sid = v.sess.sid /\ s.k = v.sess.k
  BY <1>1 DEF VaultType
<1>4. s # NoSession
  <2>1. v.sess.sid \in Nat \ {0}
    BY <1>1, SessionNumbered DEF VaultSession
  <2> HIDE DEF s
  <2> QED
    BY <1>3, <2>1 DEF NoSession
<1> HIDE DEF w, s
<1>5. VaultType(w) /\ VaultRequest(q, i, w)
  BY <1>1, <1>2, <1>3 DEF VaultType, VaultRequest
<1>6. VaultSession(q, i, w)
  BY <1>1, <1>2, <1>3, <1>4 DEF VaultSession, Follows
<1>7. ASSUME NEW m, MsgInv(q, i, v, m) PROVE MsgInv(q, i, w, m)
  BY <1>2, <1>3, <1>4, <1>7 DEF MsgInv, RotationSent
<1> QED
  BY <1>2, <1>4, <1>5, <1>6, <1>7 DEF Becomes, VaultInv, w

(* The answer to a rotation is the next token of the same session.         *)
LEMMA RenewedBecomes ==
  ASSUME NEW q, RegistryOK(q), SessionsOK(q), NEW i, NEW v, VaultInv(q, i, v),
         v.sess # NoSession, v.rot # NoRotation, NEW a, Rotated(q, RefreshMessage(v), a)
  PROVE  Becomes(q, i, v, Renewed(v, a))
<1> DEFINE w == Renewed(v, a)
           s == [sid |-> a.sid, k |-> a.k, fresh |-> TRUE]
<1>1. VaultType(v) /\ VaultRequest(q, i, v) /\ VaultSession(q, i, v)
  BY DEF VaultInv
<1>2. /\ Held(q, i, v.sess.sid) /\ v.sess.k \in Nat /\ v.rot.k = v.sess.k
      /\ Follows(v, q.sess[v.sess.sid].rots)
  BY <1>1 DEF VaultType, VaultSession
<1>3. /\ a.sid = v.sess.sid /\ a.k = v.sess.k + 1 /\ a.k <= Len(q.sess[v.sess.sid].rots)
  BY <1>2 DEF Rotated, RefreshMessage
<1>4. Len(q.sess[v.sess.sid].rots) \in Nat
  BY <1>2, LenProperties DEF Held, SessionsOK, RotationsOK
<1>5. a.k = Len(q.sess[v.sess.sid].rots)
  BY <1>2, <1>3, <1>4 DEF Follows
<1>6. /\ DOMAIN w = DOMAIN v
      /\ w.enroll = v.enroll /\ w.req = v.req /\ w.sess = s /\ w.rot = NoRotation
      /\ w.holds = v.holds /\ w.status = "authorized"
  BY <1>1 DEF VaultType, Renewed
<1>7. /\ s \in [sid : Nat, k : Nat, fresh : BOOLEAN] /\ s # NoSession
      /\ s.sid = v.sess.sid /\ s.k = v.sess.k + 1
  <2>1. v.sess.sid \in Nat
    BY <1>1 DEF VaultType
  <2>2. s.fresh /\ ~NoSession.fresh
    BY DEF NoSession
  <2> QED
    BY <1>2, <1>3, <2>1, <2>2
<1> HIDE DEF w, s
<1>8. VaultType(w) /\ VaultRequest(q, i, w)
  <2>1. NoRotation \in [id : Nat, k : Nat, late : BOOLEAN]
    BY DEF NoRotation
  <2> QED
    BY <1>1, <1>6, <1>7, <2>1 DEF VaultType, VaultRequest
<1>9. VaultSession(q, i, w)
  BY <1>1, <1>2, <1>3, <1>5, <1>6, <1>7 DEF VaultSession, Follows
<1>10. ASSUME NEW m, MsgInv(q, i, v, m) PROVE MsgInv(q, i, w, m)
  BY <1>2, <1>6, <1>7, <1>10 DEF MsgInv, RotationSent
<1> QED
  BY <1>8, <1>9, <1>10 DEF Becomes, VaultInv, w

(* The answer to an activation is the first token of the session of the    *)
(* request the vault follows; no message is about it yet.                  *)
LEMMA ActivatedBecomes ==
  ASSUME NEW q, RegistryOK(q), SessionsOK(q), NEW i \in Inst, NEW v, VaultInv(q, i, v),
         v.sess = NoSession, NEW a, Opened(q, i, CodeMessage(v), a)
  PROVE  Becomes(q, i, v, Remember(v, "activate", a))
<1> DEFINE w == Remember(v, "activate", a)
           s == [sid |-> a.sid, k |-> a.k, fresh |-> TRUE]
<1>1. VaultType(v) /\ VaultRequest(q, i, v) /\ VaultSession(q, i, v)
  BY DEF VaultInv
<1>2. /\ q.req[i].id = v.req /\ v.req # 0 /\ q.req[i].status = "activated"
      /\ a.sid = q.req[i].sid /\ a.k = 0 /\ q.sess[a.sid].rots = <<>>
      /\ a.status \in Statuses
  BY DEF Opened, CodeMessage
<1>3. Held(q, i, a.sid) /\ a.sid \in Nat /\ q.req[i].op = v.enroll
  <2>1. Held(q, i, a.sid)
    BY <1>2 DEF SessionsOK, Numbered
  <2> QED
    BY <1>1, <1>2, <2>1, SessionNumbered DEF VaultRequest
<1>4. /\ DOMAIN w = DOMAIN v
      /\ w.enroll = v.enroll /\ w.req = v.req /\ w.sess = s /\ w.rot = v.rot
      /\ w.holds = v.holds /\ w.status = a.status
  BY <1>1 DEF VaultType, Remember
<1>5. /\ s \in [sid : Nat, k : Nat, fresh : BOOLEAN] /\ s # NoSession
      /\ s.sid = a.sid /\ s.k = 0
  <2>1. s.fresh /\ ~NoSession.fresh
    BY DEF NoSession
  <2> QED
    BY <1>2, <1>3, <2>1
<1>6. v.rot = NoRotation
  BY <1>1 DEF VaultSession
<1> HIDE DEF w, s
<1>7. VaultType(w) /\ VaultRequest(q, i, w)
  BY <1>1, <1>4, <1>5 DEF VaultType, VaultRequest
<1>8. VaultSession(q, i, w)
  <2>1. Follows(w, q.sess[w.sess.sid].rots)
    <3>1. Len(<<>>) = 0
      BY EmptySeq
    <3> QED
      BY <1>2, <1>4, <1>5, <3>1 DEF Follows
  <2> QED
    BY <1>2, <1>3, <1>4, <1>5, <1>6, <2>1 DEF VaultSession, Statuses
<1>9. ASSUME NEW m, MsgInv(q, i, v, m) PROVE MsgInv(q, i, w, m)
  BY <1>2, <1>3, <1>4, <1>5, <1>9 DEF MsgInv, RotationSent
<1> QED
  BY <1>7, <1>8, <1>9 DEF Becomes, VaultInv, w

LEMMA EnrolledBecomes ==
  ASSUME NEW q, SessionsOK(q), NEW i \in Inst, NEW v, VaultInv(q, i, v),
         v.sess = NoSession, NEW a, a.id = q.req[i].id, q.req[i].op = v.enroll
  PROVE  Becomes(q, i, v, Remember(v, "enroll", a))
<1> DEFINE w == Remember(v, "enroll", a)
<1>1. VaultType(v) /\ VaultRequest(q, i, v) /\ VaultSession(q, i, v)
  BY DEF VaultInv
<1>2. /\ DOMAIN w = DOMAIN v
      /\ w.enroll = v.enroll /\ w.req = a.id /\ w.sess = v.sess /\ w.rot = v.rot
      /\ w.holds = v.holds
  BY <1>1 DEF VaultType, Remember
<1>3. q.req[i].id \in Nat
  BY DEF SessionsOK, Numbered
<1> HIDE DEF w
<1>4. VaultType(w) /\ VaultRequest(q, i, w) /\ VaultSession(q, i, w)
  BY <1>1, <1>2, <1>3 DEF VaultType, VaultRequest, VaultSession
<1>5. ASSUME NEW m, MsgInv(q, i, v, m) PROVE MsgInv(q, i, w, m)
  BY <1>2, <1>5 DEF MsgInv, RotationSent
<1> QED
  BY <1>4, <1>5 DEF Becomes, VaultInv, w

(* Another request is prepared: the session is given up with the one the   *)
(* vault followed.                                                         *)
Requesting(v, dossier) ==
  [v EXCEPT !.enroll = @ + 1, !.dossier = dossier, !.status = "pending",
            !.req = 0, !.sess = NoSession, !.rot = NoRotation, !.act = NoCode]

LEMMA RequestedBecomes ==
  ASSUME NEW q, RegistryOK(q), SessionsOK(q), NEW i \in Inst,
         NEW v, VaultInv(q, i, v), v.holds, NEW dossier
  PROVE  /\ Becomes(q, i, v, Requesting(v, dossier))
         /\ Requesting(v, dossier).sess = NoSession
<1> DEFINE w == Requesting(v, dossier)
<1>1. VaultType(v) /\ VaultRequest(q, i, v)
  BY DEF VaultInv
<1>2. /\ DOMAIN w = DOMAIN v
      /\ w.enroll = v.enroll + 1 /\ w.req = 0 /\ w.sess = NoSession /\ w.rot = NoRotation
      /\ w.holds = v.holds
  BY <1>1 DEF VaultType, Requesting
<1>3. q.req[i].id \in Nat /\ q.req[i].op \in Nat /\ v.enroll \in Nat
  BY <1>1 DEF SessionsOK, Numbered, VaultType
<1>4. /\ NoSession \in [sid : Nat, k : Nat, fresh : BOOLEAN] /\ NoSession.sid = 0
      /\ NoRotation \in [id : Nat, k : Nat, late : BOOLEAN]
  BY DEF NoSession, NoRotation
<1> HIDE DEF w
<1>5. VaultType(w) /\ VaultRequest(q, i, w) /\ VaultSession(q, i, w)
  BY <1>1, <1>2, <1>3, <1>4 DEF VaultType, VaultRequest, VaultSession
<1>6. ASSUME NEW m, MsgInv(q, i, v, m) PROVE MsgInv(q, i, w, m)
  <2>1. q.req[i].op # w.enroll
    BY <1>1, <1>2, <1>3 DEF VaultRequest
  <2>2. m.action = "refresh" => m.sid # 0
    BY <1>6, SessionNumbered DEF MsgInv, RotationSent
  <2> QED
    BY <1>2, <1>3, <1>4, <1>6, <2>1, <2>2 DEF MsgInv, RotationSent
<1> QED
  BY <1>2, <1>5, <1>6 DEF Becomes, VaultInv, w

(* The step of a tablet, as its session sees it.                           *)
SessionStep(q, i) ==
  /\ Becomes(q, i, vault[i], vault'[i]) /\ CallInv(vault'[i], call'[i])
  /\ \A j \in Inst \ {i} : vault'[j] = vault[j] /\ call'[j] = call[j]

LEMMA WrittenStep ==
  ASSUME IInv, NEW i \in Inst, NEW q, NEW w, NEW c,
         Becomes(q, i, vault[i], w), CallInv(w, c),
         vault' = [vault EXCEPT ![i] = w], call' = [call EXCEPT ![i] = c]
  PROVE  SessionStep(q, i)
  BY DEF SessionStep, IInv, TabletsInv

LEMMA AskedCodes ==
  ASSUME NEW r, NEW i, NEW kind, NEW stage, NEW retried, NEW m
  PROVE  LET c == Asked(r, i, kind, stage, retried, m)
         IN  /\ c.kind = kind /\ c.stage = stage /\ c.msg \in {NoMessage, m}
             /\ c.ans.code # "OK"
             /\ m.action \notin {"request", "activate", "pending"}
                  => c.ans.code \in {"none"} \cup GuardCodes
<1> DEFINE code == Challenge(r, i, m)
           c == Asked(r, i, kind, stage, retried, m)
<1>1. m.action \notin {"request", "activate", "pending"} => code \in {"OK"} \cup GuardCodes
  BY DEF Challenge, GuardCodes
<1> HIDE DEF code
<1>2. /\ c.kind = kind /\ c.stage = stage /\ c.msg \in {NoMessage, m}
      /\ c.ans = IF code = "OK" THEN NoAnswer ELSE [code |-> code]
  BY DEF Asked, code
<1> HIDE DEF c
<1>3. c.ans.code = IF code = "OK" THEN "none" ELSE code
  BY <1>2 DEF NoAnswer
<1> QED
  BY <1>1, <1>2, <1>3 DEF c

(* An operation of the session starts, or goes on after an answer.         *)
LEMMA RenewalGoesOn ==
  ASSUME IInv, NEW i \in Inst, NEW q, RegistryOK(q), SessionsOK(q),
         NEW v, Becomes(q, i, vault[i], v),
         NEW kind, kind \in {"status", "sync"}, NEW retried, StartOrRenew(i, q, v, kind, retried)
  PROVE  SessionStep(q, i)
<1>1. VaultInv(q, i, v)
  BY DEF Becomes
<1>2. CASE v.sess = NoSession
  <2>1. /\ vault' = [vault EXCEPT ![i] = Failed(v, "session_expired")]
        /\ call' = [call EXCEPT ![i] = Idle]
    BY <1>2 DEF StartOrRenew
  <2>2. Becomes(q, i, vault[i], Failed(v, "session_expired"))
    BY <1>1, FailedBecomes, BecomesTwice
  <2> QED
    BY <2>1, <2>2, WrittenStep DEF CallInv
<1>3. CASE v.sess # NoSession /\ v.sess.fresh /\ v.rot = NoRotation
  <2> DEFINE m == MainMessage(i, v, kind)
             c == Asked(q, i, kind, "main", retried, m)
  <2>1. vault' = [vault EXCEPT ![i] = v] /\ call' = [call EXCEPT ![i] = c]
    BY <1>3 DEF StartOrRenew
  <2>2. m.action = kind
    BY DEF MainMessage
  <2> HIDE DEF m
  <2>3. /\ c.kind = kind /\ c.stage = "main" /\ c.msg \in {NoMessage, m}
        /\ c.ans.code \in {"none"} \cup GuardCodes
    BY <2>2, AskedCodes
  <2> HIDE DEF c
  <2>4. CallInv(v, c)
    BY <1>3, <2>2, <2>3 DEF CallInv, UsingSession
  <2> QED
    BY <2>1, <2>4, WrittenStep
<1>4. CASE v.sess # NoSession /\ ~(v.sess.fresh /\ v.rot = NoRotation)
  <2> DEFINE p == Prepared(v)
             m == RefreshMessage(p)
             c == Asked(q, i, kind, "refresh", retried, m)
  <2>1. Becomes(q, i, v, p) /\ p.sess # NoSession /\ p.rot # NoRotation
    BY <1>1, <1>4, PreparedBecomes
  <2>2. \/ /\ vault' = [vault EXCEPT ![i] = Failed(p, "session_expired")]
           /\ call' = [call EXCEPT ![i] = Idle]
        \/ vault' = [vault EXCEPT ![i] = p] /\ call' = [call EXCEPT ![i] = c]
    BY <1>4 DEF StartOrRenew
  <2> HIDE DEF p
  <2>3. m.action = "refresh"
    BY DEF RefreshMessage
  <2>4. Becomes(q, i, vault[i], p)
    BY <2>1, BecomesTwice
  <2>5. Becomes(q, i, vault[i], Failed(p, "session_expired"))
    BY <2>1, <2>4, FailedBecomes, BecomesTwice DEF Becomes
  <2> HIDE DEF m
  <2>6. /\ c.kind = kind /\ c.stage = "refresh" /\ c.msg \in {NoMessage, m}
        /\ c.ans.code \in {"none"} \cup GuardCodes
    BY <2>3, AskedCodes
  <2> HIDE DEF c
  <2>7. CallInv(p, c)
    BY <2>1, <2>6 DEF CallInv, UsingSession, m
  <2>8. CallInv(Failed(p, "session_expired"), Idle)
    BY DEF CallInv
  <2> QED
    BY <2>2, <2>4, <2>5, <2>7, <2>8, WrittenStep
<1> QED
  BY <1>2, <1>3, <1>4

LEMMA TranslatedCodes ==
  ASSUME NEW code, code # "ENROLLMENT_EXPIRED"
  PROVE  Translated(code) # "invitation_expired"
  BY DEF Translated

LEMMA AnswerRead ==
  ASSUME IInv, NEW i \in Inst, NEW q, RegistryOK(q), SessionsOK(q),
         VaultInv(q, i, vault[i]), CallInv(vault[i], call[i]), call[i] # Idle,
         NEW a, AnswerInv(q, i, vault[i], call[i], a), Answered(i, q, a)
  PROVE  SessionStep(q, i)
<1> DEFINE v == vault[i]
           c == call[i]
<1>1. Becomes(q, i, v, v)
  BY DEF Becomes
<1>2. ASSUME NEW w, Becomes(q, i, v, w),
             vault' = [vault EXCEPT ![i] = w], call' = [call EXCEPT ![i] = Idle]
      PROVE  SessionStep(q, i)
  <2>1. CallInv(w, Idle)
    BY DEF CallInv
  <2> QED
    BY <1>2, <2>1, WrittenStep
<1>3. CASE a.code = "OK" /\ c.stage = "refresh"
  <2>1. UsingSession(v, c)
    BY <1>3 DEF CallInv, Enrolling
  <2>2. v.sess # NoSession /\ v.rot # NoRotation /\ c.kind \in {"status", "sync"}
    BY <1>3, <2>1 DEF UsingSession
  <2>3. Becomes(q, i, v, Renewed(v, a))
    BY <1>3, <2>2, RenewedBecomes DEF AnswerInv
  <2>4. StartOrRenew(i, q, Renewed(v, a), c.kind, c.retried)
    BY <1>3 DEF Answered
  <2> QED
    BY <2>2, <2>3, <2>4, RenewalGoesOn
<1>4. CASE a.code = "OK" /\ c.stage = "main"
  <2>1. /\ vault' = [vault EXCEPT ![i] = Remember(v, c.kind, a)]
        /\ call' = [call EXCEPT ![i] = Idle]
    BY <1>4 DEF Answered
  <2>2. CASE Enrolling(v, c)
    <3>1. v.sess = NoSession /\ c.kind \in {"enroll", "activate", "pending"}
      BY <2>2 DEF Enrolling
    <3>2. CASE c.kind = "enroll"
      BY <1>2, <1>4, <2>1, <3>1, <3>2, EnrolledBecomes DEF AnswerInv
    <3>3. CASE c.kind = "activate"
      BY <1>2, <1>4, <2>1, <3>1, <3>3, ActivatedBecomes DEF AnswerInv
    <3>4. CASE c.kind = "pending"
      <4> DEFINE w == [v EXCEPT !.status = a.status]
      <4>1. Remember(v, c.kind, a) = w
        BY <3>4 DEF Remember
      <4>2. SameSession(v, w)
        BY Written DEF VaultInv
      <4> HIDE DEF w
      <4>3. Becomes(q, i, v, w)
        BY <3>1, <4>2, SameSessionBecomes
      <4> QED
        BY <1>2, <2>1, <4>1, <4>3
    <3> QED
      BY <3>1, <3>2, <3>3, <3>4
  <2>3. CASE UsingSession(v, c)
    <3>1. CASE c.kind = "sync"
      <4>1. Remember(v, c.kind, a) = v
        BY <3>1 DEF Remember
      <4> QED
        BY <1>1, <1>2, <2>1, <4>1
    <3>2. CASE c.kind = "status"
      <4> DEFINE w == [v EXCEPT !.status = a.status]
      <4>1. Remember(v, c.kind, a) = w
        BY <3>2 DEF Remember
      <4>2. SameSession(v, w) /\ w.status = a.status
        BY DEF VaultInv, VaultType, SameSession
      <4>3. a.status \notin {"pending", "invitation_expired"}
        BY <1>4, <3>2 DEF AnswerInv, Statuses
      <4> HIDE DEF w
      <4>4. Becomes(q, i, v, w)
        BY <4>2, <4>3, SameSessionBecomes
      <4> QED
        BY <1>2, <2>1, <4>1, <4>4
    <3> QED
      BY <2>3, <3>1, <3>2 DEF UsingSession
  <2> QED
    BY <2>2, <2>3 DEF CallInv
<1>5. CASE a.code # "OK"
  <2>1. CASE StartOrRenew(i, q, [v EXCEPT !.sess.fresh = FALSE], "sync", TRUE) /\ c.kind = "sync"
    <3> DEFINE w == [v EXCEPT !.sess.fresh = FALSE]
    <3>1. v.sess # NoSession
      BY <2>1 DEF CallInv, Enrolling, UsingSession
    <3>2. Becomes(q, i, v, w)
      BY <3>1, StaleBecomes
    <3>3. StartOrRenew(i, q, w, "sync", TRUE)
      BY <2>1
    <3> HIDE DEF w
    <3> QED
      BY <3>2, <3>3, RenewalGoesOn
  <2>2. CASE /\ vault' = [vault EXCEPT ![i] = Failed(v, Translated(a.code))]
             /\ call' = [call EXCEPT ![i] = Idle]
    <3>1. v.sess = NoSession \/ a.code # "ENROLLMENT_EXPIRED"
      BY DEF CallInv, Enrolling, UsingSession, AnswerInv
    <3>2. v.sess = NoSession \/ Translated(a.code) # "invitation_expired"
      BY <3>1, TranslatedCodes
    <3>3. Becomes(q, i, v, Failed(v, Translated(a.code)))
      BY <3>2, FailedBecomes
    <3> QED
      BY <1>2, <2>2, <3>3
  <2> QED
    BY <1>5, <2>1, <2>2 DEF Answered
<1>6. c.stage \in {"main", "refresh"}
  BY DEF CallInv, Enrolling, UsingSession
<1> QED
  BY <1>3, <1>4, <1>5, <1>6

(* The registry has served i, whose tablet has taken its step.             *)
LEMMA SessionStepKeeps ==
  ASSUME SessInv, NEW i \in Inst, Served(reg, reg', i, vault[i]), SessionStep(reg', i),
         \A m \in late'[i] : MsgInv(reg, i, vault[i], m),
         \A j \in Inst \ {i} : late'[j] = late[j]
  PROVE  SessInv'
<1>1. SessionsOK(reg')
  BY DEF Served
<1>2. ASSUME NEW j \in Inst \ {i}
      PROVE  /\ VaultInv(reg', j, vault'[j]) /\ CallInv(vault'[j], call'[j])
             /\ \A m \in late'[j] : MsgInv(reg', j, vault'[j], m)
  <2>1. Untouched(reg, reg', j) /\ vault'[j] = vault[j] /\ call'[j] = call[j] /\ late'[j] = late[j]
    BY DEF Served, SessionStep
  <2>2. /\ VaultInv(reg, j, vault[j]) /\ CallInv(vault[j], call[j])
        /\ \A m \in late[j] : MsgInv(reg, j, vault[j], m)
    BY DEF SessInv
  <2>3. VaultInv(reg', j, vault[j])
    BY <2>1, <2>2, UntouchedVault
  <2>4. \A m \in late[j] : MsgInv(reg', j, vault[j], m)
    BY <2>1, <2>2, UntouchedMessage
  <2> QED
    BY <2>1, <2>2, <2>3, <2>4
<1>3. /\ VaultInv(reg', i, vault'[i]) /\ CallInv(vault'[i], call'[i])
      /\ \A m \in late'[i] : MsgInv(reg', i, vault'[i], m)
  BY DEF Served, SessionStep, Becomes
<1>4. SessionsOK(reg)'
  BY <1>1
<1>5. \A j \in Inst :
        /\ VaultInv(reg', j, vault'[j]) /\ CallInv(vault'[j], call'[j])
        /\ \A m \in late'[j] : MsgInv(reg', j, vault'[j], m)
  BY <1>2, <1>3
<1> QED
  BY <1>4, <1>5 DEF SessInv

LEMMA SessionNow ==
  ASSUME SessInv, NEW i \in Inst
  PROVE  /\ SessionsOK(reg) /\ VaultInv(reg, i, vault[i]) /\ CallInv(vault[i], call[i])
         /\ Becomes(reg, i, vault[i], vault[i])
         /\ Served(reg, reg, i, vault[i])
         /\ \A m \in late[i] : MsgInv(reg, i, vault[i], m)
  BY NothingServed DEF SessInv, Becomes

(* The server did nothing.                                                 *)
LEMMA TabletAlone ==
  ASSUME SessInv, NEW i \in Inst, SessionStep(reg, i), UNCHANGED <<reg, late>>
  PROVE  SessInv'
<1>1. Served(reg, reg', i, vault[i]) /\ SessionStep(reg', i)
  BY SessionNow
<1> QED
  BY <1>1, SessionNow, SessionStepKeeps

(* The tablet did nothing.                                                 *)
LEMMA ServerAlone ==
  ASSUME SessInv, NEW i \in Inst, Served(reg, reg', i, vault[i]),
         UNCHANGED <<vault, call>>, \A m \in late'[i] : MsgInv(reg, i, vault[i], m),
         \A j \in Inst \ {i} : late'[j] = late[j]
  PROVE  SessInv'
<1>1. SessionStep(reg', i)
  BY SessionNow DEF SessionStep, Served, Becomes
<1> QED
  BY <1>1, SessionStepKeeps

LEMMA RequestEnrollmentGoesOn ==
  ASSUME IInv, SessInv, NEW i \in Inst, vault[i].holds,
         NEW reconnect \in BOOLEAN, RequestEnrollment(i, reconnect)
  PROVE  SessionStep(reg, i)
<1> DEFINE v == vault[i]
           new == Requesting(v, journal[i])
           c(w) == Sent(i, "enroll", "main", FALSE, EnrollMessage(w))
<1>1. \/ vault' = [vault EXCEPT ![i] = v] /\ call' = [call EXCEPT ![i] = c(v)] /\ v.sess = NoSession
      \/ vault' = [vault EXCEPT ![i] = new] /\ call' = [call EXCEPT ![i] = c(new)]
  BY DEF RequestEnrollment, Requesting
<1>2. Becomes(reg, i, v, new) /\ new.sess = NoSession
  <2>1. RegistryOK(reg) /\ SessionsOK(reg) /\ VaultInv(reg, i, v)
    BY SessionNow DEF IInv, RegistryInv
  <2> QED
    BY <2>1, RequestedBecomes
<1> HIDE DEF new
<1>3. ASSUME NEW w, w.sess = NoSession PROVE CallInv(w, c(w))
  <2> DEFINE m == EnrollMessage(w)
             d == Asked(reg, i, "enroll", "main", FALSE, m)
  <2>1. d.kind = "enroll" /\ d.stage = "main" /\ d.msg \in {NoMessage, m} /\ d.ans.code # "OK"
    <3> HIDE DEF m
    <3> QED
      BY DEF Asked, NoAnswer, NoMessage
  <2> HIDE DEF d
  <2>2. CallInv(w, d)
    BY <1>3, <2>1 DEF CallInv, Enrolling
  <2> QED
    BY <2>2 DEF d, Sent
<1> HIDE DEF c
<1> QED
  BY <1>1, <1>2, <1>3, SessionNow, WrittenStep

LEMMA ActivatingGoesOn ==
  ASSUME IInv, SessInv, NEW i \in Inst, vault[i].sess = NoSession, NEW code,
         Activating(i, vault[i], code)
  PROVE  SessionStep(reg, i)
<1> DEFINE v == vault[i]
           w == WithCode(v, code)
           m == CodeMessage(w)
           c == Asked(reg, i, "activate", "main", FALSE, m)
<1>1. vault' = [vault EXCEPT ![i] = w] /\ call' = [call EXCEPT ![i] = c]
  BY DEF Activating, Sent
<1>2. SameSession(v, w) /\ w.status = v.status
  BY Written, SessionNow DEF VaultInv
<1> HIDE DEF w
<1>3. Becomes(reg, i, v, w) /\ w.sess = NoSession
  BY <1>2, SessionNow, SameSessionBecomes DEF SameSession
<1> HIDE DEF m
<1>4. c.kind = "activate" /\ c.stage = "main" /\ c.msg \in {NoMessage, m} /\ c.ans.code # "OK"
  BY DEF Asked, NoAnswer, NoMessage
<1> HIDE DEF c
<1>5. CallInv(w, c)
  BY <1>3, <1>4 DEF CallInv, Enrolling, m
<1> QED
  BY <1>1, <1>3, <1>5, WrittenStep

LEMMA AskEnrollmentSession ==
  ASSUME IInv, SessInv, NEW i \in Inst, AskEnrollment(i)
  PROVE  SessInv'
<1> DEFINE reconnect == PublicStatus(vault[i]) \in Reconnectable
<1>1. /\ vault[i].holds /\ reconnect \in BOOLEAN /\ RequestEnrollment(i, reconnect)
      /\ UNCHANGED <<reg, late>>
  BY DEF AskEnrollment, Free
<1> HIDE DEF reconnect
<1>2. SessionStep(reg, i)
  BY <1>1, RequestEnrollmentGoesOn
<1> QED
  BY <1>1, <1>2, TabletAlone

(* A code is typed for a request that waits, so no session is at stake.    *)
LEMMA EnterCodeSession ==
  ASSUME IInv, SessInv, NEW i \in Inst, EnterCode(i)
  PROVE  SessInv'
<1>1. vault[i].status \in {"pending", "invitation_expired"} /\ UNCHANGED <<reg, late>>
  BY DEF EnterCode
<1>2. PICK code : Activating(i, vault[i], code)
  BY DEF EnterCode
<1>3. vault[i].sess = NoSession
  BY <1>1, SessionNow DEF VaultInv, VaultSession
<1> QED
  BY <1>1, <1>2, <1>3, ActivatingGoesOn, TabletAlone

LEMMA VerifySession ==
  ASSUME IInv, SessInv, NEW i \in Inst, Verify(i)
  PROVE  SessInv'
<1> DEFINE v == vault[i]
<1>1. v.holds /\ UNCHANGED <<reg, late>>
  BY DEF Verify, Free
<1>2. CASE v.sess = NoSession /\ Activating(i, v, v.act)
  BY <1>1, <1>2, ActivatingGoesOn, TabletAlone
<1>3. CASE RequestEnrollment(i, FALSE)
  BY <1>1, <1>3, RequestEnrollmentGoesOn, TabletAlone
<1>4. CASE /\ v.sess = NoSession /\ UNCHANGED vault
           /\ call' = [call EXCEPT ![i] = Sent(i, "pending", "main", FALSE,
                                               [action |-> "pending", req |-> v.req])]
  <2> DEFINE m == [action |-> "pending", req |-> v.req]
             c == Asked(reg, i, "pending", "main", FALSE, m)
  <2>1. call' = [call EXCEPT ![i] = c]
    BY <1>4 DEF Sent
  <2> HIDE DEF m
  <2>2. c.kind = "pending" /\ c.stage = "main" /\ c.msg \in {NoMessage, m} /\ c.ans.code # "OK"
    BY DEF Asked, NoAnswer, NoMessage
  <2> HIDE DEF c
  <2>3. CallInv(v, c)
    BY <1>4, <2>2 DEF CallInv, Enrolling, m
  <2>4. SessionStep(reg, i)
    BY <1>4, <2>1, <2>3, SessionNow DEF SessionStep, IInv, TabletsInv
  <2> QED
    BY <1>1, <2>4, TabletAlone
<1>5. CASE StartOrRenew(i, reg, v, "status", FALSE)
  <2>1. SessionStep(reg, i)
    BY <1>5, SessionNow, RenewalGoesOn DEF IInv, RegistryInv
  <2> QED
    BY <1>1, <2>1, TabletAlone
<1> QED
  BY <1>2, <1>3, <1>4, <1>5 DEF Verify

LEMMA SendSyncSession ==
  ASSUME IInv, SessInv, NEW i \in Inst, SendSync(i)
  PROVE  SessInv'
<1>1. StartOrRenew(i, reg, vault[i], "sync", FALSE) /\ UNCHANGED <<reg, late>>
  BY DEF SendSync
<1>2. SessionStep(reg, i)
  BY <1>1, SessionNow, RenewalGoesOn DEF IInv, RegistryInv
<1> QED
  BY <1>1, <1>2, TabletAlone

(* A refusal is no answer to what was asked.                               *)
LEMMA RefusedSession ==
  ASSUME IInv, SessInv, NEW i \in Inst, Refused(i)
  PROVE  SessInv'
<1>1. call[i].ans # NoAnswer /\ Answered(i, reg, call[i].ans) /\ UNCHANGED <<reg, late>>
  BY DEF Refused
<1>2. call[i] # Idle
  BY <1>1 DEF Idle
<1>3. AnswerInv(reg, i, vault[i], call[i], call[i].ans)
  BY <1>2, SessionNow DEF CallInv, Enrolling, UsingSession, AnswerInv, GuardCodes
<1>4. SessionStep(reg, i)
  BY <1>1, <1>2, <1>3, SessionNow, AnswerRead DEF IInv, RegistryInv
<1> QED
  BY <1>1, <1>4, TabletAlone

LEMMA ServeSession ==
  ASSUME IInv, SessInv, NEW i \in Inst, Serve(i)
  PROVE  SessInv'
<1> DEFINE h == Handle(reg, i, call[i].msg)
<1>1. /\ call[i].msg # NoMessage /\ UNCHANGED late /\ reg' = h.reg
      /\ \/ Answered(i, h.reg, h.ans)
         \/ call' = [call EXCEPT ![i] = Idle] /\ UNCHANGED vault
  BY DEF Serve
<1>2. Served(reg, h.reg, i, vault[i]) /\ AnswerInv(h.reg, i, vault[i], call[i], h.ans)
  BY <1>1, SessionNow, SentServes DEF IInv
<1>3. RegistryOK(h.reg)
  <2>1. call[i].msg = NoMessage \/ MessageOK(call[i].msg, journal[i])
    BY DEF IInv, TabletsInv
  <2>2. RegistryInv(reg', journal)
    BY <1>1, <2>1, HandledStep
  <2> QED
    BY <1>1, <2>2 DEF RegistryInv
<1>4. call[i] # Idle
  BY <1>1 DEF Idle
<1> HIDE DEF h
<1>5. SessionStep(reg', i)
  <2>1. SessionsOK(h.reg) /\ VaultInv(h.reg, i, vault[i])
    BY <1>2 DEF Served
  <2>2. CASE Answered(i, h.reg, h.ans)
    BY <1>1, <1>2, <1>3, <1>4, <2>1, <2>2, SessionNow, AnswerRead
  <2>3. CASE call' = [call EXCEPT ![i] = Idle] /\ UNCHANGED vault
    BY <1>1, <2>1, <2>3 DEF SessionStep, Becomes, CallInv, IInv, TabletsInv
  <2> QED
    BY <1>1, <2>2, <2>3
<1> QED
  BY <1>1, <1>2, <1>5, SessionNow, SessionStepKeeps

LEMMA AbandonSession ==
  ASSUME IInv, SessInv, NEW i \in Inst, Abandon(i)
  PROVE  SessInv'
<1>1. UNCHANGED <<reg, vault>> /\ call' = [call EXCEPT ![i] = Idle]
  BY DEF Abandon
<1>2. \/ UNCHANGED late
      \/ late' = [late EXCEPT ![i] = @ \cup {call[i].msg}]
  BY DEF Abandon
<1>3. MsgInv(reg, i, vault[i], call[i].msg)
  BY SessionNow, SentServes DEF IInv
<1>4. /\ \A m \in late'[i] : MsgInv(reg, i, vault[i], m)
      /\ \A j \in Inst \ {i} : late'[j] = late[j]
  BY <1>2, <1>3, SessionNow DEF IInv, TabletsInv
<1>5. SessionStep(reg', i) /\ Served(reg, reg', i, vault[i])
  BY <1>1, SessionNow DEF SessionStep, CallInv, IInv, TabletsInv
<1> QED
  BY <1>4, <1>5, SessionStepKeeps

LEMMA ServeLateSession ==
  ASSUME IInv, SessInv, NEW i \in Inst, ServeLate(i)
  PROVE  SessInv'
<1>1. PICK m \in late[i] : /\ late' = [late EXCEPT ![i] = @ \ {m}]
                           /\ reg' = Handle(reg, i, m).reg
                           /\ UNCHANGED <<vault, call, journal, trouble>>
  BY DEF ServeLate
<1>2. Served(reg, reg', i, vault[i])
  BY <1>1, SessionNow, HandleServes DEF IInv
<1>3. /\ \A n \in late'[i] : MsgInv(reg, i, vault[i], n)
      /\ \A j \in Inst \ {i} : late'[j] = late[j]
  BY <1>1, SessionNow DEF IInv, TabletsInv
<1> QED
  BY <1>1, <1>2, <1>3, ServerAlone

(* The vault is written and no operation starts.                           *)
LEMMA OnlyWritten ==
  ASSUME IInv, SessInv, NEW i \in Inst, NEW w, Becomes(reg', i, vault[i], w), call[i] = Idle,
         vault' = [vault EXCEPT ![i] = w], UNCHANGED <<call, late>>,
         Served(reg, reg', i, vault[i])
  PROVE  SessInv'
<1>1. SessionStep(reg', i)
  BY DEF SessionStep, CallInv, IInv, TabletsInv
<1> QED
  BY <1>1, SessionNow, SessionStepKeeps

LEMMA OperationWritten ==
  ASSUME NEW v, VaultType(v), NEW path, NEW req, NEW replaces
  PROVE  LET w == WithOperation(v, path, req, replaces)
         IN  /\ SameSession(v, w) /\ w.status = v.status
             /\ SameSession(v, [w EXCEPT !.manager = NoOperation])
             /\ [w EXCEPT !.manager = NoOperation].status = v.status
             /\ \A code : SameSession(v, WithCode(w, code))
                          /\ WithCode(w, code).status = v.status
<1> DEFINE w == WithOperation(v, path, req, replaces)
<1>1. SameSession(v, w) /\ w.status = v.status
  BY DEF VaultType, SameSession, WithOperation
<1>2. DOMAIN v = DOMAIN w
  BY <1>1 DEF SameSession
<1> HIDE DEF w
<1>3. /\ SameSession(v, [w EXCEPT !.manager = NoOperation])
      /\ [w EXCEPT !.manager = NoOperation].status = v.status
  BY <1>1, <1>2 DEF VaultType, SameSession
<1>4. ASSUME NEW code
      PROVE  SameSession(v, WithCode(w, code)) /\ WithCode(w, code).status = v.status
  BY <1>1, <1>2 DEF VaultType, SameSession, WithCode
<1> QED
  BY <1>1, <1>3, <1>4 DEF w

(* An approval given here is for a request that waits: the tablet has no   *)
(* session when it uses the invitation.                                    *)
LEMMA ApproveSession ==
  ASSUME IInv, SessInv, NEW i \in Inst, NEW replaces, Approve(i, replaces)
  PROVE  SessInv'
<1> DEFINE v == vault[i]
           w == WithOperation(v, "approve", v.req, replaces)
           d == [req |-> w.req, op |-> w.manager.op, approve |-> TRUE, replaces |-> replaces]
           done == Decide(reg, i, d)
           x == WithCode(w, done.ans.invitation)
           y == [w EXCEPT !.manager = NoOperation]
           c == Asked(done.reg, i, "activate", "main", FALSE, CodeMessage(x))
<1>1. /\ call[i] = Idle /\ UNCHANGED late /\ reg' = done.reg
      /\ \/ /\ done.ans.code = "OK"
            /\ vault' = [vault EXCEPT ![i] = x] /\ call' = [call EXCEPT ![i] = c]
         \/ vault' = [vault EXCEPT ![i] = y] /\ UNCHANGED call
         \/ vault' = [vault EXCEPT ![i] = w] /\ UNCHANGED call
  BY DEF Approve, Free
<1>2. /\ SameSession(v, w) /\ w.status = v.status
      /\ SameSession(v, y) /\ y.status = v.status
      /\ SameSession(v, x) /\ x.status = v.status
  BY SessionNow, OperationWritten DEF VaultInv
<1>3. /\ Served(reg, done.reg, i, v)
      /\ done.ans.code = "OK" => reg.req[i].id = d.req /\ reg.req[i].status # "activated"
  <2> HIDE DEF d
  <2> QED
    BY SessionNow, DecideServes DEF IInv
<1>4. d.req = v.req
  BY <1>2 DEF SameSession
<1> HIDE DEF w, d, done, x, y
<1>5. VaultInv(done.reg, i, v)
  BY <1>3 DEF Served
<1>6. /\ Becomes(done.reg, i, v, w) /\ Becomes(done.reg, i, v, y) /\ Becomes(done.reg, i, v, x)
  BY <1>2, <1>5, SameSessionBecomes
<1>7. CASE /\ done.ans.code = "OK"
           /\ vault' = [vault EXCEPT ![i] = x] /\ call' = [call EXCEPT ![i] = c]
  <2>1. v.sess = NoSession
    BY <1>3, <1>4, <1>7, SessionNow DEF VaultInv, VaultSession
  <2>2. x.sess = NoSession
    BY <1>2, <2>1 DEF SameSession
  <2>3. CallInv(x, c)
    <3> DEFINE m == CodeMessage(x)
    <3> HIDE DEF m
    <3>1. /\ c.kind = "activate" /\ c.stage = "main" /\ c.msg \in {NoMessage, m}
          /\ c.ans.code # "OK"
      BY DEF Asked, NoAnswer, NoMessage, m
    <3> HIDE DEF c
    <3> QED
      BY <2>2, <3>1 DEF CallInv, Enrolling, m
  <2> HIDE DEF c
  <2>4. SessionStep(reg', i)
    BY <1>1, <1>6, <1>7, <2>3, WrittenStep
  <2> QED
    BY <1>1, <1>3, <2>4, SessionNow, SessionStepKeeps
<1> QED
  BY <1>1, <1>3, <1>6, <1>7, OnlyWritten

LEMMA RejectSession ==
  ASSUME IInv, SessInv, NEW i \in Inst, Reject(i)
  PROVE  SessInv'
<1> DEFINE v == vault[i]
           w == WithOperation(v, "reject", v.req, NoInst)
           d == [req |-> w.req, op |-> w.manager.op, approve |-> FALSE, replaces |-> NoInst]
           done == Decide(reg, i, d)
           x == [w EXCEPT !.status = "rejected"]
<1>1. /\ call[i] = Idle /\ UNCHANGED <<call, late>> /\ reg' = done.reg
      /\ vault' = [vault EXCEPT ![i] = x] \/ vault' = [vault EXCEPT ![i] = w]
  BY DEF Reject, Free
<1>2. VaultType(v) /\ SameSession(v, w) /\ w.status = v.status
  <2>1. VaultType(v)
    BY SessionNow DEF VaultInv
  <2> QED
    BY <2>1 DEF VaultType, SameSession, WithOperation
<1>3. SameSession(v, x) /\ x.status = "rejected"
  <2> HIDE DEF w
  <2> QED
    BY <1>2 DEF VaultType, SameSession
<1>4. Served(reg, done.reg, i, v)
  <2> HIDE DEF d
  <2> QED
    BY SessionNow, DecideServes DEF IInv
<1> HIDE DEF w, d, done, x
<1>5. VaultInv(done.reg, i, v)
  BY <1>4 DEF Served
<1>6. Becomes(done.reg, i, v, w) /\ Becomes(done.reg, i, v, x)
  BY <1>2, <1>3, <1>5, SameSessionBecomes
<1> QED
  BY <1>1, <1>4, <1>6, OnlyWritten

LEMMA ApproveElsewhereSession ==
  ASSUME IInv, SessInv, NEW i \in Inst, NEW replaces, ApproveElsewhere(i, replaces)
  PROVE  SessInv'
<1>1. PICK d : reg' = Decide(reg, i, d).reg
  BY DEF ApproveElsewhere
<1>2. UNCHANGED <<vault, call, late>>
  BY DEF ApproveElsewhere
<1>3. Served(reg, reg', i, vault[i])
  BY <1>1, SessionNow, DecideServes DEF IInv
<1> QED
  BY <1>2, <1>3, SessionNow, ServerAlone

LEMMA RevokeHereSession ==
  ASSUME IInv, SessInv, NEW i \in Inst, RevokeHere(i)
  PROVE  SessInv'
<1> DEFINE v == vault[i]
           w == WithOperation(v, "revoke", 0, NoInst)
           done == Revoke(reg, i, w.manager.op)
           x == [w EXCEPT !.status = "revoked"]
<1>1. /\ call[i] = Idle /\ UNCHANGED <<call, late>> /\ reg' = done.reg
      /\ vault' = [vault EXCEPT ![i] = x] \/ vault' = [vault EXCEPT ![i] = w]
  BY DEF RevokeHere, Free
<1>2. VaultType(v) /\ SameSession(v, w) /\ w.status = v.status
  <2>1. VaultType(v)
    BY SessionNow DEF VaultInv
  <2> QED
    BY <2>1 DEF VaultType, SameSession, WithOperation
<1>3. SameSession(v, x) /\ x.status = "revoked"
  <2> HIDE DEF w
  <2> QED
    BY <1>2 DEF VaultType, SameSession
<1> HIDE DEF w, x
<1>4. Served(reg, done.reg, i, v)
  BY SessionNow, RevokeServes DEF IInv
<1> HIDE DEF done
<1>5. VaultInv(done.reg, i, v)
  BY <1>4 DEF Served
<1>6. Becomes(done.reg, i, v, w) /\ Becomes(done.reg, i, v, x)
  BY <1>2, <1>3, <1>5, SameSessionBecomes
<1> QED
  BY <1>1, <1>4, <1>6, OnlyWritten

LEMMA RevokeElsewhereSession ==
  ASSUME IInv, SessInv, NEW i \in Inst, RevokeElsewhere(i)
  PROVE  SessInv'
<1>1. PICK op : reg' = Revoke(reg, i, op).reg
  BY DEF RevokeElsewhere
<1>2. UNCHANGED <<vault, call, late>>
  BY DEF RevokeElsewhere
<1>3. Served(reg, reg', i, vault[i])
  BY <1>1, SessionNow, RevokeServes DEF IInv
<1> QED
  BY <1>2, <1>3, SessionNow, ServerAlone

LEMMA AccessExpiresSession ==
  ASSUME IInv, SessInv, NEW i \in Inst, AccessExpires(i)
  PROVE  SessInv'
<1> DEFINE v == vault[i]
           w == [v EXCEPT !.sess.fresh = FALSE]
<1>1. /\ call[i] = Idle /\ v.sess.fresh /\ vault' = [vault EXCEPT ![i] = w]
      /\ UNCHANGED <<reg, call, late>>
  BY DEF AccessExpires, IInv, TabletsInv
<1>2. v.sess # NoSession
  BY <1>1 DEF NoSession
<1>3. Becomes(reg, i, v, w)
  BY <1>2, SessionNow, StaleBecomes DEF IInv, RegistryInv
<1> HIDE DEF w
<1> QED
  BY <1>1, <1>3, SessionNow, OnlyWritten

LEMMA SellSession ==
  ASSUME SessInv, NEW i \in Inst, Sell(i)
  PROVE  SessInv'
<1>1. UNCHANGED <<reg, vault, call, late>>
  BY DEF Sell
<1> QED
  BY <1>1 DEF SessInv

(* The minute of a rotation is over on the server: over already on the     *)
(* tablet when the rotation is the one it may still ask for.               *)
LEMMA RotationDies ==
  ASSUME IInv, SessInv, NEW i \in Inst, NEW s \in DOMAIN reg.sess, reg.sess[s].inst = i,
         NEW k \in DOMAIN reg.sess[s].rots,
         vault[i].sess.sid = s /\ vault[i].rot.k = k - 1 /\ vault[i].rot # NoRotation
           => vault[i].rot.late,
         reg' = [reg EXCEPT !.sess[s].rots[k].dead = TRUE], UNCHANGED <<vault, call, late>>
  PROVE  SessInv'
<1> DEFINE v    == vault[i]
           old  == reg.sess[s].rots
           rots == [old EXCEPT ![k] = [old[k] EXCEPT !.dead = TRUE]]
           S    == [reg.sess[s] EXCEPT !.rots = rots]
<1>1. /\ SessionsOK(reg) /\ VaultInv(reg, i, v) /\ RegistryOK(reg)
      /\ SessionOK(reg.sess[s])
  BY SessionNow DEF IInv, RegistryInv, RegistryOK
<1>2. /\ old \in Seq(Rotation) /\ \A n \in 1..Len(old) : old[n].id = n
      /\ DOMAIN old = 1..Len(old) /\ Len(old) \in Nat
  BY <1>1, LenProperties DEF SessionsOK, RotationsOK
<1>3. /\ rots \in Seq(Rotation) /\ Len(rots) = Len(old)
      /\ \A n \in 1..Len(old) : rots[n].id = n
      /\ \A n \in 1..Len(old) : n # k => rots[n] = old[n]
  <2> DEFINE new == [old[k] EXCEPT !.dead = TRUE]
  <2>1. k \in 1..Len(old) /\ rots = [old EXCEPT ![k] = new]
    BY <1>2
  <2> HIDE DEF rots, old
  <2>2. old[k] \in Rotation /\ old[k].id = k
    BY <1>2, <2>1, ElementOfSeq
  <2>3. new \in Rotation /\ new.id = k
    BY <2>2 DEF Rotation
  <2> HIDE DEF new
  <2>4. /\ rots \in Seq(Rotation) /\ Len(rots) = Len(old)
        /\ \A n \in 1..Len(old) : rots[n] = IF n = k THEN new ELSE old[n]
    BY <1>2, <2>1, <2>3, ExceptSeq
  <2>5. \A n \in 1..Len(old) : rots[n].id = n
    BY <1>2, <2>3, <2>4
  <2> QED
    BY <2>4, <2>5 DEF rots, old
<1>4. /\ reg'.req = reg.req /\ reg'.inst = reg.inst
      /\ reg'.sess = [reg.sess EXCEPT ![s] = S]
  BY <1>1 DEF RegistryOK
<1>5. /\ S.inst = i /\ S.gen = reg.sess[s].gen /\ S.active = reg.sess[s].active
      /\ S.rots = rots
  BY <1>1 DEF SessionOK
<1> HIDE DEF S, rots
<1>6. /\ DOMAIN reg'.sess = DOMAIN reg.sess /\ reg'.sess[s] = S
      /\ \A t \in DOMAIN reg.sess \ {s} : reg'.sess[t] = reg.sess[t]
  BY <1>4
<1>7. SessionsOK(reg')
  <2>1. RotationsOK(reg')
    <3>1. ASSUME NEW t \in DOMAIN reg.sess
          PROVE  /\ reg'.sess[t].rots \in Seq(Rotation)
                 /\ \A n \in 1..Len(reg'.sess[t].rots) : reg'.sess[t].rots[n].id = n
      <4>1. CASE t = s
        BY <1>3, <1>5, <1>6, <4>1
      <4>2. CASE t # s
        BY <1>1, <1>6, <4>2 DEF SessionsOK, RotationsOK
      <4> QED
        BY <4>1, <4>2
    <3> QED
      BY <1>6, <3>1 DEF RotationsOK
  <2>2. OneSession(reg')
    <3> SUFFICES ASSUME NEW j \in Inst, reg'.inst[j].active
                 PROVE  \E t \in DOMAIN reg'.sess : LiveSessions(reg', j) = {t}
      BY DEF OneSession
    <3>1. LiveSessions(reg', j) = LiveSessions(reg, j)
      BY <1>4, <1>5, <1>6 DEF LiveSessions
    <3>2. \E t \in DOMAIN reg.sess : LiveSessions(reg, j) = {t}
      BY <1>1, <1>4 DEF SessionsOK, OneSession
    <3> QED
      BY <1>6, <3>1, <3>2
  <2>3. \A j \in Inst : Numbered(reg', j)
    BY <1>1, <1>4, <1>5, <1>6 DEF SessionsOK, Numbered, Held
  <2> QED
    BY <2>1, <2>2, <2>3 DEF SessionsOK
<1>8. VaultInv(reg', i, v)
  <2>1. VaultType(v) /\ VaultRequest(reg', i, v)
    BY <1>1, <1>4 DEF VaultInv, VaultRequest
  <2>2. CASE v.sess.sid = s /\ v.sess # NoSession
    <3>1. Follows(v, old) /\ v.rot # NoRotation => v.rot.k = v.sess.k
      BY <1>1, <2>2 DEF VaultInv, VaultSession
    <3>2. Follows(v, old)
      BY <1>1, <2>2 DEF VaultInv, VaultSession
    <3>3. v.sess.k \in Nat
      BY <2>1 DEF VaultType
    <3>4. Follows(v, rots)
      <4>1. CASE v.sess.k = Len(old)
        BY <1>3, <4>1 DEF Follows
      <4>2. CASE v.sess.k = Len(old) - 1 /\ v.rot # NoRotation
        <5>1. Len(old) \in 1..Len(old)
          BY <1>2, <3>3, <4>2
        <5>2. CASE Len(old) = k
          BY <1>3, <2>2, <3>1, <3>2, <4>2, <5>2 DEF Follows
        <5>3. CASE Len(old) # k
          <6>1. rots[Len(old)] = old[Len(old)]
            BY <1>3, <5>1, <5>3
          <6> HIDE DEF old
          <6> QED
            BY <1>2, <1>3, <3>2, <3>3, <4>2, <6>1 DEF Follows
        <5> QED
          BY <5>2, <5>3
      <4> QED
        BY <3>2, <4>1, <4>2 DEF Follows
    <3>5. VaultSession(reg', i, v)
      BY <1>1, <1>4, <1>5, <1>6, <2>2, <3>4 DEF VaultInv, VaultSession, Held
    <3> QED
      BY <2>1, <3>5 DEF VaultInv
  <2>3. CASE v.sess.sid # s \/ v.sess = NoSession
    <3>1. VaultSession(reg', i, v)
      BY <1>1, <1>4, <1>6, <2>3 DEF VaultInv, VaultSession, Held
    <3> QED
      BY <2>1, <3>1 DEF VaultInv
  <2> QED
    BY <2>2, <2>3
<1>9. ASSUME NEW m, MsgInv(reg, i, v, m) PROVE MsgInv(reg', i, v, m)
  BY <1>3, <1>4, <1>5, <1>6, <1>9 DEF MsgInv, RotationSent, Held
<1>10. \A j \in Inst \ {i} : Untouched(reg, reg', j)
  BY <1>4, <1>5, <1>6 DEF Untouched
<1>11. Served(reg, reg', i, v)
  BY <1>7, <1>8, <1>9, <1>10 DEF Served
<1> QED
  BY <1>11, SessionNow, ServerAlone

(* The minute of a rotation is over on the tablet.                         *)
LEMMA RotationLate ==
  ASSUME IInv, SessInv, NEW i \in Inst, vault[i].rot # NoRotation,
         vault' = [vault EXCEPT ![i].rot.late = TRUE], UNCHANGED <<reg, call, late>>
  PROVE  SessInv'
<1> DEFINE v == vault[i]
           w == [v EXCEPT !.rot.late = TRUE]
           rot == [v.rot EXCEPT !.late = TRUE]
<1>1. VaultType(v) /\ VaultRequest(reg, i, v) /\ VaultSession(reg, i, v) /\ CallInv(v, call[i])
  BY SessionNow DEF VaultInv
<1>2. /\ DOMAIN w = DOMAIN v
      /\ w.enroll = v.enroll /\ w.req = v.req /\ w.sess = v.sess /\ w.rot = rot
      /\ w.holds = v.holds /\ w.status = v.status
  BY <1>1 DEF VaultType
<1>3. /\ rot \in [id : Nat, k : Nat, late : BOOLEAN] /\ rot.late
      /\ rot.id = v.rot.id /\ rot.k = v.rot.k
  BY <1>1 DEF VaultType
<1>4. vault' = [vault EXCEPT ![i] = w]
  BY DEF IInv, TabletsInv
<1> HIDE DEF w, rot
<1>5. rot # NoRotation
  BY <1>3 DEF NoRotation
<1>6. VaultType(w) /\ VaultRequest(reg, i, w)
  BY <1>1, <1>2, <1>3 DEF VaultType, VaultRequest
<1>7. VaultSession(reg, i, w)
  BY <1>1, <1>2, <1>3, <1>5 DEF VaultSession, Follows
<1>8. ASSUME NEW m, MsgInv(reg, i, v, m) PROVE MsgInv(reg, i, w, m)
  BY <1>2, <1>5, <1>8 DEF MsgInv, RotationSent
<1>9. CallInv(w, call[i])
  <2>1. RefreshMessage(w) = RefreshMessage(v)
    BY <1>2, <1>3 DEF RefreshMessage
  <2>2. v.sess # NoSession
    BY <1>1 DEF VaultSession
  <2> QED
    BY <1>1, <1>2, <1>5, <2>1, <2>2 DEF CallInv, Enrolling, UsingSession
<1>10. SessionStep(reg, i)
  BY <1>4, <1>6, <1>7, <1>8, <1>9 DEF SessionStep, Becomes, VaultInv, IInv, TabletsInv
<1> QED
  BY <1>10, TabletAlone

(* A sealed activation, an invitation or a request is over.                *)
LEMMA RequestDies ==
  ASSUME IInv, SessInv, NEW i \in Inst, UNCHANGED <<vault, call, late>>,
         \/ reg' = [reg EXCEPT !.req[i].sealDead = TRUE]
         \/ reg' = [reg EXCEPT !.req[i].codeDead = TRUE]
         \/ reg' = [reg EXCEPT !.req[i].dead = TRUE]
  PROVE  SessInv'
<1>1. {"id", "op", "sid", "status"} \subseteq DOMAIN reg.req[i]
  BY SessionNow DEF SessionsOK, Numbered, IInv, RegistryInv, RegistryOK, RequestOK
<1>2. \E new : /\ reg' = [reg EXCEPT !.req[i] = new] /\ DOMAIN new = DOMAIN reg.req[i]
               /\ new.id = reg.req[i].id /\ new.op = reg.req[i].op
               /\ new.sid = reg.req[i].sid /\ new.status = reg.req[i].status
  <2>1. CASE reg' = [reg EXCEPT !.req[i].sealDead = TRUE]
    <3> DEFINE q == [reg.req[i] EXCEPT !.sealDead = TRUE]
    <3>1. /\ DOMAIN q = DOMAIN reg.req[i] /\ q.id = reg.req[i].id /\ q.op = reg.req[i].op
          /\ q.sid = reg.req[i].sid /\ q.status = reg.req[i].status
      BY <1>1
    <3>2. reg' = [reg EXCEPT !.req[i] = q]
      BY <2>1
    <3> HIDE DEF q
    <3> QED
      BY <3>1, <3>2
  <2>2. CASE reg' = [reg EXCEPT !.req[i].codeDead = TRUE]
    <3> DEFINE q == [reg.req[i] EXCEPT !.codeDead = TRUE]
    <3>1. /\ DOMAIN q = DOMAIN reg.req[i] /\ q.id = reg.req[i].id /\ q.op = reg.req[i].op
          /\ q.sid = reg.req[i].sid /\ q.status = reg.req[i].status
      BY <1>1
    <3>2. reg' = [reg EXCEPT !.req[i] = q]
      BY <2>2
    <3> HIDE DEF q
    <3> QED
      BY <3>1, <3>2
  <2>3. CASE reg' = [reg EXCEPT !.req[i].dead = TRUE]
    <3> DEFINE q == [reg.req[i] EXCEPT !.dead = TRUE]
    <3>1. /\ DOMAIN q = DOMAIN reg.req[i] /\ q.id = reg.req[i].id /\ q.op = reg.req[i].op
          /\ q.sid = reg.req[i].sid /\ q.status = reg.req[i].status
      BY <1>1
    <3>2. reg' = [reg EXCEPT !.req[i] = q]
      BY <2>3
    <3> HIDE DEF q
    <3> QED
      BY <3>1, <3>2
  <2> QED
    BY <2>1, <2>2, <2>3
<1>3. PICK new : /\ reg' = [reg EXCEPT !.req[i] = new] /\ DOMAIN new = DOMAIN reg.req[i]
                 /\ new.id = reg.req[i].id /\ new.op = reg.req[i].op
                 /\ new.sid = reg.req[i].sid /\ new.status = reg.req[i].status
  BY <1>2
<1>4. /\ reg'.sess = reg.sess /\ reg'.inst = reg.inst
      /\ reg'.req = [reg.req EXCEPT ![i] = new]
  BY <1>3 DEF IInv, RegistryInv, RegistryOK
<1>5. {"id", "op", "sid"} \subseteq DOMAIN new
  BY <1>1, <1>3
<1>6. Served(reg, reg', i, vault[i])
  BY <1>3, <1>4, <1>5, SessionNow, RequestServed DEF IInv
<1> QED
  BY <1>6, SessionNow, ServerAlone

LEMMA ElapseSession ==
  ASSUME IInv, SessInv, Elapse
  PROVE  SessInv'
<1>1. UNCHANGED <<call, late>> /\ Outlived
  BY DEF Elapse
<1> QED
  BY <1>1, RotationLate, RotationDies, RequestDies DEF Outlived

(* A backup is restored where no request was ever prepared.                *)
LEMMA RestoreSession ==
  ASSUME IInv, SessInv, NEW i \in Inst, NEW j \in Inst, Restore(i, j)
  PROVE  SessInv'
<1> DEFINE w == [NewVault EXCEPT !.holds = TRUE, !.restored = TRUE]
<1>1. ~vault[j].holds /\ vault' = [vault EXCEPT ![j] = w] /\ UNCHANGED <<reg, call, late>>
  BY DEF Restore
<1>2. call[j] = Idle /\ late[j] = {}
  BY <1>1 DEF IInv, EmptyInv
<1>3. VaultInv(reg, j, w)
  <2>1. reg.req[j].id \in Nat /\ reg.req[j].op <= 0
    BY <1>1, SessionNow DEF VaultInv, VaultRequest, SessionsOK, Numbered
  <2>2. VaultType(w) /\ w.enroll = 0 /\ w.req = 0 /\ w.holds
    BY DEF VaultType, NewVault, NoSession, NoRotation
  <2>3. w.sess = NoSession /\ w.rot = NoRotation
    BY DEF NewVault
  <2> HIDE DEF w
  <2> QED
    BY <2>1, <2>2, <2>3 DEF VaultInv, VaultRequest, VaultSession
<1> HIDE DEF w
<1>4. vault'[j] = w /\ \A k \in Inst \ {j} : vault'[k] = vault[k]
  BY <1>1 DEF IInv, TabletsInv
<1>5. ASSUME NEW k \in Inst
      PROVE  /\ VaultInv(reg', k, vault'[k]) /\ CallInv(vault'[k], call'[k])
             /\ \A m \in late'[k] : MsgInv(reg', k, vault'[k], m)
  <2>1. CASE k = j
    BY <1>1, <1>2, <1>3, <1>4, <2>1 DEF CallInv
  <2>2. CASE k # j
    BY <1>1, <1>4, <2>2, SessionNow
  <2> QED
    BY <2>1, <2>2
<1>6. SessionsOK(reg)'
  BY <1>1 DEF SessInv
<1> QED
  BY <1>5, <1>6 DEF SessInv

LEMMA InitSessInv == Init => SessInv
<1> SUFFICES ASSUME Init PROVE SessInv
  OBVIOUS
<1>1. /\ reg.sess = <<>> /\ \A i \in Inst : reg.inst[i] = NoInstallation /\ reg.req[i] = NoRequest
      /\ call = [i \in Inst |-> Idle] /\ late = [i \in Inst |-> {}]
  BY DEF Init, EmptyRegistry
<1>2. DOMAIN reg.sess = {}
  BY <1>1
<1>3. /\ {"id", "op", "sid"} \subseteq DOMAIN NoRequest
      /\ NoRequest.id = 0 /\ NoRequest.op = 0 /\ NoRequest.status = "none"
      /\ ~NoInstallation.active
  BY DEF NoRequest, NoInstallation
<1>4. SessionsOK(reg)
  BY <1>1, <1>2, <1>3 DEF SessionsOK, RotationsOK, OneSession, Numbered
<1>5. ASSUME NEW i \in Inst PROVE VaultInv(reg, i, vault[i])
  <2>1. PICK j \in Inst : vault = [k \in Inst |-> [NewVault EXCEPT !.holds = (k = j)]]
    BY DEF Init
  <2> DEFINE v == [NewVault EXCEPT !.holds = (i = j)]
  <2>2. vault[i] = v
    BY <2>1
  <2>3. /\ VaultType(v) /\ v.enroll = 0 /\ v.req = 0 /\ v.sess = NoSession
        /\ v.rot = NoRotation
    BY DEF VaultType, NewVault, NoSession, NoRotation
  <2> HIDE DEF v
  <2> QED
    BY <1>1, <1>3, <2>2, <2>3 DEF VaultInv, VaultRequest, VaultSession
<1> QED
  BY <1>1, <1>4, <1>5 DEF SessInv, CallInv

LEMMA NextSessInv == IInv /\ SessInv /\ [Next]_vars => SessInv'
<1> SUFFICES ASSUME IInv, SessInv, [Next]_vars PROVE SessInv'
  OBVIOUS
<1>1. CASE UNCHANGED vars
  BY <1>1 DEF vars, SessInv
<1>2. ASSUME NEW i \in Inst, Tablet(i)
      PROVE  SessInv'
  BY <1>2, AskEnrollmentSession, EnterCodeSession, VerifySession, SendSyncSession,
     RefusedSession DEF Tablet
<1>3. ASSUME NEW i \in Inst, Manager(i)
      PROVE  SessInv'
  BY <1>3, ApproveSession, ApproveElsewhereSession, RejectSession, RevokeHereSession,
     RevokeElsewhereSession DEF Manager
<1>4. ASSUME NEW i \in Inst, World(i)
      PROVE  SessInv'
  BY <1>4, ServeSession, AbandonSession, ServeLateSession, AccessExpiresSession, SellSession
     DEF World
<1> QED
  BY <1>1, <1>2, <1>3, <1>4, RestoreSession, ElapseSession DEF Next

LEMMA SessionInvariance == Spec => []SessInv
  BY InitSessInv, NextSessInv, Invariance, PTL DEF Spec

(* A tablet that follows the protocol never ends its own session: however  *)
(* often a rotation is lost, repeated or late, the server never takes it   *)
(* for a stolen token, an active installation has its one session, and the *)
(* token in the vault is the server's or was used up by the rotation the   *)
(* vault holds (refresh of tablet-auth/service.ts; accessToken of          *)
(* ApiTabletAuthService.kt).                                               *)
THEOREM NoRetryEndsASession == Spec => []SessionSurvives
<1>1. IInv /\ SessInv => SessionSurvives
  <2> SUFFICES ASSUME IInv, SessInv, NEW i \in Inst
               PROVE  LET v == vault[i] IN
                      /\ reg.inst[i].active => Cardinality(LiveSessions(reg, i)) = 1
                      /\ v.sess # NoSession /\ reg.sess[v.sess.sid].active =>
                           LET rots == reg.sess[v.sess.sid].rots n == Len(rots) IN
                           \/ v.sess.k = n
                           \/ /\ v.sess.k = n - 1 /\ v.rot # NoRotation
                              /\ v.rot.k = v.sess.k /\ v.rot.id = rots[n].id
                              /\ rots[n].dead => v.rot.late
    BY DEF SessionSurvives
  <2>1. ASSUME reg.inst[i].active PROVE Cardinality(LiveSessions(reg, i)) = 1
    <3>1. PICK s \in DOMAIN reg.sess : LiveSessions(reg, i) = {s}
      BY <2>1, SessionNow DEF SessionsOK, OneSession
    <3> QED
      BY <3>1, FS_Singleton
  <2>2. ASSUME vault[i].sess # NoSession
        PROVE  LET v == vault[i] rots == reg.sess[v.sess.sid].rots n == Len(rots) IN
               \/ v.sess.k = n
               \/ /\ v.sess.k = n - 1 /\ v.rot # NoRotation
                  /\ v.rot.k = v.sess.k /\ v.rot.id = rots[n].id
                  /\ rots[n].dead => v.rot.late
    <3> DEFINE v == vault[i]
               rots == reg.sess[v.sess.sid].rots
    <3>1. /\ VaultType(v) /\ Held(reg, i, v.sess.sid) /\ Follows(v, rots)
          /\ v.rot # NoRotation => v.rot.k = v.sess.k /\ v.rot.id = v.sess.k + 1
      BY <2>2, SessionNow DEF VaultInv, VaultSession
    <3>2. Len(rots) \in Nat /\ \A n \in 1..Len(rots) : rots[n].id = n
      BY <3>1, SessionNow, LenProperties DEF Held, SessionsOK, RotationsOK
    <3>3. v.sess.k \in Nat
      BY <3>1 DEF VaultType
    <3> HIDE DEF rots
    <3>4. CASE v.sess.k = Len(rots)
      BY <3>4 DEF rots
    <3>5. CASE /\ v.sess.k = Len(rots) - 1 /\ v.rot # NoRotation
               /\ rots[Len(rots)].dead => v.rot.late
      <4>1. Len(rots) \in 1..Len(rots)
        BY <3>2, <3>3, <3>5
      <4>2. rots[Len(rots)].id = Len(rots)
        BY <3>2, <4>1
      <4>3. v.rot.k = v.sess.k /\ v.rot.id = rots[Len(rots)].id
        BY <3>1, <3>2, <3>5, <4>2
      <4> QED
        BY <3>5, <4>3 DEF rots
    <3> QED
      BY <3>1, <3>4, <3>5 DEF Follows
  <2> QED
    BY <2>1, <2>2
<1> QED
  BY <1>1, Invariance, SessionInvariance, PTL
=============================================================================
