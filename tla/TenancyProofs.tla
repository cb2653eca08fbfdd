---------------------------- MODULE TenancyProofs ----------------------------
(***************************************************************************)
(* For any number of companies, codes, people and requests at once: a grant *)
(* code carries one company, the guard goes by what was decided, and an    *)
(* invite lets one person in.                                              *)
(***************************************************************************)
EXTENDS Members, TLAPS

USE LicencesAssumption, MembersAssumption

Holds == {None, "grace", "suspended", "banned"}

Company == [stage : {"new", "open", "gone"}, hold : Holds, deleted : BOOLEAN, printers : Nat]

Sub == [plan : Plans, status : {"trialing", "active", "canceled", "revoked"},
        source : {"trial", "manual", "grant_code"}, ends : Int \cup {None},
        grant : Grants \cup {None}, over : Int \cup {None}, cap : Caps \cup {None}, chosen : Plans \cup {None}]

Grant == [plan : Plans, ends : Int \cup {None}, revoked : BOOLEAN, by : Companies \cup {None}]

Seen == [plan : Plans, hold : Holds, deleted : BOOLEAN, blind : BOOLEAN, state : {"ok", "grace", "readonly"}]

Entry == [saw : Seen, late : BOOLEAN]

\* Requests nothing here depends on: what fields they have.
Plain(r) ==
  /\ r.op \notin {"status", "redeem", "revoke", "join"}
  /\ \/ r = [op |-> r.op]
     \/ r = [op |-> r.op, co |-> r.co]
     \/ r = [op |-> r.op, co |-> r.co, who |-> r.who] /\ r.co \in Companies
     \/ r = [op |-> r.op, n |-> r.n, saw |-> r.saw]
     \/ r = [op |-> r.op, todo |-> r.todo, source |-> r.source, code |-> r.code]
     \/ r = [op |-> r.op, todo |-> r.todo, source |-> r.source, code |-> r.code, co |-> r.co,
             off |-> r.off, plan |-> r.plan, ends |-> r.ends]

Request(r) ==
  \/ Plain(r)
  \/ r \in [op : {"status"}, co : Companies, saw : Seen, late : BOOLEAN]
  \/ r \in [op : {"redeem"}, co : Companies, grant : Grants, saw : Grant]
  \/ r \in [op : {"revoke"}, grant : Grants, by : Companies \cup {None}]
  \/ /\ r.op = "join" /\ r = [op |-> r.op, who |-> r.who, invite |-> r.invite, co |-> r.co]
     /\ r.who \in People /\ r.invite \in Invites

DesksOK == desk = [d \in Desks |-> desk[d]] /\ \A d \in Desks : Request(desk[d])

RowsOK ==
  /\ day \in Nat
  /\ company \in [Companies -> Company]
  /\ sub \in [Companies -> Sub \cup {NoSub}]
  /\ \A c \in Companies : sub[c] # NoSub => c \in Open
  /\ grant \in [Grants -> Grant \cup {NoGrant}]
  /\ tiers \subseteq Plans
  /\ cache \in [Companies -> Entry \cup {None}]

\* The rows and the requests of tenants and admins are well formed.
TenancyOK == RowsOK /\ DesksOK

----------------------------------------------------------------------------
(* Requests.                                                               *)

LEMMA AtRestPlain == Plain(AtRest) /\ AtRest.op = "none"
BY DEF AtRest, Plain

LEMMA HoldKeeps ==
  ASSUME DesksOK, NEW d \in Desks, NEW r, Request(r), Hold(d, r)
  PROVE  /\ DesksOK'
         /\ desk'[d] = r
         /\ \A e \in Desks \ {d} : desk'[e] = desk[e]
BY DEF DesksOK, Hold, Request, Plain

LEMMA OvertakenRequest ==
  ASSUME DesksOK, NEW C, NEW e \in Desks
  PROVE  /\ Request(Overtaken(C)[e])
         /\ Overtaken(C)[e].op = desk[e].op
         /\ desk[e].op # "status" => Overtaken(C)[e] = desk[e]
         /\ desk[e].op = "status" => /\ Overtaken(C)[e].co = desk[e].co
                                     /\ Overtaken(C)[e].saw = desk[e].saw
                                     /\ Overtaken(C)[e].late = (desk[e].late \/ desk[e].co \in C)
<1>1. Request(desk[e])
  BY DEF DesksOK
<1>2. CASE desk[e].op # "status"
  BY <1>1, <1>2 DEF Overtaken
<1>3. CASE desk[e].op = "status"
  <2>1. desk[e] \in [op : {"status"}, co : Companies, saw : Seen, late : BOOLEAN]
    BY <1>1, <1>3 DEF Request, Plain
  <2>2. Overtaken(C)[e] = [desk[e] EXCEPT !.late = desk[e].late \/ desk[e].co \in C]
    BY <1>3 DEF Overtaken
  <2>3. Overtaken(C)[e] \in [op : {"status"}, co : Companies, saw : Seen, late : BOOLEAN]
    BY <2>1, <2>2
  <2> QED
    BY <1>3, <2>1, <2>2, <2>3 DEF Request
<1> QED
  BY <1>2, <1>3

LEMMA DecidedKeeps ==
  ASSUME RowsOK, DesksOK, NEW d \in Desks, NEW r, Request(r), NEW C, Decided(d, C, r)
  PROVE  /\ DesksOK' /\ desk'[d] = r
         /\ cache' \in [Companies -> Entry \cup {None}]
         /\ \A e \in Desks \ {d} : desk'[e] = Overtaken(C)[e]
<1>1. desk' = [Overtaken(C) EXCEPT ![d] = r] /\ cache' = Invalidated(C)
  BY DEF Decided
<1>2. \A e \in Desks : Request(Overtaken(C)[e])
  BY OvertakenRequest
<1>3. Overtaken(C) = [e \in Desks |-> Overtaken(C)[e]]
  BY DEF Overtaken
<1> HIDE DEF Overtaken
<1>4. desk'[d] = r /\ desk' = [e \in Desks |-> desk'[e]] /\ \A e \in Desks \ {d} : desk'[e] = Overtaken(C)[e]
  BY <1>1, <1>3
<1>5. \A e \in Desks : Request(desk'[e])
  BY <1>2, <1>4
<1>6. DesksOK'
  BY <1>4, <1>5 DEF DesksOK, Request, Plain
<1> QED
  BY <1>1, <1>4, <1>6 DEF Invalidated, RowsOK

LEMMA DecisionKeeps ==
  ASSUME TenancyOK, NEW d \in Desks, NEW r, Request(r), NEW C, Decided(d, C, r),
         day' \in Nat, company' \in [Companies -> Company], sub' \in [Companies -> Sub \cup {NoSub}],
         \A c \in Companies : sub'[c] # NoSub => c \in Open', grant' \in [Grants -> Grant \cup {NoGrant}],
         tiers' = tiers
  PROVE  TenancyOK'
BY DecidedKeeps DEF TenancyOK, RowsOK

----------------------------------------------------------------------------
(* Types.                                                                  *)

LEMMA EnsuredType ==
  ASSUME RowsOK, NEW c \in Companies
  PROVE  Ensured(c) \in Sub /\ TrialSub \in Sub
BY DEF Ensured, TrialSub, RowsOK, Sub

LEMMA StampedType ==
  ASSUME RowsOK, NEW c \in Companies, NEW s \in Sub
  PROVE  Stamped(c, s) \in Sub /\ Stamped(c, s).plan = s.plan /\ Stamped(c, s).grant = s.grant
         /\ Stamped(c, s).source = s.source /\ Stamped(c, s).status = s.status
BY DEF Stamped, RowsOK, Sub

LEMMA StandingType ==
  ASSUME RowsOK, NEW c \in Companies, NEW s \in Sub, NEW blind \in BOOLEAN
  PROVE  Standing(c, s, blind) \in Seen
<1>1. company[c] \in Company
  BY DEF RowsOK
<1>2. CASE blind
  BY <1>2 DEF Standing, Seen, Holds, Sub, Billing
<1>3. CASE ~blind
  BY <1>1, <1>3 DEF Standing, Seen, Company, Sub, Billing
<1> QED
  BY <1>2, <1>3

LEMMA UpsertedType ==
  ASSUME RowsOK, NEW c \in Companies, NEW s, s.plan \in Plans, s.status \in {"active", "canceled"},
         s.source \in {"manual", "grant_code"}, s.ends \in Int \cup {None}, s.grant \in Grants \cup {None}
  PROVE  /\ Upserted(c, s) \in Sub
         /\ Upserted(c, s).grant = s.grant /\ Upserted(c, s).source = s.source
         /\ Upserted(c, s).status = s.status /\ Upserted(c, s).plan = s.plan
<1>1. PICK e \in Sub : e = Ensured(c)
  BY EnsuredType
<1>2. Upserted(c, s) = [e EXCEPT !.plan = s.plan, !.status = s.status, !.source = s.source,
                                 !.ends = s.ends, !.grant = s.grant, !.over = None]
  BY <1>1 DEF Upserted
<1> QED
  BY <1>2 DEF Sub

LEMMA StatusTypes ==
  ASSUME TenancyOK, StatusNext
  PROVE  TenancyOK'
<1> USE DEF TenancyOK
<1>1. ASSUME NEW d \in Desks, KeepStatus(d) PROVE TenancyOK'
  <2>1. desk[d] \in [op : {"status"}, co : Companies, saw : Seen, late : BOOLEAN]
    BY <1>1 DEF KeepStatus, DesksOK, Request, Plain
  <2>2. DesksOK'
    BY <1>1, AtRestPlain, HoldKeeps DEF KeepStatus, Request
  <2>3. [saw |-> desk[d].saw, late |-> desk[d].late] \in Entry
    BY <2>1 DEF Entry
  <2>4. cache' \in [Companies -> Entry \cup {None}]
    BY <1>1, <2>3 DEF KeepStatus, RowsOK
  <2> QED
    BY <1>1, <2>2, <2>4 DEF KeepStatus, RowsOK, Open, plan
<1>2. ASSUME NEW d \in Desks, NEW c \in Companies, NEW blind \in BOOLEAN, ReadStatus(d, c, blind) PROVE TenancyOK'
  <2> DEFINE s == Stamped(c, Ensured(c))
             r == [op |-> "status", co |-> c, saw |-> Standing(c, s, blind), late |-> FALSE]
  <2>1. s \in Sub /\ Standing(c, s, blind) \in Seen
    BY EnsuredType, StampedType, StandingType
  <2>2. Hold(d, r) /\ sub' = [sub EXCEPT ![c] = s] /\ c \in Open
    BY <1>2 DEF ReadStatus
  <2> HIDE DEF s
  <2>3. Request(r)
    BY <2>1 DEF Request
  <2> HIDE DEF r
  <2>4. DesksOK'
    BY <2>2, <2>3, HoldKeeps
  <2> QED
    BY <1>2, <2>1, <2>2, <2>4 DEF ReadStatus, RowsOK, Open
<1>3. ASSUME NEW c \in Companies, ExpireStatus(c) PROVE TenancyOK'
  BY <1>3 DEF ExpireStatus, RowsOK, DesksOK, Open, plan
<1>4. ASSUME NEW c \in Companies, FailOpen(c) PROVE TenancyOK'
  <2>1. PICK s \in Sub : sub' = [sub EXCEPT ![c] = s] /\ c \in Open
    BY <1>4, EnsuredType, StampedType DEF FailOpen
  <2> QED
    BY <1>4, <2>1 DEF FailOpen, RowsOK, DesksOK, Open
<1> QED
  BY <1>1, <1>2, <1>3, <1>4 DEF StatusNext

LEMMA HoldTypes ==
  ASSUME TenancyOK, HoldNext
  PROVE  TenancyOK'
<1> USE DEF TenancyOK
<1>1. ASSUME NEW d \in Desks, NEW C \in Groups, NEW hold \in Holds, SetHold(d, C, hold) PROVE TenancyOK'
  <2>1. company' \in [Companies -> Company] /\ Open' = Open
    BY <1>1 DEF SetHold, RowsOK, Company, Open
  <2> QED
    BY <1>1, <2>1, AtRestPlain, DecisionKeeps DEF SetHold, RowsOK, plan, Request
<1>2. ASSUME NEW d \in Desks, NEW c \in Companies, RestoreCompany(d, c) PROVE TenancyOK'
  <2>1. \A x \in Company : [x EXCEPT !.deleted = FALSE] \in Company
    BY DEF Company
  <2>2. company' = [company EXCEPT ![c] = [company[c] EXCEPT !.deleted = FALSE]] /\ company[c] \in Company
    BY <1>2 DEF RestoreCompany, RowsOK
  <2>3. company' \in [Companies -> Company]
    BY <2>1, <2>2 DEF RowsOK
  <2>4. Open' = Open
    BY <2>2 DEF Open, RowsOK, Company
  <2> QED
    BY <1>2, <2>3, <2>4, AtRestPlain, DecisionKeeps DEF RestoreCompany, RowsOK, plan, Request
<1>3. ASSUME NEW c \in Companies, NEW n \in 0..MaxPrinters, Printers(c, n) PROVE TenancyOK'
  <2>1. company' \in [Companies -> Company] /\ Open' = Open
    BY <1>3 DEF Printers, RowsOK, Company, Open
  <2> QED
    BY <1>3, <2>1 DEF Printers, RowsOK, DesksOK, plan
<1> QED
  BY <1>1, <1>2, <1>3 DEF HoldNext, Holds

LEMMA GrantTypes ==
  ASSUME TenancyOK, GrantNext
  PROVE  TenancyOK'
<1> USE DEF TenancyOK
<1>1. ASSUME NEW g \in Grants, NEW pl \in Plans, NEW end \in Ends, CreateGrant(g, pl, end) PROVE TenancyOK'
  <2>1. end \in Int \cup {None}
    BY DEF Ends, RowsOK
  <2>2. [plan |-> pl, ends |-> end, revoked |-> FALSE, by |-> None] \in Grant
    BY <2>1 DEF Grant
  <2> QED
    BY <1>1, <2>2 DEF CreateGrant, RowsOK, DesksOK, Open
<1>2. ASSUME NEW d \in Desks, NEW g \in Grants, ReadRevoked(d, g) PROVE TenancyOK'
  <2>1. grant[g] \in Grant
    BY <1>2 DEF ReadRevoked, RowsOK
  <2>2. Request([op |-> "revoke", grant |-> g, by |-> grant[g].by])
    BY <2>1 DEF Request, Grant
  <2> QED
    BY <1>2, <2>2, HoldKeeps DEF ReadRevoked, RowsOK, Open, plan
<1>3. ASSUME NEW d \in Desks, NEW g \in Grants, NEW c \in Companies, ReadGrant(d, c, g) PROVE TenancyOK'
  <2>1. grant[g] \in Grant
    BY <1>3 DEF ReadGrant, MayRedeem, RowsOK
  <2>2. Request([op |-> "redeem", co |-> c, grant |-> g, saw |-> grant[g]])
    BY <2>1 DEF Request
  <2> QED
    BY <1>3, <2>2, HoldKeeps DEF ReadGrant, RowsOK, Open, plan
<1>4. ASSUME NEW d \in Desks, RedeemTx(d) PROVE TenancyOK'
  <2>1. desk[d] \in [op : {"redeem"}, co : Companies, grant : Grants, saw : Grant]
    BY <1>4 DEF RedeemTx, DesksOK, Request, Plain
  <2>2. CASE desk[d].co \in Open
    <3> DEFINE c == desk[d].co
               s == [plan |-> desk[d].saw.plan, status |-> "active", source |-> "grant_code",
                     ends |-> desk[d].saw.ends, grant |-> desk[d].grant]
               r == [op |-> "issue", todo |-> {c}, source |-> "grant_code", code |-> None]
    <3>1. s.plan \in Plans /\ s.ends \in Int \cup {None} /\ s.grant \in Grants \cup {None}
      BY <2>1 DEF Grant
    <3>2. Upserted(c, s) \in Sub
      BY <2>1, <3>1, UpsertedType
    <3>3. Request(r)
      BY DEF Request, Plain
    <3>4. sub' = [sub EXCEPT ![c] = Upserted(c, s)] /\ Decided(d, {c}, r)
      BY <1>4, <2>2 DEF RedeemTx
    <3>5. grant' \in [Grants -> Grant \cup {NoGrant}]
      <4>1. \A x \in Grant \cup {NoGrant} : [x EXCEPT !.by = c] \in Grant \cup {NoGrant}
        BY <2>1 DEF Grant, NoGrant
      <4>2. grant' = [grant EXCEPT ![desk[d].grant].by = c]
        BY <1>4, <2>2 DEF RedeemTx
      <4> QED
        BY <2>1, <4>1, <4>2 DEF RowsOK
    <3> HIDE DEF s, r
    <3>6. sub' \in [Companies -> Sub \cup {NoSub}] /\ \A x \in Companies : sub'[x] # NoSub => x \in Open'
      BY <1>4, <2>1, <2>2, <3>2, <3>4 DEF RedeemTx, RowsOK, Open
    <3> QED
      BY <1>4, <3>3, <3>4, <3>5, <3>6, DecisionKeeps DEF RedeemTx, RowsOK
  <2>3. CASE desk[d].co \notin Open
    BY <1>4, <2>3, AtRestPlain, HoldKeeps DEF RedeemTx, RowsOK, Open, Request
  <2> QED
    BY <2>2, <2>3
<1>5. ASSUME NEW d \in Desks, RevokeTx(d) PROVE TenancyOK'
  <2>1. desk[d] \in [op : {"revoke"}, grant : Grants, by : Companies \cup {None}]
    BY <1>5 DEF RevokeTx, DesksOK, Request, Plain
  <2>2. PICK C : /\ C \subseteq Licensed
                 /\ sub' = [c \in Companies |-> IF c \in C THEN [sub[c] EXCEPT !.status = "revoked", !.ends = day] ELSE sub[c]]
    BY <1>5 DEF RevokeTx
  <2>3. /\ sub' \in [Companies -> Sub \cup {NoSub}]
        /\ \A c \in Companies : sub'[c] # NoSub => c \in Open'
    <3>1. ASSUME NEW x \in Sub PROVE [x EXCEPT !.status = "revoked", !.ends = day] \in Sub
      <4>1. day \in Int
        BY DEF RowsOK
      <4> QED
        BY <4>1 DEF Sub
    <3>2. \A c \in C : c \in Open /\ sub[c] \in Sub
      BY <2>2 DEF Licensed, Open, RowsOK
    <3> QED
      <4>1. Open' = Open
        BY <1>5 DEF RevokeTx, Open
      <4>2. sub \in [Companies -> Sub \cup {NoSub}] /\ \A c \in Companies : sub[c] # NoSub => c \in Open
        BY DEF RowsOK
      <4> QED
        BY <2>2, <3>1, <3>2, <4>1, <4>2
  <2>4. grant' \in [Grants -> Grant \cup {NoGrant}]
    <3>1. \A x \in Grant \cup {NoGrant} : [x EXCEPT !.revoked = TRUE] \in Grant \cup {NoGrant}
      BY DEF Grant, NoGrant
    <3>2. grant' = [grant EXCEPT ![desk[d].grant].revoked = TRUE]
      BY <1>5 DEF RevokeTx
    <3> QED
      BY <2>1, <3>1, <3>2 DEF RowsOK
  <2>5. Decided(d, {desk[d].by} \cap Companies, AtRest)
    BY <1>5 DEF RevokeTx
  <2> QED
    BY <1>5, <2>3, <2>4, <2>5, AtRestPlain, DecisionKeeps DEF RevokeTx, RowsOK, Request
<1> QED
  BY <1>1, <1>2, <1>3, <1>4, <1>5 DEF GrantNext

\* Rows rewritten by a handler that ends with their statuses forgotten.
LEMMA RewriteTypes ==
  ASSUME TenancyOK, NEW d \in Desks, NEW r, Request(r), NEW C, Decided(d, C, r),
         NEW B \in SUBSET Open, \A c \in B : sub'[c] \in Sub,
         sub' = [c \in Companies |-> IF c \in B THEN sub'[c] ELSE sub[c]],
         UNCHANGED <<day, company, grant, tiers>>
  PROVE  TenancyOK'
<1>1. Open' = Open
  BY DEF Open
<1>2. sub' \in [Companies -> Sub \cup {NoSub}] /\ \A c \in Companies : sub'[c] # NoSub => c \in Open
  BY DEF TenancyOK, RowsOK
<1> QED
  BY <1>1, <1>2, DecisionKeeps DEF TenancyOK, RowsOK

LEMMA AssignTypes ==
  ASSUME TenancyOK, AssignNext
  PROVE  TenancyOK'
<1>1. ASSUME NEW d \in Desks, NEW C \in Groups, NEW pl \in Plans, NEW status \in {"active", "canceled"},
             NEW end \in Ends, NEW k, Assign(d, C, pl, status, end, k)
      PROVE  TenancyOK'
  <2> DEFINE s == [plan |-> pl, status |-> status, source |-> "manual", grant |-> None,
                   ends |-> IF status = "canceled" THEN day ELSE end]
  <2>1. s.ends \in Int \cup {None} /\ RowsOK
    BY DEF Ends, TenancyOK, RowsOK
  <2>2. \A c \in Companies : Upserted(c, s) \in Sub
    <3>1. /\ s.plan \in Plans /\ s.status \in {"active", "canceled"} /\ s.source \in {"manual", "grant_code"}
          /\ s.grant \in Grants \cup {None}
      OBVIOUS
    <3> HIDE DEF s
    <3> QED
      BY <2>1, <3>1, UpsertedType
  <2>3. C \in SUBSET Open /\ sub' = [c \in Companies |-> IF c \in C THEN Upserted(c, s) ELSE sub[c]]
    BY <1>1 DEF Assign
  <2>4. PICK r : Decided(d, C, r) /\ r \in {AtRest, [op |-> "issue", todo |-> C, source |-> "manual", code |-> k]}
    BY <1>1 DEF Assign
  <2>5. Request(r)
    BY <2>4, AtRestPlain DEF Request, Plain
  <2>6. UNCHANGED <<day, company, grant, tiers>>
    BY <1>1 DEF Assign
  <2> HIDE DEF s
  <2>7. \A c \in C : sub'[c] \in Sub
    BY <2>2, <2>3 DEF Open
  <2>8. sub' = [c \in Companies |-> IF c \in C THEN sub'[c] ELSE sub[c]]
    BY <2>3 DEF Open
  <2> QED
    BY <2>3, <2>4, <2>5, <2>6, <2>7, <2>8, RewriteTypes
<1> QED
  BY <1>1 DEF AssignNext

LEMMA TermTypes ==
  ASSUME TenancyOK, TermNext
  PROVE  TenancyOK'
<1>0. day \in Int /\ day \in Nat /\ Request(AtRest) /\ sub \in [Companies -> Sub \cup {NoSub}]
  BY AtRestPlain DEF TenancyOK, RowsOK, Request
<1>1. \A s \in Sub : Ended(s) \in Sub
  <2>1. ASSUME NEW s \in Sub PROVE Ended(s) \in Sub
    <3>1. day - 1 \in Int
      BY <1>0
    <3> QED
      BY <3>1 DEF Ended, Sub
  <2> QED
    BY <2>1
<1>2. ASSUME NEW d \in Desks, NEW C \in Groups, BulkEndTrial(d, C) PROVE TenancyOK'
  <2>1. PICK hit : /\ hit \in SUBSET Licensed /\ Decided(d, hit, AtRest)
                   /\ sub' = [c \in Companies |-> IF c \in hit THEN Ended(sub[c]) ELSE sub[c]]
                   /\ UNCHANGED <<day, company, grant, tiers>>
    BY <1>2 DEF BulkEndTrial
  <2>2. hit \in SUBSET Open /\ \A c \in hit : sub'[c] \in Sub
    BY <1>0, <1>1, <2>1 DEF Licensed, Open
  <2>3. sub' = [c \in Companies |-> IF c \in hit THEN sub'[c] ELSE sub[c]]
    BY <2>1, <2>2 DEF Open
  <2> QED
    BY <1>0, <2>1, <2>2, <2>3, RewriteTypes
<1>3. ASSUME NEW d \in Desks, NEW C \in Groups, NEW n \in Days, BulkExtend(d, C, n) PROVE TenancyOK'
  <2> DEFINE hit == {c \in C \cap Licensed : sub[c].ends # None /\ sub[c].status \in {"trialing", "active"}}
             later(s) == [s EXCEPT !.ends = n + (IF @ > day THEN @ ELSE day)]
  <2>1. /\ hit \in SUBSET Licensed /\ Decided(d, hit, AtRest) /\ \A c \in hit : sub[c].ends # None
        /\ sub' = [c \in Companies |-> IF c \in hit THEN later(sub[c]) ELSE sub[c]]
        /\ UNCHANGED <<day, company, grant, tiers>>
    BY <1>3 DEF BulkExtend
  <2>2. ASSUME NEW s \in Sub, s.ends # None PROVE later(s) \in Sub
    <3>1. n + (IF s.ends > day THEN s.ends ELSE day) \in Int
      BY <1>0, <2>2 DEF Sub
    <3> QED
      BY <3>1 DEF Sub
  <2> HIDE DEF hit, later
  <2>3. \A c \in hit : c \in Open /\ sub[c] \in Sub /\ sub[c].ends # None
    BY <1>0, <2>1 DEF Licensed, Open
  <2>4. hit \in SUBSET Open /\ \A c \in hit : sub'[c] \in Sub
    BY <2>1, <2>2, <2>3 DEF Open
  <2>5. sub' = [c \in Companies |-> IF c \in hit THEN sub'[c] ELSE sub[c]]
    BY <2>1, <2>4 DEF Open
  <2>6. PICK B : B = hit
    OBVIOUS
  <2> QED
    BY <1>0, <2>1, <2>4, <2>5, <2>6, RewriteTypes
<1>4. ASSUME NEW d \in Desks, NEW c \in Companies, ReadTrial(d, c) PROVE TenancyOK'
  <2>1. Request([op |-> "endTrial", co |-> c])
    BY DEF Request, Plain
  <2> QED
    BY <1>4, <2>1, HoldKeeps DEF ReadTrial, TenancyOK, RowsOK, Open, plan
<1>5. ASSUME NEW d \in Desks, EndTrial(d) PROVE TenancyOK'
  <2>1. PICK c, B : /\ B = {c} \cap Licensed /\ Decided(d, {c}, AtRest)
                    /\ sub' = IF c \in Licensed THEN [sub EXCEPT ![c] = Ended(sub[c])] ELSE sub
                    /\ UNCHANGED <<day, company, grant, tiers>>
    BY <1>5 DEF EndTrial
  <2>2. B \in SUBSET Open /\ \A x \in B : sub'[x] \in Sub
    BY <1>0, <1>1, <2>1 DEF Licensed, Open
  <2>3. sub' = [x \in Companies |-> IF x \in B THEN sub'[x] ELSE sub[x]]
    BY <1>0, <2>1, <2>2 DEF Open, Licensed
  <2> QED
    BY <1>0, <2>1, <2>2, <2>3, RewriteTypes
<1> QED
  BY <1>2, <1>3, <1>4, <1>5 DEF TermNext

LEMMA DealTypes ==
  ASSUME TenancyOK, DealNext
  PROVE  TenancyOK'
<1>0. Request(AtRest) /\ RowsOK /\ sub \in [Companies -> Sub \cup {NoSub}]
  BY AtRestPlain DEF TenancyOK, RowsOK, Request
<1>1. ASSUME NEW d \in Desks, NEW c \in Companies, NEW s \in Sub, c \in Open, Decided(d, {c}, AtRest),
             sub' = [sub EXCEPT ![c] = s], UNCHANGED <<day, company, grant, tiers>>
      PROVE  TenancyOK'
  <2>1. {c} \in SUBSET Open /\ (\A x \in {c} : sub'[x] \in Sub)
        /\ sub' = [x \in Companies |-> IF x \in {c} THEN sub'[x] ELSE sub[x]]
    BY <1>0, <1>1
  <2> QED
    BY <1>0, <1>1, <2>1, RewriteTypes
<1>2. ASSUME NEW d \in Desks, NEW c \in Companies, NEW cap \in Caps \cup {None}, SetCustomPlan(d, c, cap)
      PROVE  TenancyOK'
  <2>1. PICK e \in Sub : e = Ensured(c)
    BY <1>0, EnsuredType
  <2>2. [e EXCEPT !.cap = cap, !.over = None] \in Sub
    BY DEF Sub
  <2>3. /\ c \in Open /\ Decided(d, {c}, AtRest) /\ UNCHANGED <<day, company, grant, tiers>>
        /\ sub' = [sub EXCEPT ![c] = [e EXCEPT !.cap = cap, !.over = None]]
    BY <1>2, <2>1 DEF SetCustomPlan
  <2> QED
    BY <1>1, <2>2, <2>3
<1>3. ASSUME NEW d \in Desks, NEW c \in Companies, NEW pl \in Plans, Checkout(d, c, pl) PROVE TenancyOK'
  <2>1. PICK e \in Sub : e = Ensured(c)
    BY <1>0, EnsuredType
  <2>2. [e EXCEPT !.chosen = pl] \in Sub
    BY DEF Sub
  <2>3. /\ c \in Open /\ Decided(d, {c}, AtRest) /\ UNCHANGED <<day, company, grant, tiers>>
        /\ sub' = [sub EXCEPT ![c] = [e EXCEPT !.chosen = pl]]
    BY <1>3, <2>1 DEF Checkout
  <2> QED
    BY <1>1, <2>2, <2>3
<1>4. ASSUME NEW pl \in Plans, SaveCustomTier(pl) PROVE TenancyOK'
  BY <1>4 DEF SaveCustomTier, TenancyOK, RowsOK, DesksOK, Open
<1> QED
  BY <1>2, <1>3, <1>4 DEF DealNext

\* A desk goes on, and no row moves.
LEMMA HoldTypesKept ==
  ASSUME TenancyOK, NEW d \in Desks, NEW r, Plain(r), Hold(d, r), UNCHANGED <<day, company, plan, cache>>
  PROVE  TenancyOK'
BY HoldKeeps DEF TenancyOK, RowsOK, Open, plan, Request

LEMMA NoDeskTypesKept ==
  ASSUME TenancyOK, UNCHANGED <<day, company, plan, cache, desk>>
  PROVE  TenancyOK'
BY DEF TenancyOK, RowsOK, DesksOK, Open, plan

LEMMA IssueTypes ==
  ASSUME TenancyOK, IssueNext
  PROVE  TenancyOK'
<1>0. \A d \in Desks : Request(desk[d])
  BY DEF TenancyOK, DesksOK
<1>1. ASSUME NEW d \in Desks, NEW c \in Companies, ReadIssue(d, c) PROVE TenancyOK'
  <2>1. Plain(desk[d]) /\ desk[d].op = "issue"
    BY <1>0, <1>1 DEF ReadIssue, Request
  <2>2. desk[d].todo = desk[d].todo
    OBVIOUS
  <2>3. PICK r : Hold(d, r) /\ \/ r = AtRest
                               \/ \E x : r = [desk[d] EXCEPT !.todo = x]
                               \/ \E x, e, pl : r = [op |-> "discount", todo |-> desk[d].todo, source |-> desk[d].source,
                                                     code |-> desk[d].code, co |-> c, off |-> x, plan |-> pl, ends |-> e]
    BY <1>1 DEF ReadIssue
  <2>4. Plain(r)
    BY <2>1, <2>3, AtRestPlain DEF Plain
  <2> QED
    BY <1>1, <2>3, <2>4, HoldTypesKept DEF ReadIssue
<1>2. ASSUME NEW d \in Desks, RecordRedemption(d) PROVE TenancyOK'
  <2>1. Plain(desk[d]) /\ desk[d].op = "discount"
    BY <1>0, <1>2 DEF RecordRedemption, Request
  <2>2. Plain([desk[d] EXCEPT !.op = "insert"])
    BY <2>1 DEF Plain
  <2> QED
    BY <1>2, <2>2, HoldTypesKept DEF RecordRedemption
<1>3. ASSUME NEW d \in Desks, InsertInvoice(d) PROVE TenancyOK'
  <2>1. PICK r : Hold(d, r) /\ (r = AtRest \/ \E t, s, k : r = [op |-> "issue", todo |-> t, source |-> s, code |-> k])
    BY <1>3 DEF InsertInvoice
  <2>2. Plain(r)
    BY <2>1, AtRestPlain DEF Plain
  <2> QED
    BY <1>3, <2>1, <2>2, HoldTypesKept DEF InsertInvoice
<1>4. ASSUME NEW k, NEW on, SwitchDiscount(k, on) PROVE TenancyOK'
  BY <1>4, NoDeskTypesKept DEF SwitchDiscount
<1> QED
  BY <1>1, <1>2, <1>3, <1>4 DEF IssueNext

LEMMA InvoiceTypes ==
  ASSUME TenancyOK, InvoiceNext
  PROVE  TenancyOK'
<1>0. \A d \in Desks : Request(desk[d])
  BY DEF TenancyOK, DesksOK
<1>1. ASSUME NEW d, NEW c, NEW pl, NEW end, CreateInvoice(d, c, pl, end) PROVE TenancyOK'
  BY <1>1, NoDeskTypesKept DEF CreateInvoice
<1>2. ASSUME NEW d \in Desks, NEW op \in {"edit", "drop", "finalize", "mail"}, NEW n, LoadInvoice(d, op, n)
      PROVE  TenancyOK'
  <2>1. Plain([op |-> op, n |-> n, saw |-> invoices[n].status])
    BY DEF Plain
  <2> QED
    BY <1>2, <2>1, HoldTypesKept DEF LoadInvoice
<1>3. ASSUME NEW d \in Desks, MailInvoice(d) PROVE TenancyOK'
  <2>1. Plain(desk[d]) /\ desk[d].op = "mail"
    BY <1>0, <1>3 DEF MailInvoice, Request
  <2>2. PICK r : Hold(d, r) /\ r \in {AtRest, [desk[d] EXCEPT !.op = "mailed"]}
    BY <1>3 DEF MailInvoice
  <2>3. Plain(r)
    BY <2>1, <2>2, AtRestPlain DEF Plain
  <2> QED
    BY <1>3, <2>2, <2>3, HoldTypesKept DEF MailInvoice
<1>4. ASSUME NEW d \in Desks, NEW end, WriteInvoice(d, end) PROVE TenancyOK'
  BY <1>4, AtRestPlain, HoldTypesKept DEF WriteInvoice
<1> QED
  BY <1>1, <1>2, <1>3, <1>4 DEF InvoiceNext

LEMMA NoticeTypes ==
  ASSUME TenancyOK, NoticeNext \/ Tick \/ Crash
  PROVE  TenancyOK'
<1>1. CASE NoticeNext
  BY <1>1, NoDeskTypesKept DEF NoticeNext, SweepBegin, NotifyQuiet, Notify, RecordSent
<1>2. CASE Tick
  BY <1>2 DEF Tick, TenancyOK, RowsOK, DesksOK, Open, plan
<1>3. CASE Crash
  BY <1>3, AtRestPlain DEF Crash, TenancyOK, RowsOK, DesksOK, Open, plan, Request
<1> QED
  BY <1>1, <1>2, <1>3

LEMMA MembersTypes ==
  ASSUME TenancyOK, MembersNext
  PROVE  TenancyOK'
<1>0. \A d \in Desks : Request(desk[d])
  BY DEF TenancyOK, DesksOK
<1>1. ASSUME NEW d \in Desks, NEW u \in People, NEW i \in Invites, ReadInvite(d, u, i) PROVE TenancyOK'
  <2>1. Request([op |-> "join", who |-> u, invite |-> i, co |-> invite[i].co])
    BY DEF Request
  <2> QED
    BY <1>1, <2>1, HoldKeeps DEF ReadInvite, TenancyOK, RowsOK, Open, plan
<1>2. ASSUME NEW d \in Desks, NEW u \in People, NEW c \in Companies, SetupOwner(d, u, c) PROVE TenancyOK'
  <2>1. Plain([op |-> "trial", co |-> c])
    BY DEF Plain
  <2>2. DesksOK'
    BY <1>2, <2>1, HoldKeeps DEF SetupOwner, TenancyOK, Request
  <2>3. \A x \in Company : [x EXCEPT !.stage = "open"] \in Company
    BY DEF Company
  <2>4. company' = [company EXCEPT ![c] = [company[c] EXCEPT !.stage = "open"]] /\ company \in [Companies -> Company]
    BY <1>2 DEF SetupOwner, TenancyOK, RowsOK
  <2>5. company' \in [Companies -> Company] /\ Open \subseteq Open'
    BY <2>3, <2>4 DEF Open, Company
  <2> QED
    BY <1>2, <2>2, <2>5 DEF SetupOwner, TenancyOK, RowsOK, plan
<1>3. ASSUME NEW d \in Desks, NEW pl \in Priced \cup {None}, EnsureTrial(d, pl) PROVE TenancyOK'
  <2>1. [TrialSub EXCEPT !.chosen = pl] \in Sub
    <3>1. TrialSub \in Sub
      BY DEF TrialSub, Sub, TenancyOK, RowsOK
    <3> QED
      BY <3>1 DEF Sub
  <2>2. sub' \in [Companies -> Sub \cup {NoSub}] /\ \A c \in Companies : sub'[c] # NoSub => c \in Open
    BY <1>3, <2>1 DEF EnsureTrial, TenancyOK, RowsOK
  <2>3. DesksOK'
    BY <1>3, AtRestPlain, HoldKeeps DEF EnsureTrial, TenancyOK, Request
  <2> QED
    BY <1>3, <2>2, <2>3 DEF EnsureTrial, TenancyOK, RowsOK, Open
<1>4. ASSUME NEW d \in Desks, JoinTx(d) PROVE TenancyOK'
  BY <1>4, AtRestPlain, HoldTypesKept DEF JoinTx, Join
<1>5. ASSUME UNCHANGED licenceVars PROVE TenancyOK'
  BY <1>5, NoDeskTypesKept DEF licenceVars
<1> QED
  BY <1>1, <1>2, <1>3, <1>4, <1>5 DEF MembersNext, RevokeInvite, CreateInvite, RemoveStaffMember, UpdatePermissions

LEMMA PurgeTypes ==
  ASSUME TenancyOK, PurgeNext
  PROVE  TenancyOK'
<1>0. \A d \in Desks : Request(desk[d])
  BY DEF TenancyOK, DesksOK
<1>1. ASSUME NEW d \in Desks, NEW c \in Companies, PurgeRead(d, c) PROVE TenancyOK'
  <2>1. PICK who : Hold(d, [op |-> "purge", co |-> c, who |-> who])
    BY <1>1 DEF PurgeRead
  <2>2. PICK r : r = [op |-> "purge", co |-> c, who |-> who]
    OBVIOUS
  <2>3. r.op = "purge" /\ r.co = c /\ r = [op |-> r.op, co |-> r.co, who |-> r.who]
    BY <2>2
  <2>4. Plain(r)
    BY <2>3 DEF Plain
  <2> QED
    BY <1>1, <2>1, <2>2, <2>4, HoldTypesKept DEF PurgeRead
<1>2. ASSUME NEW d \in Desks, PurgeDelete(d) PROVE TenancyOK'
  <2> DEFINE c == desk[d].co
  <2>1. Plain(desk[d]) /\ desk[d].op = "purge"
    BY <1>0, <1>2 DEF PurgeDelete, Request
  <2>2. Plain([desk[d] EXCEPT !.op = "orphans"])
    BY <2>1 DEF Plain
  <2>3. DesksOK'
    BY <1>2, <2>2, HoldKeeps DEF PurgeDelete, TenancyOK, Request
  <2>4. \A x \in Company : [x EXCEPT !.stage = "gone"] \in Company /\ [x EXCEPT !.stage = "gone"].stage = "gone"
    BY DEF Company
  <2>5. company \in [Companies -> Company] /\ company' = [company EXCEPT ![c].stage = "gone"]
    BY <1>2 DEF PurgeDelete, TenancyOK, RowsOK
  <2>6. company' \in [Companies -> Company] /\ \A x \in Open \ {c} : x \in Open'
    BY <2>4, <2>5 DEF Open
  <2>7. sub' = [sub EXCEPT ![c] = NoSub]
    BY <1>2 DEF PurgeDelete
  <2>8. sub' \in [Companies -> Sub \cup {NoSub}] /\ \A x \in Companies : sub'[x] # NoSub => x \in Open'
    BY <2>6, <2>7 DEF TenancyOK, RowsOK
  <2>9. grant' \in [Grants -> Grant \cup {NoGrant}]
    <3>1. \A x \in Grant : [x EXCEPT !.by = None] \in Grant
      BY DEF Grant
    <3>2. PICK x : grant' = [g \in Grants |-> IF grant[g] # NoGrant /\ grant[g].by = x
                                              THEN [grant[g] EXCEPT !.by = None] ELSE grant[g]]
      BY <1>2 DEF PurgeDelete
    <3> QED
      BY <3>1, <3>2 DEF TenancyOK, RowsOK
  <2> QED
    BY <1>2, <2>3, <2>6, <2>8, <2>9 DEF PurgeDelete, TenancyOK, RowsOK
<1>3. ASSUME NEW d \in Desks, PurgeCheck(d) PROVE TenancyOK'
  <2>1. Plain(desk[d]) /\ desk[d].op = "orphans"
    BY <1>0, <1>3 DEF PurgeCheck, Request
  <2>2. PICK x : Hold(d, [desk[d] EXCEPT !.op = "accounts", !.who = x])
    BY <1>3 DEF PurgeCheck
  <2>3. Plain([desk[d] EXCEPT !.op = "accounts", !.who = x])
    <3>1. Plain([desk[d] EXCEPT !.op = "accounts"])
      BY <2>1 DEF Plain
    <3>2. \A r : Plain(r) => Plain([r EXCEPT !.who = x])
      BY DEF Plain
    <3>3. [desk[d] EXCEPT !.op = "accounts", !.who = x] = [[desk[d] EXCEPT !.op = "accounts"] EXCEPT !.who = x]
      OBVIOUS
    <3> QED
      BY <3>1, <3>2, <3>3
  <2> QED
    BY <1>3, <2>2, <2>3, HoldTypesKept DEF PurgeCheck
<1>4. ASSUME NEW d \in Desks, NEW failed, PurgeAccounts(d, failed) PROVE TenancyOK'
  BY <1>4, AtRestPlain, DecisionKeeps DEF PurgeAccounts, TenancyOK, RowsOK, Open, plan, Request
<1> QED
  BY <1>1, <1>2, <1>3, <1>4 DEF PurgeNext

LEMMA TypesInit == MembersInit => TenancyOK
<1> SUFFICES ASSUME MembersInit PROVE TenancyOK
  OBVIOUS
<1>1. day \in Nat /\ TrialSub \in Sub
  BY DEF MembersInit, LicencesInit, TrialSub, Sub
<1>2. company \in [Companies -> Company]
  BY DEF MembersInit, LicencesInit, Company, Holds
<1>3. sub \in [Companies -> Sub \cup {NoSub}] /\ \A c \in Companies : sub[c] # NoSub => c \in Open
  BY <1>1 DEF MembersInit, LicencesInit
<1>4. DesksOK
  BY AtRestPlain DEF MembersInit, LicencesInit, DesksOK, Request
<1> QED
  BY <1>1, <1>2, <1>3, <1>4 DEF MembersInit, LicencesInit, TenancyOK, RowsOK

LEMMA TypesStep == TenancyOK /\ [TenancyNext]_memberVars => TenancyOK'
<1> SUFFICES ASSUME TenancyOK, [TenancyNext]_memberVars PROVE TenancyOK'
  OBVIOUS
<1>1. CASE LicencesNext
  BY <1>1, StatusTypes, HoldTypes, GrantTypes, AssignTypes, TermTypes, DealTypes, IssueTypes, InvoiceTypes,
     NoticeTypes DEF LicencesNext
<1>2. CASE UNCHANGED memberVars
  BY <1>2, NoDeskTypesKept DEF memberVars, licenceVars
<1> QED
  BY <1>1, <1>2, MembersTypes, PurgeTypes DEF TenancyNext

\* Whatever tenants, admins and the purge do at once, the rows of companies,
\* subscriptions, codes and the cached statuses stay well formed, and no
\* company that is not there is subscribed to anything.
THEOREM TenancyInvariance == TenancySpec => []TenancyOK
<1> QED
  BY TypesInit, TypesStep, PTL DEF TenancySpec

----------------------------------------------------------------------------
(* What a step leaves of the requests that hold something.                 *)

\* No request among ops is begun or changed.
Undisturbed(ops) == \A e \in Desks : desk'[e].op \in ops => desk'[e] = desk[e]

\* What holds a code, an invite or a status.
Holding == {"redeem", "revoke", "join"}

LEMMA HoldLeaves ==
  ASSUME DesksOK, NEW d \in Desks, NEW r, Hold(d, r), NEW ops, r.op \notin ops
  PROVE  Undisturbed(ops)
BY DEF DesksOK, Hold, Undisturbed

LEMMA DecidedLeaves ==
  ASSUME DesksOK, NEW d \in Desks, NEW r, NEW C, Decided(d, C, r), NEW ops \in SUBSET Holding, r.op \notin ops
  PROVE  Undisturbed(ops)
<1>1. desk' = [Overtaken(C) EXCEPT ![d] = r] /\ Overtaken(C) = [e \in Desks |-> Overtaken(C)[e]]
  BY DEF Decided, Overtaken
<1>2. \A e \in Desks : desk[e].op # "status" => Overtaken(C)[e] = desk[e]
  BY OvertakenRequest
<1>3. \A e \in Desks : Overtaken(C)[e].op = desk[e].op
  BY OvertakenRequest
<1> HIDE DEF Overtaken
<1>4. \A e \in Desks : desk'[e] = IF e = d THEN r ELSE Overtaken(C)[e]
  BY <1>1
<1> QED
  BY <1>2, <1>3, <1>4 DEF Undisturbed, Holding

\* Subscriptions that a step leaves without a code, or with the one they had.
CodesStay ==
  \A c \in Companies : \/ sub'[c] = sub[c]
                       \/ sub'[c].grant = None
                       \/ /\ sub[c] # NoSub
                          /\ sub'[c].grant = sub[c].grant
                          /\ sub'[c].source = sub[c].source
                          /\ sub'[c].status = sub[c].status

LEMMA OthersLeaveCodes ==
  ASSUME TenancyOK,
         \/ StatusNext \/ HoldNext \/ AssignNext \/ TermNext \/ DealNext
         \/ IssueNext \/ InvoiceNext \/ NoticeNext \/ Tick \/ Crash
  PROVE  grant' = grant /\ CodesStay /\ Undisturbed(Holding)
<1> USE DEF TenancyOK
<1>0. /\ sub \in [Companies -> Sub \cup {NoSub}] /\ RowsOK /\ DesksOK
      /\ \A d \in Desks : Request(desk[d])
      /\ AtRest.op \notin Holding
  BY AtRestPlain DEF RowsOK, DesksOK, Holding
<1>1. ASSUME grant' = grant, sub' = sub, desk' = desk PROVE grant' = grant /\ CodesStay /\ Undisturbed(Holding)
  BY <1>1 DEF CodesStay, Undisturbed
<1>2. ASSUME grant' = grant, sub' = sub, NEW d \in Desks, NEW r, Hold(d, r), r.op \notin Holding
      PROVE  grant' = grant /\ CodesStay /\ Undisturbed(Holding)
  BY <1>0, <1>2, HoldLeaves DEF CodesStay
<1>3. ASSUME grant' = grant, CodesStay, NEW d \in Desks, NEW r, NEW C, Decided(d, C, r), r.op \notin Holding
      PROVE  grant' = grant /\ CodesStay /\ Undisturbed(Holding)
  BY <1>0, <1>3, DecidedLeaves
<1>4. CASE StatusNext
  <2>1. ASSUME NEW d \in Desks, NEW c \in Companies, NEW blind \in BOOLEAN, ReadStatus(d, c, blind)
        PROVE  grant' = grant /\ CodesStay /\ Undisturbed(Holding)
    <3>1. PICK s, e : /\ e = Ensured(c) /\ s = Stamped(c, e) /\ sub' = [sub EXCEPT ![c] = s]
                      /\ Hold(d, [op |-> "status", co |-> c, saw |-> Standing(c, s, blind), late |-> FALSE])
      BY <2>1 DEF ReadStatus
    <3>2. e \in Sub /\ s.grant = e.grant /\ s.source = e.source /\ s.status = e.status
      BY <1>0, <3>1, EnsuredType, StampedType
    <3>3. CodesStay
      BY <1>0, <3>1, <3>2 DEF CodesStay, Ensured, TrialSub
    <3>4. [op |-> "status", co |-> c, saw |-> Standing(c, s, blind), late |-> FALSE].op \notin Holding
      BY DEF Holding
    <3> QED
      BY <1>0, <2>1, <3>1, <3>3, <3>4, HoldLeaves DEF ReadStatus
  <2>2. ASSUME NEW c \in Companies, FailOpen(c)
        PROVE  grant' = grant /\ CodesStay /\ Undisturbed(Holding)
    <3>1. PICK e, s : /\ e = Ensured(c) /\ (s = e \/ s = Stamped(c, e)) /\ sub' = [sub EXCEPT ![c] = s]
                      /\ grant' = grant /\ desk' = desk
      BY <2>2 DEF FailOpen
    <3>2. e \in Sub /\ s.grant = e.grant /\ s.source = e.source /\ s.status = e.status
      BY <1>0, <3>1, EnsuredType, StampedType
    <3>3. CodesStay
      BY <1>0, <3>1, <3>2 DEF CodesStay, Ensured, TrialSub
    <3> QED
      BY <3>1, <3>3 DEF Undisturbed
  <2> QED
    <3>1. ASSUME NEW d \in Desks, KeepStatus(d) PROVE grant' = grant /\ CodesStay /\ Undisturbed(Holding)
      BY <1>0, <1>2, <3>1 DEF KeepStatus, plan
    <3>2. ASSUME NEW c \in Companies, ExpireStatus(c) PROVE grant' = grant /\ CodesStay /\ Undisturbed(Holding)
      BY <1>1, <3>2 DEF ExpireStatus, plan
    <3> QED
      BY <1>4, <2>1, <2>2, <3>1, <3>2 DEF StatusNext
<1>5. CASE HoldNext
  <2>1. sub' = sub /\ grant' = grant /\ CodesStay
    BY <1>5 DEF HoldNext, SetHold, RestoreCompany, Printers, plan, CodesStay
  <2> QED
    BY <1>0, <1>1, <1>3, <1>5, <2>1 DEF HoldNext, SetHold, RestoreCompany, Printers
<1>6. ASSUME NEW d \in Desks, NEW C, NEW pl \in Plans, NEW status \in {"active", "canceled"}, NEW end \in Ends, NEW k,
             Assign(d, C, pl, status, end, k)
      PROVE  grant' = grant /\ CodesStay /\ Undisturbed(Holding)
  <2> DEFINE s == [plan |-> pl, status |-> status, source |-> "manual", grant |-> None,
                   ends |-> IF status = "canceled" THEN day ELSE end]
  <2>1. /\ s.plan \in Plans /\ s.status \in {"active", "canceled"} /\ s.source \in {"manual", "grant_code"}
        /\ s.grant = None /\ s.ends \in Int \cup {None}
    BY <1>0 DEF Ends, RowsOK
  <2>2. sub' = [c \in Companies |-> IF c \in C THEN Upserted(c, s) ELSE sub[c]]
    BY <1>6 DEF Assign
  <2>3. PICK r : Decided(d, C, r) /\ r \in {AtRest, [op |-> "issue", todo |-> C, source |-> "manual", code |-> k]}
    BY <1>6 DEF Assign
  <2>4. r.op \notin Holding
    BY <1>0, <2>3 DEF Holding
  <2> HIDE DEF s
  <2>5. \A c \in Companies : Upserted(c, s).grant = None
    BY <1>0, <2>1, UpsertedType
  <2>6. CodesStay
    BY <2>2, <2>5 DEF CodesStay
  <2> QED
    BY <1>3, <1>6, <2>3, <2>4, <2>6 DEF Assign
<1>7. CASE TermNext
  <2>0. \A s \in Sub : Ended(s).grant = s.grant /\ Ended(s).source = s.source /\ Ended(s).status = s.status
    BY DEF Sub, Ended
  <2>1. ASSUME NEW d \in Desks, NEW C, BulkEndTrial(d, C) PROVE grant' = grant /\ CodesStay /\ Undisturbed(Holding)
    <3>1. PICK hit : /\ hit \in SUBSET Licensed /\ Decided(d, hit, AtRest)
                     /\ sub' = [c \in Companies |-> IF c \in hit THEN Ended(sub[c]) ELSE sub[c]]
                     /\ grant' = grant
      BY <2>1 DEF BulkEndTrial
    <3>2. CodesStay
      BY <1>0, <2>0, <3>1 DEF CodesStay, Licensed
    <3> QED
      BY <1>0, <1>3, <3>1, <3>2
  <2>2. ASSUME NEW d \in Desks, NEW C, NEW n, BulkExtend(d, C, n) PROVE grant' = grant /\ CodesStay /\ Undisturbed(Holding)
    <3>1. PICK hit : /\ hit \in SUBSET Licensed /\ Decided(d, hit, AtRest)
                     /\ \A c \in Companies : sub'[c] = sub[c] \/ (c \in hit /\ \E x : sub'[c] = [sub[c] EXCEPT !.ends = x])
                     /\ grant' = grant
      BY <2>2 DEF BulkExtend
    <3>2. \A s \in Sub : \A x : /\ [s EXCEPT !.ends = x].grant = s.grant /\ [s EXCEPT !.ends = x].source = s.source
                                /\ [s EXCEPT !.ends = x].status = s.status
      BY DEF Sub
    <3>3. CodesStay
      <4>1. \A c \in hit : sub[c] \in Sub /\ sub[c] # NoSub
        BY <1>0, <3>1 DEF Licensed, Open
      <4>2. ASSUME NEW c \in Companies, sub'[c] # sub[c]
            PROVE  sub[c] # NoSub /\ sub'[c].grant = sub[c].grant /\ sub'[c].source = sub[c].source
                   /\ sub'[c].status = sub[c].status
        <5>1. PICK x : sub'[c] = [sub[c] EXCEPT !.ends = x]
          BY <3>1, <4>2
        <5>2. sub[c] \in Sub /\ sub[c] # NoSub
          BY <3>1, <4>1, <4>2
        <5> QED
          BY <3>2, <5>1, <5>2
      <4> QED
        BY <4>2 DEF CodesStay
    <3> QED
      BY <1>0, <1>3, <3>1, <3>3
  <2>3. ASSUME NEW d \in Desks, NEW c, ReadTrial(d, c) PROVE grant' = grant /\ CodesStay /\ Undisturbed(Holding)
    <3>1. [op |-> "endTrial", co |-> c].op \notin Holding
      BY DEF Holding
    <3> QED
      BY <1>2, <2>3, <3>1 DEF ReadTrial, plan
  <2>4. ASSUME NEW d \in Desks, EndTrial(d) PROVE grant' = grant /\ CodesStay /\ Undisturbed(Holding)
    <3>1. PICK c : /\ Decided(d, {c}, AtRest) /\ grant' = grant
                   /\ sub' = IF c \in Licensed THEN [sub EXCEPT ![c] = Ended(sub[c])] ELSE sub
      BY <2>4 DEF EndTrial
    <3>2. CodesStay
      BY <1>0, <2>0, <3>1 DEF CodesStay, Licensed
    <3> QED
      BY <1>0, <1>3, <3>1, <3>2
  <2> QED
    BY <1>7, <2>1, <2>2, <2>3, <2>4 DEF TermNext
<1>8. CASE DealNext
  <2>1. ASSUME NEW d \in Desks, NEW c \in Companies, NEW e, e = Ensured(c), NEW s,
               s.grant = e.grant, s.source = e.source, s.status = e.status,
               sub' = [sub EXCEPT ![c] = s], Decided(d, {c}, AtRest), grant' = grant
        PROVE  grant' = grant /\ CodesStay /\ Undisturbed(Holding)
    <3>1. CodesStay
      BY <1>0, <2>1 DEF CodesStay, Ensured, TrialSub
    <3> QED
      BY <1>0, <1>3, <2>1, <3>1
  <2>2. ASSUME NEW d \in Desks, NEW c \in Companies, NEW cap, SetCustomPlan(d, c, cap)
        PROVE  grant' = grant /\ CodesStay /\ Undisturbed(Holding)
    <3>1. PICK e : e = Ensured(c) /\ e \in Sub
      BY <1>0, EnsuredType
    <3>2. PICK s : s = [e EXCEPT !.cap = cap, !.over = None]
      OBVIOUS
    <3>3. s.grant = e.grant /\ s.source = e.source /\ s.status = e.status
      BY <3>1, <3>2 DEF Sub
    <3>4. sub' = [sub EXCEPT ![c] = s]
      BY <2>2, <3>1, <3>2 DEF SetCustomPlan
    <3> QED
      BY <2>1, <2>2, <3>1, <3>3, <3>4 DEF SetCustomPlan
  <2>3. ASSUME NEW d \in Desks, NEW c \in Companies, NEW pl, Checkout(d, c, pl)
        PROVE  grant' = grant /\ CodesStay /\ Undisturbed(Holding)
    <3>1. PICK e : e = Ensured(c) /\ e \in Sub
      BY <1>0, EnsuredType
    <3>2. PICK s : s = [e EXCEPT !.chosen = pl]
      OBVIOUS
    <3>3. s.grant = e.grant /\ s.source = e.source /\ s.status = e.status
      BY <3>1, <3>2 DEF Sub
    <3>4. sub' = [sub EXCEPT ![c] = s]
      BY <2>3, <3>1, <3>2 DEF Checkout
    <3> QED
      BY <2>1, <2>3, <3>1, <3>3, <3>4 DEF Checkout
  <2> QED
    BY <1>1, <1>8, <2>2, <2>3 DEF DealNext, SaveCustomTier
<1>9. CASE IssueNext
  <2>1. ASSUME NEW d \in Desks, NEW c, ReadIssue(d, c) PROVE grant' = grant /\ CodesStay /\ Undisturbed(Holding)
    <3>1. Plain(desk[d]) /\ desk[d].op = "issue"
      BY <1>0, <2>1 DEF ReadIssue, Request
    <3>2. PICK r : Hold(d, r) /\ \/ r = AtRest
                                 \/ \E x : r = [desk[d] EXCEPT !.todo = x]
                                 \/ r.op = "discount"
      BY <2>1 DEF ReadIssue
    <3>3. r.op \notin Holding
      BY <1>0, <3>1, <3>2 DEF Plain, Holding
    <3> QED
      BY <1>2, <2>1, <3>2, <3>3 DEF ReadIssue, plan
  <2>2. ASSUME NEW d \in Desks, RecordRedemption(d) PROVE grant' = grant /\ CodesStay /\ Undisturbed(Holding)
    <3>1. Plain(desk[d])
      BY <1>0, <2>2 DEF RecordRedemption, Request
    <3>2. [desk[d] EXCEPT !.op = "insert"].op \notin Holding
      BY <3>1 DEF Plain, Holding
    <3> QED
      BY <1>2, <2>2, <3>2 DEF RecordRedemption, plan
  <2>3. ASSUME NEW d \in Desks, InsertInvoice(d) PROVE grant' = grant /\ CodesStay /\ Undisturbed(Holding)
    <3>1. PICK r : Hold(d, r) /\ (r = AtRest \/ r.op = "issue")
      BY <2>3 DEF InsertInvoice
    <3>2. r.op \notin Holding
      BY <1>0, <3>1 DEF Holding
    <3> QED
      BY <1>2, <2>3, <3>1, <3>2 DEF InsertInvoice, plan
  <2> QED
    BY <1>1, <1>9, <2>1, <2>2, <2>3 DEF IssueNext, SwitchDiscount, plan
<1>10. CASE InvoiceNext
  <2>1. ASSUME NEW d \in Desks, NEW op \in {"edit", "drop", "finalize", "mail"}, NEW n, LoadInvoice(d, op, n)
        PROVE  grant' = grant /\ CodesStay /\ Undisturbed(Holding)
    <3>1. [op |-> op, n |-> n, saw |-> invoices[n].status].op \notin Holding
      BY DEF Holding
    <3> QED
      BY <1>2, <2>1, <3>1 DEF LoadInvoice, plan
  <2>2. ASSUME NEW d \in Desks, MailInvoice(d) PROVE grant' = grant /\ CodesStay /\ Undisturbed(Holding)
    <3>1. Plain(desk[d])
      BY <1>0, <2>2 DEF MailInvoice, Request
    <3>2. PICK r : Hold(d, r) /\ r \in {AtRest, [desk[d] EXCEPT !.op = "mailed"]}
      BY <2>2 DEF MailInvoice
    <3>3. r.op \notin Holding
      BY <1>0, <3>1, <3>2 DEF Plain, Holding
    <3> QED
      BY <1>2, <2>2, <3>2, <3>3 DEF MailInvoice, plan
  <2> QED
    BY <1>0, <1>1, <1>2, <1>10, <2>1, <2>2 DEF InvoiceNext, CreateInvoice, WriteInvoice, plan
<1>11. CASE NoticeNext \/ Tick
  BY <1>1, <1>11 DEF NoticeNext, SweepBegin, NotifyQuiet, Notify, RecordSent, Tick, plan
<1>12. CASE Crash
  BY <1>0, <1>12 DEF Crash, plan, CodesStay, Undisturbed
<1> QED
  BY <1>4, <1>5, <1>6, <1>7, <1>8, <1>9, <1>10, <1>11, <1>12 DEF AssignNext

----------------------------------------------------------------------------
(* Grant codes.                                                            *)

Locking == {"redeem", "revoke"}

\* The code a subscription rests on is the company's, and revoked with it.
Carried(c) ==
  sub[c] # NoSub /\ sub[c].grant # None =>
    /\ sub[c].source = "grant_code"
    /\ grant[sub[c].grant] # NoGrant /\ grant[sub[c].grant].by = c
    /\ grant[sub[c].grant].revoked => sub[c].status = "revoked"

OneHolder ==
  \A d, e \in Desks : desk[d].op \in Locking /\ desk[e].op \in Locking /\ desk[d].grant = desk[e].grant => d = e

\* A transaction on a code finds the row as it read it.
RowAsRead(d) ==
  /\ desk[d].op = "redeem" => /\ grant[desk[d].grant] = desk[d].saw
                              /\ desk[d].saw # NoGrant /\ ~desk[d].saw.revoked
                              /\ desk[d].saw.by \in {None, desk[d].co}
  /\ desk[d].op = "revoke" => grant[desk[d].grant] # NoGrant /\ desk[d].by = grant[desk[d].grant].by

CodesOK == (\A c \in Companies : Carried(c)) /\ OneHolder /\ (\A d \in Desks : RowAsRead(d))

\* What the requests that hold codes are, and which codes.
LEMMA Holders ==
  ASSUME TenancyOK, NEW d \in Desks, desk[d].op \in Locking
  PROVE  /\ desk[d].grant \in Grants
         /\ desk[d].op = "redeem" => desk[d] \in [op : {"redeem"}, co : Companies, grant : Grants, saw : Grant]
         /\ desk[d].op = "revoke" => desk[d] \in [op : {"revoke"}, grant : Grants, by : Companies \cup {None}]
BY DEF TenancyOK, DesksOK, Request, Plain, Locking

LEMMA LocksKept ==
  ASSUME CodesOK, Undisturbed(Locking), \A e \in Desks : desk[e].op \in Locking => grant'[desk[e].grant] = grant[desk[e].grant]
  PROVE  OneHolder' /\ \A e \in Desks : RowAsRead(e)'
<1>1. OneHolder'
  BY DEF CodesOK, OneHolder, Undisturbed
<1>2. ASSUME NEW e \in Desks PROVE RowAsRead(e)'
  <2>1. CASE desk'[e].op \in Locking
    <3>1. desk'[e] = desk[e] /\ grant'[desk[e].grant] = grant[desk[e].grant]
      BY <2>1 DEF Undisturbed
    <3> QED
      BY <3>1 DEF CodesOK, RowAsRead
  <2>2. CASE desk'[e].op \notin Locking
    BY <2>2 DEF RowAsRead, Locking
  <2> QED
    BY <2>1, <2>2
<1> QED
  BY <1>1, <1>2

LEMMA CodesKept ==
  ASSUME CodesOK, grant' = grant, CodesStay, Undisturbed(Locking)
  PROVE  CodesOK'
<1>1. OneHolder' /\ \A e \in Desks : RowAsRead(e)'
  BY LocksKept
<1>2. \A c \in Companies : Carried(c)'
  BY DEF CodesOK, Carried, CodesStay
<1> QED
  BY <1>1, <1>2 DEF CodesOK

LEMMA LessDisturbs ==
  ASSUME Undisturbed(Holding)
  PROVE  Undisturbed(Locking)
BY DEF Undisturbed, Holding, Locking

\* A request that takes a code nobody holds.
LEMMA TakesCode ==
  ASSUME TenancyOK, CodesOK, NEW d \in Desks, NEW g, ~Locked(g), NEW r, Hold(d, r), r.op \in Locking, r.grant = g,
         grant' = grant, sub' = sub,
         r.op = "redeem" => grant[g] = r.saw /\ r.saw # NoGrant /\ ~r.saw.revoked /\ r.saw.by \in {None, r.co},
         r.op = "revoke" => grant[g] # NoGrant /\ r.by = grant[g].by
  PROVE  CodesOK'
<1>1. desk'[d] = r /\ \A e \in Desks \ {d} : desk'[e] = desk[e]
  BY DEF Hold, TenancyOK, DesksOK
<1>2. OneHolder'
  BY <1>1 DEF CodesOK, OneHolder, Locked, Locking
<1>3. \A e \in Desks : RowAsRead(e)'
  BY <1>1 DEF CodesOK, RowAsRead
<1>4. \A c \in Companies : Carried(c)'
  BY DEF CodesOK, Carried
<1> QED
  BY <1>2, <1>3, <1>4 DEF CodesOK

LEMMA GrantCodes ==
  ASSUME TenancyOK, CodesOK, GrantNext
  PROVE  CodesOK'
<1>0. /\ sub \in [Companies -> Sub \cup {NoSub}] /\ grant \in [Grants -> Grant \cup {NoGrant}]
      /\ company \in [Companies -> Company] /\ RowsOK /\ DesksOK
      /\ \A c \in Companies : sub[c] # NoSub => c \in Open
  BY DEF TenancyOK, RowsOK
<1>1. ASSUME NEW g \in Grants, NEW pl \in Plans, NEW end, CreateGrant(g, pl, end) PROVE CodesOK'
  <2>1. grant[g] = NoGrant /\ sub' = sub /\ desk' = desk /\ \A h \in Grants \ {g} : grant'[h] = grant[h]
    BY <1>0, <1>1 DEF CreateGrant
  <2>2. \A e \in Desks : desk[e].op \in Locking => desk[e].grant \in Grants \ {g}
    BY <2>1, Holders DEF CodesOK, RowAsRead, Locking
  <2>3. OneHolder' /\ \A e \in Desks : RowAsRead(e)'
    BY <2>1, <2>2, LocksKept DEF Undisturbed
  <2>4. \A c \in Companies : sub[c] # NoSub /\ sub[c].grant # None => sub[c].grant \in Grants \ {g}
    BY <1>0, <2>1 DEF CodesOK, Carried, Sub
  <2>5. \A c \in Companies : Carried(c)'
    BY <2>1, <2>4 DEF CodesOK, Carried
  <2> QED
    BY <2>3, <2>5 DEF CodesOK
<1>2. ASSUME NEW d \in Desks, NEW g \in Grants, ReadRevoked(d, g) PROVE CodesOK'
  BY <1>2, TakesCode DEF ReadRevoked, plan, Locking
<1>3. ASSUME NEW d \in Desks, NEW g \in Grants, NEW c \in Companies, ReadGrant(d, c, g) PROVE CodesOK'
  BY <1>3, TakesCode DEF ReadGrant, MayRedeem, plan, Locking
<1>4. ASSUME NEW d \in Desks, NEW g \in Grants, NEW v, grant' = [grant EXCEPT ![g] = v], g = desk[d].grant,
             desk[d].op \in Locking, NEW C, NEW r, Decided(d, C, r), r.op \notin Locking
      PROVE  OneHolder' /\ \A e \in Desks : RowAsRead(e)'
  <2>1. desk'[d] = r /\ \A e \in Desks \ {d} : desk'[e] = Overtaken(C)[e]
    BY <1>4 DEF Decided, Overtaken
  <2>2. ASSUME NEW e \in Desks, desk'[e].op \in Locking
        PROVE  /\ desk'[e] = desk[e] /\ desk[e].grant \in Grants \ {g} /\ e # d
               /\ grant'[desk[e].grant] = grant[desk[e].grant]
    <3>1. desk'[e] = desk[e] /\ e # d
      BY <1>0, <1>4, <2>1, <2>2, OvertakenRequest DEF Locking
    <3>2. desk[e].grant # g
      BY <1>4, <2>2, <3>1 DEF CodesOK, OneHolder
    <3> QED
      BY <1>0, <1>4, <2>2, <3>1, <3>2, Holders
  <2>3. OneHolder'
    BY <2>2 DEF CodesOK, OneHolder
  <2>4. \A e \in Desks : RowAsRead(e)'
    BY <2>2 DEF CodesOK, RowAsRead, Locking
  <2> QED
    BY <2>3, <2>4
<1>5. ASSUME NEW d \in Desks, RedeemTx(d) PROVE CodesOK'
  <2>1. desk[d] \in [op : {"redeem"}, co : Companies, grant : Grants, saw : Grant] /\ desk[d].op \in Locking
    BY <1>5, Holders DEF RedeemTx, Locking
  <2>2. CASE desk[d].co \in Open
    <3>1. PICK c \in Companies, g \in Grants, w \in Grant : c = desk[d].co /\ g = desk[d].grant /\ w = desk[d].saw
      BY <2>1
    <3>2. PICK s : s = [plan |-> w.plan, status |-> "active", source |-> "grant_code", ends |-> w.ends, grant |-> g]
      OBVIOUS
    <3>3. PICK r : r = [op |-> "issue", todo |-> {c}, source |-> "grant_code", code |-> None]
      OBVIOUS
    <3>4. sub' = [sub EXCEPT ![c] = Upserted(c, s)] /\ grant' = [grant EXCEPT ![g].by = c] /\ Decided(d, {c}, r)
      BY <1>5, <2>2, <3>1, <3>2, <3>3 DEF RedeemTx
    <3>5. grant[g] = w /\ ~w.revoked /\ w.by \in {None, c} /\ w # NoGrant
      BY <2>1, <3>1 DEF CodesOK, RowAsRead
    <3>6. /\ Upserted(c, s) \in Sub
          /\ Upserted(c, s).grant = g /\ Upserted(c, s).source = "grant_code" /\ Upserted(c, s).status = "active"
      <4>1. /\ s.plan \in Plans /\ s.status \in {"active", "canceled"} /\ s.source \in {"manual", "grant_code"}
            /\ s.ends \in Int \cup {None} /\ s.grant \in Grants \cup {None}
            /\ s.grant = g /\ s.source = "grant_code" /\ s.status = "active"
        BY <3>2 DEF Grant
      <4> QED
        BY <1>0, <4>1, UpsertedType
    <3>7. r.op \notin Locking
      BY <3>3 DEF Locking
    <3>8. grant' = [grant EXCEPT ![g] = [w EXCEPT !.by = c]]
      BY <3>4, <3>5
    <3>9. OneHolder' /\ \A e \in Desks : RowAsRead(e)'
      BY <1>4, <2>1, <3>1, <3>4, <3>7, <3>8
    <3>10. grant'[g] # NoGrant /\ grant'[g].by = c /\ ~grant'[g].revoked
      BY <1>0, <3>5, <3>8 DEF Grant, NoGrant
    <3>11. ASSUME NEW x \in Companies, x # c PROVE Carried(x)'
      <4>1. sub'[x] = sub[x]
        BY <1>0, <3>4, <3>11
      <4>2. CASE sub[x] # NoSub /\ sub[x].grant # None
        <5>1. sub[x].grant \in Grants /\ grant[sub[x].grant].by = x
          BY <1>0, <4>2 DEF CodesOK, Carried, Sub
        <5>2. sub[x].grant # g
          BY <3>5, <3>11, <5>1
        <5>3. grant'[sub[x].grant] = grant[sub[x].grant]
          BY <1>0, <3>8, <5>1, <5>2
        <5> QED
          BY <4>1, <5>3 DEF CodesOK, Carried
      <4> QED
        BY <4>1, <4>2 DEF Carried
    <3>12. Carried(c)'
      BY <1>0, <3>4, <3>6, <3>10 DEF Carried
    <3> QED
      BY <3>9, <3>11, <3>12 DEF CodesOK
  <2>3. CASE desk[d].co \notin Open
    <3>1. Hold(d, AtRest) /\ sub' = sub /\ grant' = grant
      BY <1>5, <2>3 DEF RedeemTx
    <3>2. AtRest.op \notin Locking
      BY AtRestPlain DEF Locking
    <3> QED
      BY <1>0, <3>1, <3>2, HoldLeaves, CodesKept DEF CodesStay
  <2> QED
    BY <2>2, <2>3
<1>6. ASSUME NEW d \in Desks, RevokeTx(d) PROVE CodesOK'
  <2>1. desk[d] \in [op : {"revoke"}, grant : Grants, by : Companies \cup {None}] /\ desk[d].op \in Locking
    BY <1>6, Holders DEF RevokeTx, Locking
  <2>2. PICK g \in Grants : g = desk[d].grant
    BY <2>1
  <2>3. PICK C : C = {c \in Licensed : c = desk[d].by /\ sub[c].source = "grant_code" /\ sub[c].grant = g}
    OBVIOUS
  <2>4. /\ grant' = [grant EXCEPT ![g].revoked = TRUE]
        /\ sub' = [c \in Companies |-> IF c \in C THEN [sub[c] EXCEPT !.status = "revoked", !.ends = day] ELSE sub[c]]
        /\ Decided(d, {desk[d].by} \cap Companies, AtRest)
    BY <1>6, <2>2, <2>3 DEF RevokeTx
  <2>5. grant[g] \in Grant /\ grant[g] # NoGrant /\ desk[d].by = grant[g].by
    BY <1>0, <2>1, <2>2 DEF CodesOK, RowAsRead
  <2>6. grant' = [grant EXCEPT ![g] = [grant[g] EXCEPT !.revoked = TRUE]]
    BY <2>4
  <2>7. grant'[g] # NoGrant /\ grant'[g].by = grant[g].by
    BY <1>0, <2>5, <2>6 DEF Grant, NoGrant
  <2>8. AtRest.op \notin Locking
    BY AtRestPlain DEF Locking
  <2>9. OneHolder' /\ \A e \in Desks : RowAsRead(e)'
    BY <1>4, <2>1, <2>2, <2>4, <2>6, <2>8
  <2>10. ASSUME NEW c \in Companies PROVE Carried(c)'
    <3>1. CASE c \in C
      <4>1. sub[c] \in Sub /\ sub[c] # NoSub /\ sub[c].grant = g /\ sub[c].source = "grant_code" /\ grant[g].by = c
        BY <1>0, <2>3, <2>5, <3>1 DEF Licensed, Open
      <4>2. sub'[c] = [sub[c] EXCEPT !.status = "revoked", !.ends = day]
        BY <2>4, <3>1
      <4>3. sub'[c].grant = g /\ sub'[c].source = "grant_code" /\ sub'[c].status = "revoked"
        BY <4>1, <4>2 DEF Sub
      <4> QED
        BY <2>7, <4>1, <4>3 DEF Carried
    <3>2. CASE c \notin C
      <4>1. sub'[c] = sub[c]
        BY <2>4, <3>2
      <4>2. CASE sub[c] # NoSub /\ sub[c].grant # None
        <5>1. /\ sub[c].grant \in Grants /\ sub[c].source = "grant_code" /\ c \in Licensed
              /\ grant[sub[c].grant].by = c
          BY <1>0, <4>2 DEF CodesOK, Carried, Sub, Licensed
        <5>2. sub[c].grant # g
          BY <2>3, <2>5, <3>2, <5>1
        <5>3. grant'[sub[c].grant] = grant[sub[c].grant]
          BY <1>0, <2>6, <5>1, <5>2
        <5> QED
          BY <4>1, <5>3 DEF CodesOK, Carried
      <4> QED
        BY <4>1, <4>2 DEF Carried
    <3> QED
      BY <3>1, <3>2
  <2> QED
    BY <2>9, <2>10 DEF CodesOK
<1> QED
  BY <1>1, <1>2, <1>3, <1>5, <1>6 DEF GrantNext

\* Requests of the staff and of the purge leave the codes, but for those of a
\* company that goes.
LEMMA MembersCodes ==
  ASSUME TenancyOK, CodesOK, MembersNext
  PROVE  CodesOK'
<1>0. sub \in [Companies -> Sub \cup {NoSub}] /\ DesksOK /\ AtRest.op \notin Locking
  BY AtRestPlain DEF TenancyOK, RowsOK, Locking
<1>1. ASSUME grant' = grant, sub' = sub, NEW d \in Desks, NEW r, Hold(d, r), r.op \notin Locking PROVE CodesOK'
  BY <1>0, <1>1, HoldLeaves, CodesKept DEF CodesStay
<1>2. ASSUME NEW d \in Desks, NEW u, NEW i, ReadInvite(d, u, i) PROVE CodesOK'
  <2>1. [op |-> "join", who |-> u, invite |-> i, co |-> invite[i].co].op \notin Locking
    BY DEF Locking
  <2> QED
    BY <1>1, <1>2, <2>1 DEF ReadInvite, plan
<1>3. ASSUME NEW d \in Desks, NEW u, NEW c, SetupOwner(d, u, c) PROVE CodesOK'
  <2>1. [op |-> "trial", co |-> c].op \notin Locking
    BY DEF Locking
  <2> QED
    BY <1>1, <1>3, <2>1 DEF SetupOwner, plan
<1>4. ASSUME NEW d \in Desks, NEW pl, EnsureTrial(d, pl) PROVE CodesOK'
  <2>1. [TrialSub EXCEPT !.chosen = pl].grant = None
    BY DEF TrialSub
  <2>2. Hold(d, AtRest) /\ grant' = grant
    BY <1>4 DEF EnsureTrial
  <2>3. \A c \in Companies : sub'[c] = sub[c] \/ sub'[c] = [TrialSub EXCEPT !.chosen = pl]
    BY <1>0, <1>4 DEF EnsureTrial
  <2>4. CodesStay
    BY <2>1, <2>3 DEF CodesStay
  <2> QED
    BY <1>0, <2>2, <2>4, HoldLeaves, CodesKept
<1>5. ASSUME NEW d \in Desks, JoinTx(d) PROVE CodesOK'
  BY <1>0, <1>1, <1>5 DEF JoinTx, Join, plan
<1>6. ASSUME UNCHANGED licenceVars PROVE CodesOK'
  BY <1>6, CodesKept DEF licenceVars, plan, CodesStay, Undisturbed
<1> QED
  BY <1>2, <1>3, <1>4, <1>5, <1>6 DEF MembersNext, RevokeInvite, CreateInvite, RemoveStaffMember, UpdatePermissions

LEMMA PurgeCodes ==
  ASSUME TenancyOK, CodesOK, PurgeNext
  PROVE  CodesOK'
<1>0. /\ sub \in [Companies -> Sub \cup {NoSub}] /\ grant \in [Grants -> Grant \cup {NoGrant}]
      /\ DesksOK /\ RowsOK /\ \A d \in Desks : Request(desk[d])
  BY DEF TenancyOK, RowsOK, DesksOK
<1>1. ASSUME grant' = grant, sub' = sub, NEW d \in Desks, NEW r, Hold(d, r), r.op \notin Locking PROVE CodesOK'
  BY <1>0, <1>1, HoldLeaves, CodesKept DEF CodesStay
<1>2. ASSUME NEW d \in Desks, NEW c, PurgeRead(d, c) PROVE CodesOK'
  <2>1. PICK r : Hold(d, r) /\ r.op = "purge"
    BY <1>2 DEF PurgeRead
  <2> QED
    BY <1>1, <1>2, <2>1 DEF PurgeRead, plan, Locking
<1>3. ASSUME NEW d \in Desks, PurgeDelete(d) PROVE CodesOK'
  <2>1. Plain(desk[d])
    BY <1>0, <1>3 DEF PurgeDelete, Request
  <2>2. [desk[d] EXCEPT !.op = "orphans"].op \notin Locking
    BY <2>1 DEF Plain, Locking
  <2>3. Undisturbed(Locking)
    BY <1>0, <1>3, <2>2, HoldLeaves DEF PurgeDelete
  <2>4. PICK c : c = desk[d].co
    OBVIOUS
  <2>5. /\ \A g \in Grants : Locked(g) => grant[g].by # c
        /\ sub' = [sub EXCEPT ![c] = NoSub]
        /\ grant' = [g \in Grants |-> IF grant[g] # NoGrant /\ grant[g].by = c THEN [grant[g] EXCEPT !.by = None] ELSE grant[g]]
    BY <1>3, <2>4 DEF PurgeDelete
  <2>6. ASSUME NEW e \in Desks, desk[e].op \in Locking PROVE grant'[desk[e].grant] = grant[desk[e].grant]
    <3>1. desk[e].grant \in Grants /\ Locked(desk[e].grant)
      BY <2>6, Holders DEF Locked, Locking
    <3> QED
      BY <2>5, <3>1
  <2>7. OneHolder' /\ \A e \in Desks : RowAsRead(e)'
    BY <2>3, <2>6, LocksKept
  <2>8. ASSUME NEW x \in Companies PROVE Carried(x)'
    <3>1. CASE x = c
      BY <1>0, <2>5, <3>1 DEF Carried
    <3>2. CASE x # c /\ sub[x] # NoSub /\ sub[x].grant # None
      <4>1. sub[x].grant \in Grants /\ grant[sub[x].grant].by = x
        BY <1>0, <3>2 DEF CodesOK, Carried, Sub
      <4>2. grant'[sub[x].grant] = grant[sub[x].grant] /\ sub'[x] = sub[x]
        BY <1>0, <2>5, <3>2, <4>1
      <4> QED
        BY <4>2 DEF CodesOK, Carried
    <3>3. CASE x # c /\ (sub[x] = NoSub \/ sub[x].grant = None)
      BY <1>0, <2>5, <3>3 DEF Carried
    <3> QED
      BY <3>1, <3>2, <3>3
  <2> QED
    BY <2>7, <2>8 DEF CodesOK
<1>4. ASSUME NEW d \in Desks, PurgeCheck(d) PROVE CodesOK'
  <2>1. Plain(desk[d]) /\ desk[d].op = "orphans"
    BY <1>0, <1>4 DEF PurgeCheck, Request
  <2>2. PICK x : Hold(d, [desk[d] EXCEPT !.op = "accounts", !.who = x])
    BY <1>4 DEF PurgeCheck
  <2>3. [desk[d] EXCEPT !.op = "accounts", !.who = x].op \notin Locking
    BY <2>1 DEF Plain, Locking
  <2> QED
    BY <1>1, <1>4, <2>2, <2>3 DEF PurgeCheck, plan
<1>5. ASSUME NEW d \in Desks, NEW failed, PurgeAccounts(d, failed) PROVE CodesOK'
  <2>1. PICK C : Decided(d, C, AtRest) /\ grant' = grant /\ sub' = sub
    BY <1>5 DEF PurgeAccounts, plan
  <2>2. AtRest.op \notin Locking /\ Locking \in SUBSET Holding
    BY AtRestPlain DEF Locking, Holding
  <2> QED
    BY <1>0, <2>1, <2>2, DecidedLeaves, CodesKept DEF CodesStay
<1> QED
  BY <1>2, <1>3, <1>4, <1>5 DEF PurgeNext

LEMMA CodesStep == TenancyOK /\ CodesOK /\ [TenancyNext]_memberVars => CodesOK'
<1> SUFFICES ASSUME TenancyOK, CodesOK, [TenancyNext]_memberVars PROVE CodesOK'
  OBVIOUS
<1>1. CASE LicencesNext
  BY <1>1, GrantCodes, OthersLeaveCodes, LessDisturbs, CodesKept DEF LicencesNext
<1>2. CASE UNCHANGED memberVars
  BY <1>2, CodesKept DEF memberVars, licenceVars, plan, CodesStay, Undisturbed
<1> QED
  BY <1>1, <1>2, MembersCodes, PurgeCodes DEF TenancyNext

\* A grant code backs at most one company, and one that is revoked backs no
\* plan in force, however redeeming, revoking and purging meet (redeem,
\* revokeGrant, purgeCompany).
THEOREM CodesBackOneCompany == TenancySpec => []CodesCarryOneCompany
<1>1. MembersInit => CodesOK
  <2> SUFFICES ASSUME MembersInit PROVE CodesOK
    OBVIOUS
  <2>1. \A c \in Companies : Carried(c)
    BY DEF MembersInit, LicencesInit, Carried, TrialSub
  <2> QED
    BY <2>1, AtRestPlain DEF MembersInit, LicencesInit, CodesOK, OneHolder, RowAsRead, Locking
<1>2. TenancyOK /\ CodesOK => CodesCarryOneCompany
  BY DEF TenancyOK, RowsOK, CodesOK, Carried, CodesCarryOneCompany, Licensed, Open
<1> QED
  BY <1>1, <1>2, CodesStep, TenancyInvariance, PTL DEF TenancySpec

----------------------------------------------------------------------------
(* The guard.                                                              *)

\* A status that says of c what is decided about it.
Match(c, saw) ==
  /\ company[c].stage # "new"
  /\ c \in Open => /\ sub[c] # NoSub /\ saw.plan = sub[c].plan
                   /\ ~saw.blind => saw.hold = company[c].hold /\ saw.deleted = company[c].deleted
  /\ saw.blind => saw.hold = None /\ ~saw.deleted
  /\ saw.hold = "suspended" => saw.state = "readonly"

GuardOK ==
  /\ \A c \in Companies : cache[c] # None /\ ~cache[c].late => Match(c, cache[c].saw)
  /\ \A d \in Desks : desk[d].op = "status" /\ ~desk[d].late => Match(desk[d].co, desk[d].saw)

\* Nothing is decided about c.
Steady(c) ==
  company[c].stage # "new" =>
    /\ company'[c].stage # "new"
    /\ company'[c].stage = "open" =>
         /\ company[c].stage = "open"
         /\ company'[c].hold = company[c].hold /\ company'[c].deleted = company[c].deleted
         /\ sub[c] # NoSub => sub'[c] # NoSub /\ sub'[c].plan = sub[c].plan

LEMMA MatchKept ==
  ASSUME NEW c \in Companies, NEW saw, Match(c, saw), Steady(c)
  PROVE  \A s : s = saw => Match(c, s)'
BY DEF Match, Steady, Open

\* Statuses resolved before the step, of companies about which nothing is
\* decided, are all that is still taken for current.
Forgotten(C) ==
  /\ \A c \in Companies : cache'[c] = None \/ (c \notin C /\ cache'[c] = cache[c])
  /\ \A e \in Desks : desk'[e].op = "status" /\ ~desk'[e].late =>
       /\ desk[e].op = "status" /\ ~desk[e].late /\ desk[e].co \notin C
       /\ desk'[e].co = desk[e].co /\ desk'[e].saw = desk[e].saw

LEMMA GuardKept ==
  ASSUME TenancyOK, GuardOK, NEW C, Forgotten(C), \A c \in Companies \ C : Steady(c)
  PROVE  GuardOK'
<1>1. ASSUME NEW c \in Companies, cache'[c] # None, ~cache'[c].late PROVE Match(c, cache[c].saw)' /\ cache'[c] = cache[c]
  <2>1. cache'[c] = cache[c] /\ c \notin C
    BY <1>1 DEF Forgotten
  <2>2. PICK s : s = cache[c].saw
    OBVIOUS
  <2>3. Match(c, s)
    BY <1>1, <2>1, <2>2 DEF GuardOK
  <2>4. Match(c, s)'
    BY <2>1, <2>3, MatchKept
  <2> QED
    BY <2>1, <2>2, <2>4 DEF Match
<1>2. ASSUME NEW e \in Desks, desk'[e].op = "status", ~desk'[e].late PROVE Match(desk[e].co, desk[e].saw)'
  <2>1. /\ desk[e].op = "status" /\ ~desk[e].late /\ desk[e].co \notin C
        /\ desk'[e].co = desk[e].co /\ desk'[e].saw = desk[e].saw
    BY <1>2 DEF Forgotten
  <2>2. desk[e].co \in Companies
    BY <2>1 DEF TenancyOK, DesksOK, Request, Plain
  <2>3. PICK c, s : c = desk[e].co /\ s = desk[e].saw /\ c \in Companies
    BY <2>2
  <2>4. Match(c, s)
    BY <2>1, <2>3 DEF GuardOK
  <2>5. Match(c, s)'
    BY <2>1, <2>3, <2>4, MatchKept
  <2> QED
    BY <2>1, <2>3, <2>5 DEF Match
<1> QED
  BY <1>1, <1>2 DEF GuardOK

LEMMA HoldForgets ==
  ASSUME TenancyOK, NEW d \in Desks, NEW r, Hold(d, r), r.op # "status", cache' = cache
  PROVE  Forgotten({})
<1>1. desk'[d] = r /\ \A e \in Desks \ {d} : desk'[e] = desk[e]
  BY DEF Hold, TenancyOK, DesksOK
<1> QED
  BY <1>1 DEF Forgotten

LEMMA DecidedForgets ==
  ASSUME TenancyOK, NEW d \in Desks, NEW r, NEW C, Decided(d, C, r), r.op # "status"
  PROVE  Forgotten(C)
<1>1. desk' = [Overtaken(C) EXCEPT ![d] = r] /\ cache' = Invalidated(C) /\ DesksOK
  BY DEF Decided, TenancyOK
<1>2. \A c \in Companies : cache'[c] = None \/ (c \notin C /\ cache'[c] = cache[c])
  BY <1>1 DEF Invalidated
<1>3. Overtaken(C) = [e \in Desks |-> Overtaken(C)[e]]
  BY DEF Overtaken
<1> HIDE DEF Overtaken
<1>4. desk'[d] = r /\ \A e \in Desks \ {d} : desk'[e] = Overtaken(C)[e]
  BY <1>1, <1>3
<1>5. ASSUME NEW e \in Desks, desk'[e].op = "status", ~desk'[e].late
      PROVE  /\ desk[e].op = "status" /\ ~desk[e].late /\ desk[e].co \notin C
             /\ desk'[e].co = desk[e].co /\ desk'[e].saw = desk[e].saw
  <2>1. desk'[e] = Overtaken(C)[e]
    BY <1>4, <1>5
  <2> QED
    <3>1. PICK o : o = Overtaken(C)[e]
      OBVIOUS
    <3>2. /\ o.op = desk[e].op
          /\ desk[e].op = "status" => o.co = desk[e].co /\ o.saw = desk[e].saw /\ o.late = (desk[e].late \/ desk[e].co \in C)
      BY <1>1, <3>1, OvertakenRequest
    <3>3. o.op = "status" /\ ~o.late /\ desk'[e] = o
      BY <1>5, <2>1, <3>1
    <3>4. ~(desk[e].late \/ desk[e].co \in C)
      BY <3>2, <3>3
    <3> QED
      BY <3>2, <3>3, <3>4
<1> QED
  BY <1>2, <1>5 DEF Forgotten

\* What decides nothing, and what changes rows whose statuses are forgotten.
LEMMA GuardUntouched ==
  ASSUME TenancyOK, GuardOK, company' = company, sub' = sub, cache' = cache,
         desk' = desk \/ \E d \in Desks : \E r : Hold(d, r) /\ r.op # "status"
  PROVE  GuardOK'
<1>1. Forgotten({})
  BY HoldForgets DEF Forgotten
<1> QED
  BY <1>1, GuardKept DEF Steady

LEMMA GuardDecided ==
  ASSUME TenancyOK, GuardOK, NEW d \in Desks, NEW r, NEW C, Decided(d, C, r), r.op # "status",
         \A c \in Companies \ C : company'[c] = company[c],
         \A c \in Companies \ C : sub[c] # NoSub => sub'[c] # NoSub /\ sub'[c].plan = sub[c].plan
  PROVE  GuardOK'
<1>1. \A c \in Companies \ C : Steady(c)
  BY DEF Steady
<1> QED
  BY <1>1, DecidedForgets, GuardKept

LEMMA GuardStep == TenancyOK /\ GuardOK /\ [TenancyNext]_memberVars => GuardOK'
<1> SUFFICES ASSUME TenancyOK, GuardOK, [TenancyNext]_memberVars PROVE GuardOK'
  OBVIOUS
<1>0. /\ sub \in [Companies -> Sub \cup {NoSub}] /\ company \in [Companies -> Company]
      /\ cache \in [Companies -> Entry \cup {None}] /\ RowsOK /\ DesksOK
      /\ \A c \in Companies : sub[c] # NoSub => c \in Open
      /\ \A d \in Desks : Request(desk[d])
  BY DEF TenancyOK, RowsOK, DesksOK
<1>1. AtRest.op # "status" /\ \A s \in Sub : s # NoSub
  BY AtRestPlain DEF Sub, NoSub
<1>2. CASE StatusNext
  <2>1. ASSUME NEW d \in Desks, KeepStatus(d) PROVE GuardOK'
    <3>1. desk[d] \in [op : {"status"}, co : Companies, saw : Seen, late : BOOLEAN]
      BY <1>0, <2>1 DEF KeepStatus, Request, Plain
    <3>2. /\ \A e \in Desks \ {d} : desk'[e] = desk[e]
          /\ desk'[d] = AtRest /\ company' = company /\ sub' = sub
      BY <1>0, <2>1 DEF KeepStatus, Hold, DesksOK, plan
    <3>3. PICK c \in Companies : c = desk[d].co
      BY <3>1
    <3>4. /\ cache'[c] = [saw |-> desk[d].saw, late |-> desk[d].late]
          /\ \A x \in Companies \ {c} : cache'[x] = cache[x]
      BY <1>0, <2>1, <3>3 DEF KeepStatus
    <3>5. \A x, s : Match(x, s) => Match(x, s)'
      BY <3>2 DEF Match, Open
    <3>6. cache'[c].saw = desk[d].saw /\ cache'[c].late = desk[d].late
      BY <3>4
    <3>7. ~cache'[c].late => Match(c, desk[d].saw)
      BY <3>1, <3>3, <3>6 DEF GuardOK
    <3>8. \A x \in Companies : cache'[x] # None /\ ~cache'[x].late => Match(x, cache'[x].saw)
      BY <3>4, <3>6, <3>7 DEF GuardOK
    <3>9. \A e \in Desks : desk'[e].op = "status" /\ ~desk'[e].late => Match(desk'[e].co, desk'[e].saw)
      BY <1>1, <3>2 DEF GuardOK
    <3> QED
      BY <3>2, <3>8, <3>9 DEF GuardOK, Match, Open
  <2>2. ASSUME NEW d \in Desks, NEW c \in Companies, NEW blind \in BOOLEAN, ReadStatus(d, c, blind) PROVE GuardOK'
    <3>1. PICK e, s : /\ e = Ensured(c) /\ s = Stamped(c, e) /\ sub' = [sub EXCEPT ![c] = s]
                      /\ Hold(d, [op |-> "status", co |-> c, saw |-> Standing(c, s, blind), late |-> FALSE])
      BY <2>2 DEF ReadStatus
    <3>2. e \in Sub /\ s \in Sub /\ s.plan = e.plan
      BY <1>0, <3>1, EnsuredType, StampedType
    <3>3. c \in Open /\ company' = company /\ cache' = cache
      BY <2>2 DEF ReadStatus
    <3>4. PICK w : w = Standing(c, s, blind)
      OBVIOUS
    <3>5. /\ w.plan = s.plan
          /\ ~w.blind => w.hold = company[c].hold /\ w.deleted = company[c].deleted
          /\ w.blind => w.hold = None /\ ~w.deleted
          /\ w.hold = "suspended" => w.state = "readonly"
      <4>1. CASE blind
        BY <3>4, <4>1 DEF Standing
      <4>2. CASE ~blind
        <5>1. company[c].deleted \in BOOLEAN
          BY <1>0 DEF Company
        <5> QED BY <3>4, <4>2, <5>1 DEF Standing
      <4> QED BY <4>1, <4>2
    <3>6. /\ desk'[d] = [op |-> "status", co |-> c, saw |-> w, late |-> FALSE]
          /\ \A x \in Desks \ {d} : desk'[x] = desk[x]
      BY <1>0, <3>1, <3>4 DEF Hold, DesksOK
    <3>7. \A x \in Companies : sub[x] # NoSub => sub'[x] # NoSub /\ sub'[x].plan = sub[x].plan
      BY <1>0, <1>1, <3>1, <3>2 DEF Ensured
    <3>8. \A x \in Companies : \A v : Match(x, v) => Match(x, v)'
      BY <3>3, <3>7 DEF Match, Open
    <3>9. company[c].stage # "new" /\ sub'[c] # NoSub /\ sub'[c].plan = s.plan
      BY <1>0, <1>1, <3>1, <3>2, <3>3 DEF Open
    <3>10. Match(c, w)'
      BY <3>3, <3>5, <3>9 DEF Match
    <3>11. ASSUME NEW x \in Companies, cache[x] # None, ~cache[x].late PROVE Match(x, cache[x].saw)'
      <4>1. PICK v : v = cache[x].saw
        OBVIOUS
      <4>2. Match(x, v)'
        BY <3>8, <3>11, <4>1 DEF GuardOK
      <4> QED
        BY <3>3, <4>1, <4>2 DEF Match
    <3>12. ASSUME NEW x \in Desks, desk'[x].op = "status", ~desk'[x].late PROVE Match(desk[x].co, desk[x].saw)'
      <4>1. CASE x = d
        BY <3>6, <3>10, <4>1 DEF Match
      <4>2. CASE x # d
        <5>1. desk'[x] = desk[x]
          BY <3>6, <4>2
        <5>2. Match(desk[x].co, desk[x].saw) /\ desk[x].co \in Companies
          BY <1>0, <3>12, <5>1 DEF GuardOK, Request, Plain
        <5>3. PICK y, v : y = desk[x].co /\ v = desk[x].saw
          OBVIOUS
        <5>4. Match(y, v)'
          BY <3>8, <5>2, <5>3
        <5> QED
          BY <5>1, <5>3, <5>4 DEF Match
      <4> QED
        BY <4>1, <4>2
    <3> QED
      BY <3>3, <3>11, <3>12 DEF GuardOK
  <2>3. ASSUME NEW c \in Companies, ExpireStatus(c) PROVE GuardOK'
    <3>1. Forgotten({}) /\ company' = company /\ sub' = sub
      BY <1>0, <2>3 DEF ExpireStatus, Forgotten, plan
    <3> QED
      BY <3>1, GuardKept DEF Steady
  <2>4. ASSUME NEW c \in Companies, FailOpen(c) PROVE GuardOK'
    <3>1. PICK e, s : /\ e = Ensured(c) /\ (s = e \/ s = Stamped(c, e)) /\ sub' = [sub EXCEPT ![c] = s]
                      /\ company' = company /\ cache' = cache /\ desk' = desk
      BY <2>4 DEF FailOpen
    <3>2. e \in Sub /\ s \in Sub /\ s.plan = e.plan
      BY <1>0, <3>1, EnsuredType, StampedType
    <3>3. \A x \in Companies : sub[x] # NoSub => sub'[x] # NoSub /\ sub'[x].plan = sub[x].plan
      BY <1>0, <1>1, <3>1, <3>2 DEF Ensured
    <3>4. Forgotten({}) /\ \A x \in Companies : Steady(x)
      BY <1>0, <3>1, <3>3 DEF Forgotten, Steady
    <3> QED
      BY <3>4, GuardKept
  <2> QED
    BY <1>2, <2>1, <2>2, <2>3, <2>4 DEF StatusNext
<1>3. CASE HoldNext
  <2>1. ASSUME NEW d \in Desks, NEW C, NEW hold, SetHold(d, C, hold) PROVE GuardOK'
    BY <1>1, <2>1, GuardDecided DEF SetHold, plan
  <2>2. ASSUME NEW d \in Desks, NEW c, RestoreCompany(d, c) PROVE GuardOK'
    BY <1>0, <1>1, <2>2, GuardDecided DEF RestoreCompany, plan
  <2>3. ASSUME NEW c \in Companies, NEW n, Printers(c, n) PROVE GuardOK'
    <3>1. Forgotten({})
      BY <2>3 DEF Printers, Forgotten
    <3>2. \A x \in Companies : /\ company'[x].stage = company[x].stage /\ company'[x].hold = company[x].hold
                               /\ company'[x].deleted = company[x].deleted
      <4>1. \A x \in Company : LET y == [x EXCEPT !.printers = n] IN
                                 y.stage = x.stage /\ y.hold = x.hold /\ y.deleted = x.deleted
        BY DEF Company
      <4>2. company' = [company EXCEPT ![c] = [company[c] EXCEPT !.printers = n]]
        BY <2>3 DEF Printers
      <4> QED
        BY <1>0, <4>1, <4>2
    <3> QED
      BY <2>3, <3>1, <3>2, GuardKept DEF Steady, Printers, plan
  <2> QED
    BY <1>3, <2>1, <2>2, <2>3 DEF HoldNext
<1>4. CASE GrantNext
  <2>1. ASSUME NEW g, NEW pl, NEW end, CreateGrant(g, pl, end) PROVE GuardOK'
    BY <2>1, GuardUntouched DEF CreateGrant
  <2>2. ASSUME NEW d \in Desks, NEW g, ReadRevoked(d, g) PROVE GuardOK'
    <3>1. [op |-> "revoke", grant |-> g, by |-> grant[g].by].op # "status"
      OBVIOUS
    <3> QED
      BY <2>2, <3>1, GuardUntouched DEF ReadRevoked, plan
  <2>3. ASSUME NEW d \in Desks, NEW g, NEW c, ReadGrant(d, c, g) PROVE GuardOK'
    <3>1. [op |-> "redeem", co |-> c, grant |-> g, saw |-> grant[g]].op # "status"
      OBVIOUS
    <3> QED
      BY <2>3, <3>1, GuardUntouched DEF ReadGrant, plan
  <2>4. ASSUME NEW d \in Desks, RedeemTx(d) PROVE GuardOK'
    <3>1. CASE desk[d].co \in Open
      <4>1. PICK c : c = desk[d].co
        OBVIOUS
      <4>2. PICK r : r = [op |-> "issue", todo |-> {c}, source |-> "grant_code", code |-> None]
        OBVIOUS
      <4>3. Decided(d, {c}, r) /\ company' = company /\ \E x : sub' = [sub EXCEPT ![c] = x]
        BY <2>4, <3>1, <4>1, <4>2 DEF RedeemTx
      <4>4. r.op # "status" /\ \A x \in Companies \ {c} : sub'[x] = sub[x]
        BY <1>0, <4>2, <4>3
      <4> QED
        BY <4>3, <4>4, GuardDecided
    <3>2. CASE desk[d].co \notin Open
      BY <1>1, <2>4, <3>2, GuardUntouched DEF RedeemTx
    <3> QED
      BY <3>1, <3>2
  <2>5. ASSUME NEW d \in Desks, RevokeTx(d) PROVE GuardOK'
    <3>1. PICK b : b = desk[d].by
      OBVIOUS
    <3>2. /\ Decided(d, {b} \cap Companies, AtRest) /\ company' = company
          /\ \A c \in Companies : c # b => sub'[c] = sub[c]
      BY <2>5, <3>1 DEF RevokeTx
    <3>3. PICK C : C = {b} \cap Companies
      OBVIOUS
    <3> QED
      BY <1>1, <3>2, <3>3, GuardDecided
  <2> QED
    BY <1>4, <2>1, <2>2, <2>3, <2>4, <2>5 DEF GrantNext
<1>5. ASSUME NEW d \in Desks, NEW C, NEW pl, NEW status, NEW end, NEW k, Assign(d, C, pl, status, end, k) PROVE GuardOK'
  <2>1. PICK r : Decided(d, C, r) /\ r \in {AtRest, [op |-> "issue", todo |-> C, source |-> "manual", code |-> k]}
    BY <1>5 DEF Assign
  <2>2. r.op # "status" /\ company' = company /\ \A c \in Companies \ C : sub'[c] = sub[c]
    BY <1>1, <1>5, <2>1 DEF Assign
  <2> QED
    BY <2>1, <2>2, GuardDecided
<1>6. CASE TermNext
  <2>1. ASSUME NEW d \in Desks, NEW C, Decided(d, C, AtRest), company' = company,
               \A c \in Companies \ C : sub'[c] = sub[c]
        PROVE  GuardOK'
    BY <1>1, <2>1, GuardDecided
  <2>2. ASSUME NEW d \in Desks, NEW C, BulkEndTrial(d, C) PROVE GuardOK'
    <3>1. PICK hit : Decided(d, hit, AtRest) /\ company' = company /\ \A c \in Companies \ hit : sub'[c] = sub[c]
      BY <2>2 DEF BulkEndTrial
    <3> QED
      BY <2>1, <3>1
  <2>3. ASSUME NEW d \in Desks, NEW C, NEW n, BulkExtend(d, C, n) PROVE GuardOK'
    <3>1. PICK hit : Decided(d, hit, AtRest) /\ company' = company /\ \A c \in Companies \ hit : sub'[c] = sub[c]
      BY <2>3 DEF BulkExtend
    <3> QED
      BY <2>1, <3>1
  <2>4. ASSUME NEW d \in Desks, NEW c, ReadTrial(d, c) PROVE GuardOK'
    <3>1. [op |-> "endTrial", co |-> c].op # "status"
      OBVIOUS
    <3> QED
      BY <2>4, <3>1, GuardUntouched DEF ReadTrial, plan
  <2>5. ASSUME NEW d \in Desks, EndTrial(d) PROVE GuardOK'
    <3>1. PICK c : Decided(d, {c}, AtRest) /\ company' = company /\ \A x \in Companies \ {c} : sub'[x] = sub[x]
      BY <1>0, <2>5 DEF EndTrial
    <3>2. PICK C : C = {c}
      OBVIOUS
    <3> QED
      BY <2>1, <3>1, <3>2
  <2> QED
    BY <1>6, <2>2, <2>3, <2>4, <2>5 DEF TermNext
<1>7. CASE DealNext
  <2>1. ASSUME NEW d \in Desks, NEW c, NEW x, Decided(d, {c}, AtRest), company' = company, sub' = [sub EXCEPT ![c] = x]
        PROVE  GuardOK'
    BY <1>0, <1>1, <2>1, GuardDecided
  <2> QED
    BY <1>7, <2>1, GuardUntouched DEF DealNext, SetCustomPlan, Checkout, SaveCustomTier
<1>8. CASE IssueNext
  <2>1. ASSUME NEW d \in Desks, NEW c, ReadIssue(d, c) PROVE GuardOK'
    <3>1. Plain(desk[d])
      BY <1>0, <2>1 DEF ReadIssue, Request
    <3>2. PICK r : Hold(d, r) /\ \/ r = AtRest
                                 \/ \E x : r = [desk[d] EXCEPT !.todo = x]
                                 \/ r.op = "discount"
      BY <2>1 DEF ReadIssue
    <3>3. r.op # "status"
      BY <1>1, <3>1, <3>2 DEF Plain
    <3> QED
      BY <2>1, <3>2, <3>3, GuardUntouched DEF ReadIssue, plan
  <2>2. ASSUME NEW d \in Desks, RecordRedemption(d) PROVE GuardOK'
    <3>1. Plain(desk[d])
      BY <1>0, <2>2 DEF RecordRedemption, Request
    <3>2. [desk[d] EXCEPT !.op = "insert"].op # "status"
      BY <3>1 DEF Plain
    <3> QED
      BY <2>2, <3>2, GuardUntouched DEF RecordRedemption, plan
  <2>3. ASSUME NEW d \in Desks, InsertInvoice(d) PROVE GuardOK'
    <3>1. PICK r : Hold(d, r) /\ (r = AtRest \/ r.op = "issue")
      BY <2>3 DEF InsertInvoice
    <3> QED
      BY <1>1, <2>3, <3>1, GuardUntouched DEF InsertInvoice, plan
  <2> QED
    BY <1>8, <2>1, <2>2, <2>3, GuardUntouched DEF IssueNext, SwitchDiscount, plan
<1>9. CASE InvoiceNext
  <2>1. ASSUME NEW d \in Desks, NEW op \in {"edit", "drop", "finalize", "mail"}, NEW n, LoadInvoice(d, op, n) PROVE GuardOK'
    <3>1. [op |-> op, n |-> n, saw |-> invoices[n].status].op # "status"
      OBVIOUS
    <3> QED
      BY <2>1, <3>1, GuardUntouched DEF LoadInvoice, plan
  <2>2. ASSUME NEW d \in Desks, MailInvoice(d) PROVE GuardOK'
    <3>1. Plain(desk[d])
      BY <1>0, <2>2 DEF MailInvoice, Request
    <3>2. PICK r : Hold(d, r) /\ r \in {AtRest, [desk[d] EXCEPT !.op = "mailed"]}
      BY <2>2 DEF MailInvoice
    <3>3. r.op # "status"
      BY <1>1, <3>1, <3>2 DEF Plain
    <3> QED
      BY <2>2, <3>2, <3>3, GuardUntouched DEF MailInvoice, plan
  <2> QED
    BY <1>1, <1>9, <2>1, <2>2, GuardUntouched DEF InvoiceNext, CreateInvoice, WriteInvoice, plan
<1>10. CASE NoticeNext \/ Tick
  BY <1>10, GuardUntouched DEF NoticeNext, SweepBegin, NotifyQuiet, Notify, RecordSent, Tick, plan
<1>11. CASE Crash
  BY <1>1, <1>11 DEF Crash, GuardOK
<1>12. CASE MembersNext
  <2>1. ASSUME NEW d \in Desks, NEW u, NEW i, ReadInvite(d, u, i) PROVE GuardOK'
    <3>1. [op |-> "join", who |-> u, invite |-> i, co |-> invite[i].co].op # "status"
      OBVIOUS
    <3> QED
      BY <2>1, <3>1, GuardUntouched DEF ReadInvite, plan
  <2>2. ASSUME NEW d \in Desks, NEW u, NEW c, SetupOwner(d, u, c) PROVE GuardOK'
    <3>1. [op |-> "trial", co |-> c].op # "status"
      OBVIOUS
    <3>2. Forgotten({}) /\ sub' = sub
      BY <2>2, <3>1, HoldForgets DEF SetupOwner, plan
    <3>3. \A x \in Companies : company'[x] = company[x] \/ company[x].stage = "new"
      BY <1>0, <2>2 DEF SetupOwner
    <3> QED
      BY <3>2, <3>3, GuardKept DEF Steady
  <2>3. ASSUME NEW d \in Desks, NEW pl, EnsureTrial(d, pl) PROVE GuardOK'
    <3>1. Forgotten({}) /\ company' = company
      BY <1>1, <2>3, HoldForgets DEF EnsureTrial
    <3>2. \A x \in Companies : sub[x] # NoSub => sub'[x] = sub[x]
      BY <1>0, <2>3 DEF EnsureTrial
    <3> QED
      BY <3>1, <3>2, GuardKept DEF Steady
  <2>4. ASSUME NEW d \in Desks, JoinTx(d) PROVE GuardOK'
    BY <1>1, <2>4, GuardUntouched DEF JoinTx, Join, plan
  <2>5. ASSUME UNCHANGED licenceVars PROVE GuardOK'
    BY <2>5, GuardUntouched DEF licenceVars, plan
  <2> QED
    BY <1>12, <2>1, <2>2, <2>3, <2>4, <2>5 DEF MembersNext, RevokeInvite, CreateInvite, RemoveStaffMember, UpdatePermissions
<1>13. CASE PurgeNext
  <2>1. ASSUME NEW d \in Desks, NEW c, PurgeRead(d, c) PROVE GuardOK'
    <3>1. PICK r : Hold(d, r) /\ r.op = "purge"
      BY <2>1 DEF PurgeRead
    <3> QED
      BY <2>1, <3>1, GuardUntouched DEF PurgeRead, plan
  <2>2. ASSUME NEW d \in Desks, PurgeDelete(d) PROVE GuardOK'
    <3>1. Plain(desk[d])
      BY <1>0, <2>2 DEF PurgeDelete, Request
    <3>2. [desk[d] EXCEPT !.op = "orphans"].op # "status"
      BY <3>1 DEF Plain
    <3>3. Forgotten({})
      BY <2>2, <3>2, HoldForgets DEF PurgeDelete
    <3>4. PICK c : c = desk[d].co
      OBVIOUS
    <3>5. company' = [company EXCEPT ![c] = [company[c] EXCEPT !.stage = "gone"]] /\ sub' = [sub EXCEPT ![c] = NoSub]
      BY <2>2, <3>4 DEF PurgeDelete
    <3>6. \A x \in Company : [x EXCEPT !.stage = "gone"].stage = "gone"
      BY DEF Company
    <3>7. \A x \in Companies : Steady(x)
      BY <1>0, <3>5, <3>6 DEF Steady
    <3> QED
      BY <3>3, <3>7, GuardKept
  <2>3. ASSUME NEW d \in Desks, PurgeCheck(d) PROVE GuardOK'
    <3>1. Plain(desk[d]) /\ desk[d].op = "orphans"
      BY <1>0, <2>3 DEF PurgeCheck, Request
    <3>2. PICK x : Hold(d, [desk[d] EXCEPT !.op = "accounts", !.who = x])
      BY <2>3 DEF PurgeCheck
    <3>3. [desk[d] EXCEPT !.op = "accounts", !.who = x].op # "status"
      BY <3>1 DEF Plain
    <3> QED
      BY <2>3, <3>2, <3>3, GuardUntouched DEF PurgeCheck, plan
  <2>4. ASSUME NEW d \in Desks, NEW failed, PurgeAccounts(d, failed) PROVE GuardOK'
    BY <1>1, <2>4, GuardDecided DEF PurgeAccounts, plan
  <2> QED
    BY <1>13, <2>1, <2>2, <2>3, <2>4 DEF PurgeNext
<1>14. CASE UNCHANGED memberVars
  BY <1>14, GuardUntouched DEF memberVars, licenceVars, plan
<1> QED
  BY <1>2, <1>3, <1>4, <1>5, <1>6, <1>7, <1>8, <1>9, <1>10, <1>11, <1>12, <1>13, <1>14
  DEF TenancyNext, LicencesNext, AssignNext

\* The guard goes by what was last decided about a company, unless the status
\* was already being resolved then (getStatus, invalidate).
THEOREM GuardGoesByDecisions == TenancySpec => []DecisionsReachTheGuard
<1>1. MembersInit => GuardOK
  <2> SUFFICES ASSUME MembersInit PROVE GuardOK
    OBVIOUS
  <2> QED
    BY AtRestPlain DEF MembersInit, LicencesInit, GuardOK
<1>2. TenancyOK /\ GuardOK => DecisionsReachTheGuard
  <2> SUFFICES ASSUME TenancyOK, GuardOK, NEW c \in Licensed, cache[c] # None, ~cache[c].late
               PROVE  /\ cache[c].saw.plan = sub[c].plan
                      /\ company[c].hold = None /\ ~company[c].deleted => Admits(cache[c].saw, FALSE)
                      /\ ~cache[c].saw.blind =>
                           /\ cache[c].saw.deleted = company[c].deleted
                           /\ company[c].hold = "banned" => ~Admits(cache[c].saw, FALSE)
                           /\ company[c].hold = "suspended" => ~Admits(cache[c].saw, TRUE)
    BY DEF DecisionsReachTheGuard
  <2>1. c \in Companies /\ c \in Open
    BY DEF Licensed, Open
  <2>2. Match(c, cache[c].saw)
    BY <2>1 DEF GuardOK
  <2>3. PICK s : s = cache[c].saw
    OBVIOUS
  <2>4. /\ s.plan = sub[c].plan
        /\ ~s.blind => s.deleted = company[c].deleted /\ s.hold = company[c].hold
        /\ s.blind => s.hold = None /\ ~s.deleted
        /\ s.hold = "suspended" => s.state = "readonly"
    BY <2>1, <2>2, <2>3 DEF Match
  <2> QED
    BY <2>3, <2>4 DEF Admits
<1> QED
  BY <1>1, <1>2, GuardStep, TenancyInvariance, PTL DEF TenancySpec

----------------------------------------------------------------------------
(* Invites.                                                                *)

Invite == [co : Companies, by : People \cup {None}, ends : Int, used : People \cup {None}]

PeopleOK ==
  /\ user \in [People -> User \cup {None}]
  /\ invite \in [Invites -> Invite \cup {NoInvite, Deleted}]

\* An invite nobody used was made by somebody who works in its company still.
Vouched(i) ==
  i \in Made /\ invite[i].used = None =>
    invite[i].by \in People /\ user[invite[i].by] # None /\ user[invite[i].by].co = invite[i].co

\* A request to join is for the company of its invite.
JoinOK(d) ==
  desk[d].op = "join" => /\ invite[desk[d].invite] # NoInvite
                         /\ desk[d].invite \in Made => invite[desk[d].invite].co = desk[d].co

InvitesOK == PeopleOK /\ (\A i \in Invites : Vouched(i)) /\ (\A d \in Desks : JoinOK(d))

Joining == {"join"}

LEMMA InvitesKept ==
  ASSUME InvitesOK, TenancyOK, Undisturbed(Joining), PeopleOK',
         \A i \in Invites : \/ i \notin Made'
                            \/ invite'[i].used # None /\ invite'[i].co = invite[i].co /\ i \in Made
                            \/ /\ invite'[i] = invite[i] /\ user'[invite[i].by] # None
                               /\ user'[invite[i].by].co = user[invite[i].by].co,
         \A i \in Invites : invite[i] # NoInvite => invite'[i] # NoInvite
  PROVE  InvitesOK'
<1>1. ASSUME NEW i \in Invites PROVE Vouched(i)'
  BY DEF InvitesOK, Vouched, Made
<1>2. ASSUME NEW e \in Desks PROVE JoinOK(e)'
  <2>1. CASE desk'[e].op = "join"
    <3>1. desk'[e] = desk[e] /\ desk[e].op = "join"
      BY <2>1 DEF Undisturbed, Joining
    <3>2. desk[e].invite \in Invites
      BY <3>1 DEF TenancyOK, DesksOK, Request, Plain
    <3> QED
      BY <3>1, <3>2 DEF InvitesOK, JoinOK, Made
  <2>2. CASE desk'[e].op # "join"
    BY <2>2 DEF JoinOK
  <2> QED
    BY <2>1, <2>2
<1> QED
  BY <1>1, <1>2 DEF InvitesOK

LEMMA InvitesStay ==
  ASSUME InvitesOK, Undisturbed(Joining), user' = user, invite' = invite
  PROVE  InvitesOK'
<1>1. \A i \in Invites : Vouched(i)'
  BY DEF InvitesOK, Vouched, Made
<1>2. \A e \in Desks : JoinOK(e)'
  BY DEF InvitesOK, JoinOK, Made, Undisturbed, Joining
<1> QED
  BY <1>1, <1>2 DEF InvitesOK, PeopleOK

\* Tenants and admins of the platform leave the requests to join alone.
LEMMA LicencesLeaveJoins ==
  ASSUME TenancyOK, LicencesNext
  PROVE  Undisturbed(Joining)
<1>0. DesksOK /\ AtRest.op \notin Joining /\ Joining \in SUBSET Holding
  BY AtRestPlain DEF TenancyOK, Joining, Holding
<1>1. CASE GrantNext
  <2>1. ASSUME NEW d \in Desks, NEW g, ReadRevoked(d, g) PROVE Undisturbed(Joining)
    <3>1. [op |-> "revoke", grant |-> g, by |-> grant[g].by].op \notin Joining
      BY DEF Joining
    <3> QED
      BY <1>0, <2>1, <3>1, HoldLeaves DEF ReadRevoked
  <2>2. ASSUME NEW d \in Desks, NEW g, NEW c, ReadGrant(d, c, g) PROVE Undisturbed(Joining)
    <3>1. [op |-> "redeem", co |-> c, grant |-> g, saw |-> grant[g]].op \notin Joining
      BY DEF Joining
    <3> QED
      BY <1>0, <2>2, <3>1, HoldLeaves DEF ReadGrant
  <2>3. ASSUME NEW d \in Desks, RedeemTx(d) PROVE Undisturbed(Joining)
    <3>1. PICK c : c = desk[d].co
      OBVIOUS
    <3>2. PICK r : r = [op |-> "issue", todo |-> {c}, source |-> "grant_code", code |-> None]
      OBVIOUS
    <3>3. Decided(d, {c}, r) \/ Hold(d, AtRest)
      BY <2>3, <3>1, <3>2 DEF RedeemTx
    <3>4. r.op \notin Joining
      BY <3>2 DEF Joining
    <3> QED
      BY <1>0, <3>3, <3>4, DecidedLeaves, HoldLeaves
  <2>4. ASSUME NEW d \in Desks, RevokeTx(d) PROVE Undisturbed(Joining)
    BY <1>0, <2>4, DecidedLeaves DEF RevokeTx
  <2>5. ASSUME NEW g, NEW pl, NEW end, CreateGrant(g, pl, end) PROVE Undisturbed(Joining)
    BY <2>5 DEF CreateGrant, Undisturbed
  <2> QED
    BY <1>1, <2>1, <2>2, <2>3, <2>4, <2>5 DEF GrantNext
<1>2. ASSUME Undisturbed(Holding) PROVE Undisturbed(Joining)
  BY <1>2 DEF Undisturbed, Holding, Joining
<1> QED
  BY <1>1, <1>2, OthersLeaveCodes DEF LicencesNext

LEMMA MembersInvites ==
  ASSUME TenancyOK, InvitesOK, MembersNext
  PROVE  InvitesOK'
<1>0. /\ PeopleOK /\ DesksOK /\ RowsOK /\ AtRest.op \notin Joining
      /\ user \in [People -> User \cup {None}]
      /\ invite \in [Invites -> Invite \cup {NoInvite, Deleted}]
      /\ company \in [Companies -> Company]
      /\ \A i \in Made : i \in Invites /\ invite[i] \in Invite
  BY AtRestPlain DEF TenancyOK, RowsOK, InvitesOK, PeopleOK, Joining, Made
<1>1. \A c \in Companies, role \in {"owner", "staff"} : Member(c, role) \in User /\ Member(c, role) # None
  BY DEF Member, User, May
<1>2. ASSUME NEW d \in Desks, NEW u \in People, NEW i \in Invites, ReadInvite(d, u, i) PROVE InvitesOK'
  <2>1. PICK r : r = [op |-> "join", who |-> u, invite |-> i, co |-> invite[i].co] /\ Hold(d, r)
    BY <1>2 DEF ReadInvite
  <2>2. desk'[d] = r /\ \A e \in Desks \ {d} : desk'[e] = desk[e]
    BY <1>0, <2>1 DEF Hold, DesksOK
  <2>3. user' = user /\ invite' = invite /\ invite[i] # NoInvite
    BY <1>2 DEF ReadInvite, people, Made
  <2>4. \A e \in Desks : JoinOK(e)'
    BY <2>1, <2>2, <2>3 DEF InvitesOK, JoinOK, Made
  <2>5. \A j \in Invites : Vouched(j)'
    BY <2>3 DEF InvitesOK, Vouched, Made
  <2> QED
    BY <1>0, <2>3, <2>4, <2>5 DEF InvitesOK, PeopleOK
<1>3. ASSUME NEW d \in Desks, NEW u \in People, NEW c \in Companies, SetupOwner(d, u, c) PROVE InvitesOK'
  <2>1. /\ user[u] = None /\ user' = [user EXCEPT ![u] = Member(c, "owner")] /\ invite' = invite
        /\ Hold(d, [op |-> "trial", co |-> c])
    BY <1>3 DEF SetupOwner
  <2>2. [op |-> "trial", co |-> c].op \notin Joining
    BY DEF Joining
  <2>3. PeopleOK' /\ Undisturbed(Joining)
    BY <1>0, <1>1, <2>1, <2>2, HoldLeaves DEF PeopleOK
  <2>4. \A i \in Made : invite[i].used = None => invite[i].by \in People \ {u}
    BY <1>0, <2>1 DEF InvitesOK, Vouched
  <2>5. \A i \in Invites : Vouched(i)'
    BY <1>0, <2>1, <2>4 DEF InvitesOK, Vouched, Made
  <2>6. \A e \in Desks : JoinOK(e)'
    BY <2>1, <2>3 DEF InvitesOK, JoinOK, Made, Undisturbed, Joining
  <2> QED
    BY <2>3, <2>5, <2>6 DEF InvitesOK
<1>4. ASSUME NEW d \in Desks, NEW pl, EnsureTrial(d, pl) PROVE InvitesOK'
  BY <1>0, <1>4, HoldLeaves, InvitesStay DEF EnsureTrial, people
<1>5. ASSUME NEW d \in Desks, JoinTx(d) PROVE InvitesOK'
  <2>1. PICK u, i, c : u \in People /\ i \in Invites /\ u = desk[d].who /\ i = desk[d].invite /\ c = desk[d].co
    BY <1>0, <1>5 DEF JoinTx, DesksOK, Request, Plain
  <2>2. Hold(d, AtRest) /\ Undisturbed(Joining)
    BY <1>0, <1>5, HoldLeaves DEF JoinTx, Join
  <2>3. CASE user' = user /\ invite' = invite
    BY <2>2, <2>3, InvitesStay
  <2>4. CASE ~(user' = user /\ invite' = invite)
    <3>1. /\ i \in Made /\ invite[i].used = None /\ user[u] = None /\ c \in Open
          /\ user' = [user EXCEPT ![u] = Member(c, "staff")]
          /\ invite' = [invite EXCEPT ![i] = [invite[i] EXCEPT !.used = u]]
      BY <1>5, <2>1, <2>4 DEF JoinTx, Join
    <3>2. PICK v : v = [invite[i] EXCEPT !.used = u]
      OBVIOUS
    <3>3. v \in Invite /\ v.used = u /\ v.co = invite[i].co /\ u # None /\ v # NoInvite
      <4>1. invite[i] \in Invite /\ u # None
        BY <1>0, <2>1, <3>1
      <4>2. v \in Invite /\ v.used = u /\ v.co = invite[i].co
        BY <2>1, <3>2, <4>1 DEF Invite
      <4>3. v.co # None /\ NoInvite.co = None
        BY <4>2 DEF Invite, NoInvite
      <4> QED
        BY <4>1, <4>2, <4>3
    <3>4. PeopleOK'
      BY <1>0, <1>1, <3>1, <3>2, <3>3 DEF PeopleOK, Open
    <3>5. \A j \in Invites \ {i} : invite'[j] = invite[j]
      BY <1>0, <3>1
    <3>6. invite'[i] = v
      BY <1>0, <3>1, <3>2
    <3>7. \A j \in Made : invite[j].used = None => invite[j].by \in People \ {u}
      BY <1>0, <3>1 DEF InvitesOK, Vouched
    <3>8. \A p \in People \ {u} : user'[p] = user[p]
      BY <1>0, <3>1
    <3>9. ASSUME NEW j \in Invites PROVE Vouched(j)'
      <4>1. CASE j = i
        BY <3>3, <3>6, <4>1 DEF Vouched
      <4>2. CASE j # i
        BY <3>5, <3>7, <3>8, <4>2 DEF InvitesOK, Vouched, Made
      <4> QED
        BY <4>1, <4>2
    <3>10. ASSUME NEW e \in Desks, desk'[e].op = "join" PROVE JoinOK(e)'
      <4>1. desk'[e] = desk[e] /\ desk[e].op = "join"
        BY <2>2, <3>10 DEF Undisturbed, Joining
      <4>2. desk[e].invite \in Invites /\ JoinOK(e)
        BY <1>0, <4>1 DEF DesksOK, Request, Plain, InvitesOK
      <4>3. CASE desk[e].invite = i
        BY <3>1, <3>3, <3>6, <4>1, <4>2, <4>3 DEF JoinOK
      <4>4. CASE desk[e].invite # i
        BY <3>5, <4>1, <4>2, <4>4 DEF JoinOK, Made
      <4> QED
        BY <4>3, <4>4
    <3>11. \A e \in Desks : JoinOK(e)'
      BY <3>10 DEF JoinOK
    <3> QED
      BY <3>4, <3>9, <3>11 DEF InvitesOK
  <2> QED
    BY <2>3, <2>4

<1>6. ASSUME NEW i \in Invites, NEW u \in People, CreateInvite(i, u) PROVE InvitesOK'
  <2>1. PICK v : /\ v = [co |-> user[u].co, by |-> u, ends |-> day + InviteDays, used |-> None]
                 /\ invite' = [invite EXCEPT ![i] = v]
    BY <1>6 DEF CreateInvite
  <2>2. invite[i] = NoInvite /\ user[u] # None /\ user' = user /\ desk' = desk
    BY <1>6 DEF CreateInvite, licenceVars
  <2>3. user[u].co \in Companies /\ day + InviteDays \in Int
    BY <1>0, <2>2 DEF User, RowsOK
  <2>4. v \in Invite /\ v.by = u /\ v.co = user[u].co
    BY <2>1, <2>3 DEF Invite
  <2>5. PeopleOK' /\ invite'[i] = v /\ \A j \in Invites \ {i} : invite'[j] = invite[j]
    BY <1>0, <2>1, <2>2, <2>4 DEF PeopleOK
  <2>6. ASSUME NEW j \in Invites PROVE Vouched(j)'
    <3>1. CASE j = i
      BY <2>2, <2>4, <2>5, <3>1 DEF Vouched
    <3>2. CASE j # i
      BY <2>2, <2>5, <3>2 DEF InvitesOK, Vouched, Made
    <3> QED
      BY <3>1, <3>2
  <2>7. ASSUME NEW e \in Desks, desk[e].op = "join" PROVE JoinOK(e)'
    <3>1. desk[e].invite \in Invites \ {i}
      BY <1>0, <2>2, <2>7 DEF DesksOK, Request, Plain, InvitesOK, JoinOK
    <3> QED
      BY <2>2, <2>5, <2>7, <3>1 DEF InvitesOK, JoinOK, Made
  <2>8. \A e \in Desks : JoinOK(e)'
    BY <2>2, <2>7 DEF JoinOK
  <2> QED
    BY <2>5, <2>6, <2>8 DEF InvitesOK
<1>7. ASSUME NEW i \in Invites, RevokeInvite(i) PROVE InvitesOK'
  <2>1. /\ invite' = [invite EXCEPT ![i] = Deleted] /\ user' = user /\ desk' = desk
        /\ Deleted # NoInvite
    BY <1>7 DEF RevokeInvite, licenceVars, Deleted, NoInvite
  <2>2. PeopleOK' /\ Undisturbed(Joining)
    BY <1>0, <2>1 DEF PeopleOK, Undisturbed
  <2>3. \A j \in Invites : IF j = i THEN j \notin Made' /\ invite'[j] # NoInvite ELSE invite'[j] = invite[j]
    BY <1>0, <2>1 DEF Made
  <2>4. \A j \in Invites : Vouched(j)'
    BY <2>1, <2>3 DEF InvitesOK, Vouched, Made
  <2>5. ASSUME NEW e \in Desks, desk[e].op = "join" PROVE JoinOK(e)'
    <3>1. desk[e].invite \in Invites
      BY <1>0, <2>5 DEF DesksOK, Request, Plain
    <3> QED
      BY <2>1, <2>3, <2>5, <3>1 DEF InvitesOK, JoinOK, Made
  <2>6. \A e \in Desks : JoinOK(e)'
    BY <2>1, <2>5 DEF JoinOK
  <2> QED
    BY <2>2, <2>4, <2>6 DEF InvitesOK
<1>8. ASSUME NEW by \in People, NEW u \in People, NEW may \in SUBSET Rights, UpdatePermissions(by, u, may) PROVE InvitesOK'
  <2>1. /\ user[u] # None /\ user' = [user EXCEPT ![u] = [user[u] EXCEPT !.may = may]]
        /\ invite' = invite /\ desk' = desk
    BY <1>8 DEF UpdatePermissions, Staff, licenceVars
  <2>2. user[u] \in User
    BY <1>0, <2>1
  <2>3. PICK v : v = [user[u] EXCEPT !.may = may]
    OBVIOUS
  <2>4. v \in User /\ v.co = user[u].co /\ v # None
    BY <2>2, <2>3 DEF User
  <2>5. PeopleOK' /\ \A p \in People : /\ user[p] # None => user'[p] # None
                                       /\ user'[p].co = user[p].co
    BY <1>0, <2>1, <2>3, <2>4 DEF PeopleOK
  <2>6. \A j \in Invites : Vouched(j)'
    BY <2>1, <2>5 DEF InvitesOK, Vouched, Made
  <2>7. \A e \in Desks : JoinOK(e)'
    BY <2>1 DEF InvitesOK, JoinOK, Made
  <2> QED
    BY <2>5, <2>6, <2>7 DEF InvitesOK
<1>9. ASSUME NEW by \in People, NEW u \in People, RemoveStaffMember(by, u) PROVE InvitesOK'
  <2>1. /\ user' = [user EXCEPT ![u] = None] /\ desk' = desk
        /\ invite' = [i \in Invites |-> IF i \in Made /\ invite[i].by = u
                                        THEN IF invite[i].used = None THEN Deleted ELSE [invite[i] EXCEPT !.by = None]
                                        ELSE invite[i]]
    BY <1>9 DEF RemoveStaffMember, licenceVars
  <2>2. \A v \in Invite : LET w == [v EXCEPT !.by = None] IN w \in Invite /\ w.used = v.used /\ w.co = v.co
    BY DEF Invite
  <2>3. Deleted # NoInvite /\ \A v \in Invite : v \notin {NoInvite, Deleted}
    BY DEF Deleted, NoInvite, Invite
  <2>4. ASSUME NEW i \in Invites
        PROVE  /\ invite'[i] \in Invite \cup {NoInvite, Deleted}
               /\ \/ invite'[i] = Deleted /\ i \in Made
                  \/ /\ i \in Made /\ invite'[i] \in Invite /\ invite'[i].used = invite[i].used
                     /\ invite'[i].co = invite[i].co /\ invite[i].used # None
                  \/ invite'[i] = invite[i] /\ (i \in Made => invite[i].by # u)
    BY <1>0, <2>1, <2>2
  <2>5. PeopleOK'
    BY <1>0, <2>1, <2>4 DEF PeopleOK
  <2>6. ASSUME NEW i \in Invites PROVE Vouched(i)'
    <3>1. CASE invite'[i] = Deleted \/ (invite'[i].used = invite[i].used /\ invite[i].used # None)
      BY <2>4, <3>1 DEF Vouched, Made
    <3>2. CASE invite'[i] = invite[i] /\ (i \in Made => invite[i].by # u)
      BY <1>0, <2>1, <3>2 DEF InvitesOK, Vouched, Made
    <3> QED
      BY <2>4, <3>1, <3>2
  <2>7. ASSUME NEW e \in Desks, desk[e].op = "join" PROVE JoinOK(e)'
    <3>1. desk[e].invite \in Invites /\ JoinOK(e)
      BY <1>0, <2>7 DEF DesksOK, Request, Plain, InvitesOK
    <3> QED
      BY <2>1, <2>3, <2>4, <2>7, <3>1 DEF JoinOK, Made
  <2>8. \A e \in Desks : JoinOK(e)'
    BY <2>1, <2>7 DEF JoinOK
  <2> QED
    BY <2>5, <2>6, <2>8 DEF InvitesOK
<1> QED
  BY <1>2, <1>3, <1>4, <1>5, <1>6, <1>7, <1>8, <1>9 DEF MembersNext

LEMMA PurgeInvites ==
  ASSUME TenancyOK, InvitesOK, PurgeNext
  PROVE  InvitesOK'
<1>0. /\ PeopleOK /\ DesksOK /\ AtRest.op \notin Joining /\ Joining \in SUBSET Holding
      /\ user \in [People -> User \cup {None}]
      /\ invite \in [Invites -> Invite \cup {NoInvite, Deleted}]
      /\ \A d \in Desks : Request(desk[d])
  BY AtRestPlain DEF TenancyOK, InvitesOK, PeopleOK, Joining, Holding, DesksOK
<1>1. ASSUME NEW d \in Desks, NEW c, PurgeRead(d, c) PROVE InvitesOK'
  <2>1. PICK r : Hold(d, r) /\ r.op = "purge"
    BY <1>1 DEF PurgeRead
  <2> QED
    BY <1>0, <1>1, <2>1, HoldLeaves, InvitesStay DEF PurgeRead, people, Joining
<1>2. ASSUME NEW d \in Desks, PurgeDelete(d) PROVE InvitesOK'
  <2>1. Plain(desk[d])
    BY <1>0, <1>2 DEF PurgeDelete, Request
  <2>2. [desk[d] EXCEPT !.op = "orphans"].op \notin Joining
    BY <2>1 DEF Plain, Joining
  <2>3. Undisturbed(Joining)
    BY <1>0, <1>2, <2>2, HoldLeaves DEF PurgeDelete
  <2>4. PICK c : c = desk[d].co
    OBVIOUS
  <2>5. /\ user' = [u \in People |-> IF u \in Staff(c) THEN None ELSE user[u]]
        /\ invite' = [i \in Invites |-> IF i \in Made /\ invite[i].co = c THEN Deleted ELSE invite[i]]
    BY <1>2, <2>4 DEF PurgeDelete
  <2>6. PeopleOK' /\ Deleted # NoInvite
    BY <1>0, <2>5 DEF PeopleOK, Deleted, NoInvite
  <2>7. ASSUME NEW i \in Invites PROVE Vouched(i)'
    <3>1. CASE i \in Made /\ invite[i].co = c
      BY <2>5, <3>1 DEF Vouched, Made
    <3>2. CASE ~(i \in Made /\ invite[i].co = c)
      BY <1>0, <2>5, <3>2 DEF InvitesOK, Vouched, Made, Staff
    <3> QED
      BY <3>1, <3>2
  <2>8. ASSUME NEW e \in Desks, desk'[e].op = "join" PROVE JoinOK(e)'
    <3>1. desk'[e] = desk[e] /\ desk[e].op = "join"
      BY <2>3, <2>8 DEF Undisturbed, Joining
    <3>2. desk[e].invite \in Invites /\ JoinOK(e)
      BY <1>0, <3>1 DEF Request, Plain, InvitesOK
    <3> QED
      BY <2>5, <2>6, <3>1, <3>2 DEF JoinOK, Made
  <2>9. \A e \in Desks : JoinOK(e)'
    BY <2>8 DEF JoinOK
  <2> QED
    BY <2>6, <2>7, <2>9 DEF InvitesOK
<1>3. ASSUME NEW d \in Desks, PurgeCheck(d) PROVE InvitesOK'
  <2>1. Plain(desk[d]) /\ desk[d].op = "orphans"
    BY <1>0, <1>3 DEF PurgeCheck, Request
  <2>2. PICK x : Hold(d, [desk[d] EXCEPT !.op = "accounts", !.who = x])
    BY <1>3 DEF PurgeCheck
  <2>3. [desk[d] EXCEPT !.op = "accounts", !.who = x].op \notin Joining
    BY <2>1 DEF Plain, Joining
  <2> QED
    BY <1>0, <1>3, <2>2, <2>3, HoldLeaves, InvitesStay DEF PurgeCheck, people
<1>4. ASSUME NEW d \in Desks, NEW failed, PurgeAccounts(d, failed) PROVE InvitesOK'
  <2>1. PICK C : Decided(d, C, AtRest) /\ user' = user /\ invite' = invite
    BY <1>4 DEF PurgeAccounts
  <2> QED
    BY <1>0, <2>1, DecidedLeaves, InvitesStay
<1> QED
  BY <1>1, <1>2, <1>3, <1>4 DEF PurgeNext

LEMMA InvitesInit == MembersInit => InvitesOK
<1> SUFFICES ASSUME MembersInit PROVE InvitesOK
  OBVIOUS
<1>1. \A c \in Companies : Member(c, "owner") \in User
  BY DEF Member, User, May
<1>2. PICK owner : user = [u \in People |-> IF \E c \in Open : owner[c] = u
                                            THEN Member(CHOOSE c \in Open : owner[c] = u, "owner") ELSE None]
  BY DEF MembersInit
<1>3. user \in [People -> User \cup {None}]
  <2>1. ASSUME NEW u \in People, \E c \in Open : owner[c] = u PROVE (CHOOSE c \in Open : owner[c] = u) \in Companies
    BY <2>1 DEF Open
  <2> QED
    BY <1>1, <1>2, <2>1
<1>4. invite = [i \in Invites |-> NoInvite] /\ desk = [d \in Desks |-> AtRest]
  BY DEF MembersInit, LicencesInit
<1> QED
  BY <1>3, <1>4, AtRestPlain DEF InvitesOK, PeopleOK, Vouched, JoinOK, Made

LEMMA InvitesStep == TenancyOK /\ InvitesOK /\ [TenancyNext]_memberVars => InvitesOK'
<1> SUFFICES ASSUME TenancyOK, InvitesOK, [TenancyNext]_memberVars PROVE InvitesOK'
  OBVIOUS
<1>1. CASE LicencesNext /\ UNCHANGED people
  BY <1>1, LicencesLeaveJoins, InvitesStay DEF people
<1>2. CASE UNCHANGED memberVars
  BY <1>2, InvitesStay DEF memberVars, licenceVars, people, Undisturbed
<1> QED
  BY <1>1, <1>2, MembersInvites, PurgeInvites DEF TenancyNext

\* Somebody new on a company's staff used an invite nobody had used, made by
\* somebody who works there.
Admitted ==
  \A u \in People : (user[u] = None /\ user'[u] # None /\ user'[u].role = "staff") =>
    \E i \in Made : /\ invite[i].used = None /\ invite'[i].used = u
                    /\ user[invite[i].by] # None /\ user[invite[i].by].co = user'[u].co

LEMMA JoinsAreAdmitted ==
  ASSUME TenancyOK, InvitesOK, [TenancyNext]_memberVars
  PROVE  Admitted
<1>0. /\ user \in [People -> User \cup {None}] /\ invite \in [Invites -> Invite \cup {NoInvite, Deleted}]
      /\ DesksOK
  BY DEF InvitesOK, PeopleOK, TenancyOK
<1>1. ASSUME \A u \in People : user[u] = None => user'[u] = None PROVE Admitted
  BY <1>1 DEF Admitted
<1>2. CASE LicencesNext /\ UNCHANGED people
  BY <1>1, <1>2 DEF people
<1>3. CASE PurgeNext
  BY <1>0, <1>1, <1>3 DEF PurgeNext, PurgeRead, PurgeDelete, PurgeCheck, PurgeAccounts, people
<1>4. ASSUME NEW d \in Desks, NEW u \in People, NEW c, SetupOwner(d, u, c) PROVE Admitted
  BY <1>0, <1>4 DEF SetupOwner, Member, Admitted
<1>5. ASSUME NEW d \in Desks, JoinTx(d) PROVE Admitted
  <2>1. PICK u, i, c : u \in People /\ i \in Invites /\ u = desk[d].who /\ i = desk[d].invite /\ c = desk[d].co
    BY <1>0, <1>5 DEF JoinTx, DesksOK, Request, Plain
  <2>2. CASE user' = user
    BY <1>1, <2>2
  <2>3. CASE user' # user
    <3>1. /\ i \in Made /\ invite[i].used = None
          /\ user' = [user EXCEPT ![u] = Member(c, "staff")]
          /\ invite' = [invite EXCEPT ![i] = [invite[i] EXCEPT !.used = u]]
      BY <1>5, <2>1, <2>3 DEF JoinTx, Join
    <3>2. invite[i] \in Invite
      BY <1>0, <3>1 DEF Made
    <3>3. invite'[i].used = u /\ user'[u].co = c
      BY <1>0, <2>1, <3>1, <3>2 DEF Invite, Member
    <3>4. invite[i].co = c
      BY <1>5, <2>1, <3>1 DEF JoinTx, InvitesOK, JoinOK
    <3>5. user[invite[i].by] # None /\ user[invite[i].by].co = user'[u].co
      BY <2>1, <3>1, <3>3, <3>4 DEF InvitesOK, Vouched
    <3>6. \A x \in People : x # u => user'[x] = user[x]
      BY <1>0, <3>1
    <3> QED
      BY <3>1, <3>3, <3>5, <3>6 DEF Admitted
  <2> QED
    BY <2>2, <2>3
<1>6. ASSUME NEW by, NEW u, RemoveStaffMember(by, u) PROVE Admitted
  BY <1>0, <1>1, <1>6 DEF RemoveStaffMember
<1>7. ASSUME NEW by, NEW u, NEW may, UpdatePermissions(by, u, may) PROVE Admitted
  BY <1>0, <1>1, <1>7 DEF UpdatePermissions, Staff
<1>8. CASE MembersNext
  BY <1>1, <1>4, <1>5, <1>6, <1>7, <1>8
  DEF MembersNext, ReadInvite, EnsureTrial, RevokeInvite, CreateInvite, people
<1>9. CASE UNCHANGED memberVars
  BY <1>1, <1>9 DEF memberVars, people
<1> QED
  BY <1>2, <1>3, <1>8, <1>9 DEF TenancyNext

\* Whoever joins the staff is let in by a code that admitted nobody before,
\* made by somebody who works in that company at that moment (setup,
\* removeStaffMember).
THEOREM InvitesLetOneIn == TenancySpec => InvitesAdmitOnce
<1>1. TenancyOK /\ InvitesOK /\ [TenancyNext]_memberVars => [Admitted]_memberVars
  BY JoinsAreAdmitted
<1>2. InvitesAdmitOnce <=> [][Admitted]_memberVars
  BY DEF InvitesAdmitOnce, Admitted
<1> QED
  BY <1>1, <1>2, InvitesInit, InvitesStep, TenancyInvariance, PTL DEF TenancySpec
=============================================================================
