----------------------------- MODULE NoticesProofs ----------------------------
(* The theorems about what people are told: what counts as mailed was mailed, *)
(* and not without end (NotificationMail); each date is told, and told once   *)
(* (Reminders); the bell lists what there is and counts what is unread (Bell).*)
EXTENDS NotificationMail, Reminders, Bell, FiniteSetTheorems, FunctionTheorems, SequenceTheorems, TLAPS

-----------------------------------------------------------------------------
(* NotificationMail, for every set of people and of overlapping runs.         *)

Note == [user : Users, read : BOOLEAN, notified : BOOLEAN]
RunRow == [step : {"idle", "person", "mail", "mark"}, people : Seq(Users), batch : [Users -> SUBSET Nat]]

MailTypes ==
  /\ notes \in Seq(Note) /\ sent \in Seq(Nat) /\ Len(sent) = Len(notes)
  /\ run \in [Runs -> RunRow]
  /\ failures \in Nat

(* A run has each person once, each with notifications of their own; when it  *)
(* comes to mark them, they are in a mail.                                    *)
RunIsSound(w) ==
  /\ \A u \in Users : \A n \in w.batch[u] : n \in DOMAIN notes /\ notes[n].user = u
  /\ \A i, j \in DOMAIN w.people : w.people[i] = w.people[j] => i = j
  /\ w.step # "idle" => w.people # << >>
  /\ w.step = "mark" => \A n \in w.batch[w.people[1]] : sent[n] > 0

(* The runs that have still to mail a notification, and those about to mark   *)
(* it: no run is among both.                                                  *)
WillMail(w, n, u) ==
  /\ w.step # "idle" /\ n \in w.batch[u]
  /\ \E i \in DOMAIN w.people : w.people[i] = u /\ (i > 1 \/ w.step # "mark")
WillMark(w, n) == w.step = "mark" /\ n \in w.batch[w.people[1]]
Mailers(n) == {r \in Runs : WillMail(run[r], n, notes[n].user)}
Markers(n) == {r \in Runs : WillMark(run[r], n)}

(* Until it is marked, a notification was in one mail per run about to mark   *)
(* it and per failure; from then on, no run takes it up again.                *)
MailsAreCounted(n) ==
  IF notes[n].notified
  THEN sent[n] > 0 /\ sent[n] + Cardinality(Mailers(n)) <= Cardinality(Runs) + failures
  ELSE sent[n] <= Cardinality(Markers(n)) + failures

MailInv ==
  /\ MailTypes
  /\ \A r \in Runs : RunIsSound(run[r])
  /\ \A n \in DOMAIN notes : MailsAreCounted(n)

-----------------------------------------------------------------------------
LEMMA NoRunType == NoRun \in RunRow
  BY EmptySeq DEF NoRun, RunRow

LEMMA NotesTypes ==
  ASSUME MailTypes
  PROVE  /\ Len(notes) \in Nat /\ DOMAIN notes = 1..Len(notes) /\ DOMAIN sent = DOMAIN notes
         /\ \A n \in DOMAIN notes : notes[n] \in Note /\ sent[n] \in Nat
  BY LenProperties, ElementOfSeq DEF MailTypes

(* Nothing is written or sent at first.                                       *)
LEMMA MailInitInv == MailInit => MailInv
<1> SUFFICES ASSUME MailInit PROVE MailInv
  OBVIOUS
<1>1. MailTypes
  BY NoRunType, EmptySeq DEF MailInit, MailTypes
<1>2. \A r \in Runs : RunIsSound(run[r])
  BY DEF MailInit, NoRun, RunIsSound
<1>3. DOMAIN notes = {}
  BY DEF MailInit
<1> QED
  BY <1>1, <1>2, <1>3 DEF MailInv

-----------------------------------------------------------------------------
(* Two sets of runs that differ in one run at most.                           *)
LEMMA OneRunMore ==
  ASSUME NEW A \in SUBSET Runs, NEW B \in SUBSET Runs, NEW r \in Runs,
         \A q \in Runs \ {r} : q \in A <=> q \in B
  PROVE  /\ Cardinality(A) \in Nat /\ Cardinality(B) \in Nat
         /\ (r \in A <=> r \in B) => Cardinality(A) = Cardinality(B)
         /\ r \in A /\ r \notin B => Cardinality(A) = Cardinality(B) + 1
<1>1. IsFiniteSet(A) /\ IsFiniteSet(B)
  BY MailAssumption, FS_Subset
<1>2. Cardinality(A) \in Nat /\ Cardinality(B) \in Nat
  BY <1>1, FS_CardinalityType
<1>3. ASSUME r \in A <=> r \in B PROVE Cardinality(A) = Cardinality(B)
  <2>1. A = B
    BY <1>3
  <2> QED
    BY <2>1
<1>4. ASSUME r \in A, r \notin B PROVE Cardinality(A) = Cardinality(B) + 1
  <2>1. A = B \union {r}
    BY <1>4
  <2> QED
    BY <1>1, <1>4, <2>1, FS_AddElement
<1> QED
  BY <1>2, <1>3, <1>4

LEMMA NobodyTwice ==
  ASSUME MailInv, NEW n \in DOMAIN notes
  PROVE  /\ Cardinality(Mailers(n)) \in Nat /\ Cardinality(Markers(n)) \in Nat /\ Cardinality(Runs) \in Nat
         /\ Cardinality(Mailers(n)) + Cardinality(Markers(n)) <= Cardinality(Runs)
<1>1. IsFiniteSet(Mailers(n)) /\ IsFiniteSet(Markers(n)) /\ IsFiniteSet(Runs)
  BY MailAssumption, FS_Subset DEF Mailers, Markers
<1>2. Mailers(n) \cap Markers(n) = {}
  <2> SUFFICES ASSUME NEW r \in Runs, WillMail(run[r], n, notes[n].user), WillMark(run[r], n) PROVE FALSE
    BY DEF Mailers, Markers
  <2>1. PICK w : w = run[r]
    OBVIOUS
  <2>2. w \in RunRow /\ RunIsSound(w) /\ w.step = "mark" /\ n \in w.batch[w.people[1]] /\ w.people # << >>
    BY <2>1 DEF MailInv, MailTypes, WillMark, RunIsSound
  <2>3. PICK i \in DOMAIN w.people : w.people[i] = notes[n].user /\ i > 1
    BY <2>1, <2>2 DEF WillMail
  <2>4. w.people \in Seq(Users)
    BY <2>2 DEF RunRow
  <2>5. 1 \in DOMAIN w.people /\ w.people[1] \in Users
    BY <2>2, <2>4, LenProperties, EmptySeq, ElementOfSeq
  <2>6. notes[n].user = w.people[1]
    BY <2>2, <2>5 DEF RunIsSound
  <2>7. i = 1
    BY <2>2, <2>3, <2>5, <2>6 DEF RunIsSound
  <2> QED
    BY <2>3, <2>7
<1>3. Mailers(n) \union Markers(n) \subseteq Runs
  BY DEF Mailers, Markers
<1>4. /\ IsFiniteSet(Mailers(n) \union Markers(n))
      /\ Cardinality(Mailers(n) \union Markers(n))
           = Cardinality(Mailers(n)) + Cardinality(Markers(n)) - Cardinality(Mailers(n) \cap Markers(n))
  BY <1>1, FS_Union
<1>5. Cardinality(Mailers(n) \union Markers(n)) <= Cardinality(Runs)
  BY <1>1, <1>3, FS_Subset
<1>6. /\ Cardinality(Mailers(n)) \in Nat /\ Cardinality(Markers(n)) \in Nat /\ Cardinality(Runs) \in Nat
      /\ Cardinality(Mailers(n) \cap Markers(n)) = 0
  BY <1>1, <1>2, FS_CardinalityType, FS_EmptySet
<1> QED
  BY <1>4, <1>5, <1>6

(* What a step of one run does to the two counts.                             *)
LEMMA CountsMove ==
  ASSUME MailInv, NEW r \in Runs, NEW w, run' = [run EXCEPT ![r] = w],
         NEW n \in DOMAIN notes, NEW u, u = notes[n].user, u = notes'[n].user
  PROVE  LET mail == Cardinality(Mailers(n))  mail2 == Cardinality(Mailers(n)')
             mark == Cardinality(Markers(n))  mark2 == Cardinality(Markers(n)')
         IN /\ mail \in Nat /\ mail2 \in Nat /\ mark \in Nat /\ mark2 \in Nat
            /\ (WillMail(w, n, u) => WillMail(run[r], n, u)) => mail2 <= mail
            /\ WillMail(run[r], n, u) /\ ~WillMail(w, n, u) => mail = mail2 + 1
            /\ (WillMark(w, n) <=> WillMark(run[r], n)) => mark2 = mark
            /\ WillMark(w, n) /\ ~WillMark(run[r], n) => mark2 = mark + 1
            /\ mark <= mark2 + 1
<1> DEFINE A == Mailers(n)
           C == Markers(n)
<1>1. PICK B : B = A'
  OBVIOUS
<1>2. PICK D : D = C'
  OBVIOUS
<1>3. run'[r] = w /\ \A q \in Runs \ {r} : run'[q] = run[q]
  BY DEF MailInv, MailTypes
<1>4. B = {q \in Runs : WillMail(run'[q], n, u)} /\ D = {q \in Runs : WillMark(run'[q], n)}
  BY <1>1, <1>2 DEF Mailers, Markers, WillMail, WillMark
<1>5. A = {q \in Runs : WillMail(run[q], n, u)} /\ C = {q \in Runs : WillMark(run[q], n)}
  BY DEF Mailers, Markers
<1>6. /\ A \in SUBSET Runs /\ B \in SUBSET Runs /\ C \in SUBSET Runs /\ D \in SUBSET Runs
      /\ \A q \in Runs \ {r} : (q \in A <=> q \in B) /\ (q \in C <=> q \in D)
      /\ (r \in A <=> WillMail(run[r], n, u)) /\ (r \in B <=> WillMail(w, n, u))
      /\ (r \in C <=> WillMark(run[r], n)) /\ (r \in D <=> WillMark(w, n))
  BY <1>3, <1>4, <1>5
<1> HIDE DEF A, C
<1>7. /\ Cardinality(A) \in Nat /\ Cardinality(B) \in Nat
      /\ (r \in A <=> r \in B) => Cardinality(A) = Cardinality(B)
      /\ r \in A /\ r \notin B => Cardinality(A) = Cardinality(B) + 1
  BY <1>6, OneRunMore
<1>8. /\ Cardinality(C) \in Nat /\ Cardinality(D) \in Nat
      /\ (r \in C <=> r \in D) => Cardinality(C) = Cardinality(D)
      /\ r \in C /\ r \notin D => Cardinality(C) = Cardinality(D) + 1
  BY <1>6, OneRunMore
<1>9. r \in D /\ r \notin C => Cardinality(D) = Cardinality(C) + 1
  BY <1>6, OneRunMore
<1> QED
  BY <1>1, <1>2, <1>6, <1>7, <1>8, <1>9 DEF A, C

(* A step of one run keeps the invariant if that run and the counts are right.*)
LEMMA RunGoesOn ==
  ASSUME MailInv, NEW r \in Runs, NEW w \in RunRow, run' = [run EXCEPT ![r] = w], RunIsSound(w)',
         MailTypes', DOMAIN notes' = DOMAIN notes,
         \A n \in DOMAIN notes : notes'[n].user = notes[n].user /\ sent[n] <= sent'[n],
         \A n \in DOMAIN notes : MailsAreCounted(n)'
  PROVE  MailInv'
<1>1. ASSUME NEW q \in Runs PROVE RunIsSound(run[q])'
  <2>1. PICK v : v = run'[q]
    OBVIOUS
  <2>2. CASE q = r
    BY <2>2 DEF MailInv, MailTypes, RunIsSound
  <2>3. CASE q # r
    <3>1. v = run[q] /\ v \in RunRow
      BY <2>1, <2>3 DEF MailInv, MailTypes
    <3>2. RunIsSound(v)
      BY <3>1 DEF MailInv
    <3>3. ASSUME v.step = "mark" PROVE \A n \in v.batch[v.people[1]] : sent'[n] > 0
      <4>1. v.people[1] \in Users
        BY <3>1, <3>2, <3>3, ElementOfSeq, EmptySeq DEF RunIsSound, RunRow
      <4>2. \A n \in v.batch[v.people[1]] : n \in DOMAIN notes /\ sent[n] > 0
        BY <3>2, <3>3, <4>1 DEF RunIsSound
      <4>3. \A n \in DOMAIN notes : sent[n] \in Nat /\ sent'[n] \in Nat
        BY LenProperties, ElementOfSeq DEF MailInv, MailTypes
      <4> QED
        BY <4>2, <4>3
    <3> QED
      BY <2>1, <3>2, <3>3 DEF RunIsSound
  <2> QED
    BY <2>2, <2>3
<1> QED
  BY <1>1 DEF MailInv

(* A run that neither sends nor marks, or ends: it takes up nothing that is   *)
(* marked, and if it was about to mark, it has failed.                        *)
LEMMA QuietStep ==
  ASSUME MailInv, NEW r \in Runs, NEW w \in RunRow, run' = [run EXCEPT ![r] = w], RunIsSound(w),
         UNCHANGED <<notes, sent>>, failures' \in Nat, failures <= failures', w.step # "mark",
         \A n \in DOMAIN notes : notes[n].notified /\ WillMail(w, n, notes[n].user)
                                   => WillMail(run[r], n, notes[n].user),
         run[r].step = "mark" => failures' = failures + 1
  PROVE  MailInv'
<1>1. MailTypes'
  BY DEF MailInv, MailTypes
<1>2. RunIsSound(w)'
  BY DEF RunIsSound
<1>3. \A n \in DOMAIN notes : notes[n] \in Note /\ sent[n] \in Nat
  BY NotesTypes DEF MailInv
<1>4. ASSUME NEW n \in DOMAIN notes PROVE MailsAreCounted(n)'
  <2>1. PICK u : u = notes[n].user
    OBVIOUS
  <2>2. PICK mail, mail2, mark, mark2 :
          /\ mail = Cardinality(Mailers(n)) /\ mail2 = Cardinality(Mailers(n)')
          /\ mark = Cardinality(Markers(n)) /\ mark2 = Cardinality(Markers(n)')
    OBVIOUS
  <2>3. /\ mail \in Nat /\ mail2 \in Nat /\ mark \in Nat /\ mark2 \in Nat
        /\ (WillMail(w, n, u) => WillMail(run[r], n, u)) => mail2 <= mail
        /\ (WillMark(w, n) <=> WillMark(run[r], n)) => mark2 = mark
        /\ mark <= mark2 + 1
    BY <2>1, <2>2, CountsMove
  <2>4. failures \in Nat /\ failures' \in Nat /\ failures <= failures'
    BY DEF MailInv, MailTypes
  <2>5. mark + failures <= mark2 + failures'
    <3>1. CASE run[r].step = "mark"
      <4>1. failures' = failures + 1
        BY <3>1
      <4>2. mark <= mark2 + 1
        BY <2>3
      <4> QED
        BY <2>3, <2>4, <4>1, <4>2
    <3>2. CASE run[r].step # "mark"
      <4>1. ~WillMark(w, n) /\ ~WillMark(run[r], n)
        BY <3>2 DEF WillMark
      <4>2. mark2 = mark
        BY <2>3, <4>1
      <4>3. mark \in Nat
        BY <2>3
      <4>4. \A a, b, c \in Nat : b <= c => a + b <= a + c
        OBVIOUS
      <4>5. mark + failures <= mark + failures'
        BY <2>4, <4>3, <4>4
      <4> QED
        BY <4>2, <4>5
    <3> QED
      BY <3>1, <3>2
  <2>6. MailsAreCounted(n) /\ sent[n] \in Nat /\ Cardinality(Runs) \in Nat
    BY <1>3, NobodyTwice DEF MailInv
  <2>7. CASE notes[n].notified
    <3>1. mail2 <= mail
      BY <2>1, <2>3, <2>7
    <3>2. sent[n] > 0 /\ sent[n] + mail <= Cardinality(Runs) + failures
      BY <2>2, <2>6, <2>7 DEF MailsAreCounted
    <3>3. sent[n] + mail2 <= Cardinality(Runs) + failures'
      BY <2>3, <2>4, <2>6, <3>1, <3>2
    <3> QED
      BY <2>2, <2>7, <3>2, <3>3 DEF MailsAreCounted
  <2>8. CASE ~notes[n].notified
    <3>1. sent[n] <= mark + failures
      BY <2>2, <2>6, <2>8 DEF MailsAreCounted
    <3>2. sent[n] <= mark2 + failures'
      BY <2>3, <2>4, <2>5, <2>6, <3>1
    <3> QED
      BY <2>2, <2>8, <3>2 DEF MailsAreCounted
  <2> QED
    BY <2>7, <2>8
<1>5. \A n \in DOMAIN notes : notes'[n].user = notes[n].user /\ sent[n] <= sent'[n]
  BY <1>3
<1> QED
  BY <1>1, <1>2, <1>4, <1>5, RunGoesOn

(* What a run that is under way holds.                                        *)
LEMMA UnderWay ==
  ASSUME MailInv, NEW r \in Runs, run[r].step # "idle"
  PROVE  /\ run[r] \in RunRow /\ RunIsSound(run[r])
         /\ run[r].people \in Seq(Users) /\ run[r].people # << >>
         /\ DOMAIN run[r].people = 1..Len(run[r].people) /\ Len(run[r].people) \in Nat \ {0}
         /\ Person(r) = run[r].people[1] /\ Person(r) \in Users
<1>1. run[r] \in RunRow /\ RunIsSound(run[r])
  BY DEF MailInv, MailTypes
<1>2. PICK s \in Seq(Users) : s = run[r].people
  BY <1>1 DEF RunRow
<1>3. s # << >>
  BY <1>1, <1>2 DEF RunIsSound
<1>4. Head(s) = s[1] /\ Head(s) \in Users
  BY <1>3, HeadTailProperties
<1>5. DOMAIN s = 1..Len(s) /\ Len(s) \in Nat \ {0}
  BY <1>3, LenProperties, EmptySeq
<1> QED
  BY <1>1, <1>2, <1>3, <1>4, <1>5 DEF Person

(* The next person is another one.                                            *)
LEMMA CarryOnWrites ==
  ASSUME MailInv, NEW r \in Runs, run[r].step # "idle", CarryOn(r)
  PROVE  \E w \in RunRow :
           /\ run' = [run EXCEPT ![r] = w] /\ w.step \in {"idle", "person"} /\ RunIsSound(w)
           /\ \A n \in DOMAIN notes, u \in Users :
                WillMail(w, n, u) => WillMail(run[r], n, u) /\ u # Person(r)
<1>1. PICK o : o = run[r]
  OBVIOUS
<1>2. /\ o \in RunRow /\ RunIsSound(o) /\ o.step # "idle" /\ o.people \in Seq(Users) /\ o.people # << >>
      /\ DOMAIN o.people = 1..Len(o.people) /\ Len(o.people) \in Nat \ {0}
      /\ Person(r) = o.people[1]
  BY <1>1, UnderWay
<1>3. CASE Len(o.people) = 1
  <2>1. run' = [run EXCEPT ![r] = NoRun]
    BY <1>1, <1>3 DEF CarryOn, MailInv, MailTypes
  <2>2. NoRun \in RunRow /\ NoRun.step = "idle" /\ RunIsSound(NoRun)
    BY NoRunType DEF NoRun, RunIsSound
  <2>3. \A n, u : ~WillMail(NoRun, n, u)
    BY <2>2 DEF WillMail
  <2> QED
    BY <2>1, <2>2, <2>3
<1>4. CASE Len(o.people) # 1
  <2>1. PICK t : t = Tail(o.people)
    OBVIOUS
  <2>2. /\ t \in Seq(Users) /\ Len(t) = Len(o.people) - 1 /\ DOMAIN t = 1..Len(t)
        /\ \A i \in 1..Len(t) : t[i] = o.people[i + 1]
    BY <1>2, <2>1, HeadTailProperties, LenProperties
  <2>3. PICK w : w = [o EXCEPT !.step = "person", !.people = t]
    OBVIOUS
  <2>4. w \in RunRow /\ w.step = "person" /\ w.people = t /\ w.batch = o.batch
    BY <1>2, <2>2, <2>3 DEF RunRow
  <2>5. run' = [run EXCEPT ![r] = w]
    BY <1>1, <1>4, <2>1, <2>3 DEF CarryOn
  <2>6. \A i \in DOMAIN t : i + 1 \in DOMAIN o.people /\ i + 1 > 1 /\ t[i] = o.people[i + 1]
    BY <1>2, <2>2
  <2>7. RunIsSound(w)
    <3>1. \A i, j \in DOMAIN t : t[i] = t[j] => i = j
      <4> SUFFICES ASSUME NEW i \in DOMAIN t, NEW j \in DOMAIN t, t[i] = t[j] PROVE i = j
        OBVIOUS
      <4>1. i + 1 = j + 1
        BY <1>2, <2>6 DEF RunIsSound
      <4> QED
        BY <2>2, <4>1
    <3>2. t # << >>
      <4>1. Len(t) # 0
        BY <1>2, <1>4, <2>2
      <4> QED
        BY <4>1, EmptySeq
    <3> QED
      BY <1>2, <2>4, <3>1, <3>2 DEF RunIsSound
  <2>8. ASSUME NEW n \in DOMAIN notes, NEW u \in Users, WillMail(w, n, u)
        PROVE  WillMail(o, n, u) /\ u # o.people[1]
    <3>1. PICK i \in DOMAIN t : t[i] = u
      BY <2>4, <2>8 DEF WillMail
    <3>2. i + 1 \in DOMAIN o.people /\ o.people[i + 1] = u /\ i + 1 > 1 /\ 1 \in DOMAIN o.people
      BY <1>2, <2>6, <3>1
    <3>3. u # o.people[1]
      BY <1>2, <3>2 DEF RunIsSound
    <3> QED
      BY <1>2, <2>4, <2>8, <3>2, <3>3 DEF WillMail
  <2> QED
    BY <1>1, <1>2, <2>4, <2>5, <2>7, <2>8
<1> QED
  BY <1>3, <1>4

-----------------------------------------------------------------------------
(* A run lists what is not marked, each person once.                          *)
LEMMA ListKeeps ==
  ASSUME MailInv, NEW r \in Runs, List(r)
  PROVE  MailInv'
<1>1. ToMail # {} /\ ToMail \subseteq DOMAIN notes /\ UNCHANGED <<notes, sent, failures>> /\ run[r].step = "idle"
  BY DEF List, ToMail, RunAt
<1>2. PICK people \in PeopleOf(ToMail) :
        run' = [run EXCEPT ![r] = [step |-> "person", people |-> people,
                                   batch |-> [u \in Users |-> {n \in ToMail : notes[n].user = u}]]]
  BY DEF List
<1>3. PICK who : who = {notes[n].user : n \in ToMail}
  OBVIOUS
<1>4. people \in [1..Cardinality(who) -> who] /\ \A i, j \in DOMAIN people : people[i] = people[j] => i = j
  BY <1>3 DEF PeopleOf, IsInjective
<1>5. /\ DOMAIN notes = 1..Len(notes) /\ Len(notes) \in Nat
      /\ \A n \in DOMAIN notes : notes[n] \in Note /\ notes[n].user \in Users
  BY NotesTypes DEF MailInv, Note
<1>6. IsFiniteSet(ToMail)
  <2>1. IsFiniteSet(1..Len(notes))
    BY <1>5, FS_Interval
  <2> QED
    BY <1>1, <1>5, <2>1, FS_Subset
<1>7. IsFiniteSet(who) /\ who # {} /\ who \subseteq Users
  <2>1. PICK f : f = [n \in ToMail |-> notes[n].user]
    OBVIOUS
  <2>2. f \in Surjection(ToMail, who)
    BY <1>3, <2>1 DEF Surjection
  <2> QED
    BY <1>1, <1>3, <1>5, <1>6, <2>2, FS_Surjection
<1>8. Cardinality(who) \in Nat /\ Cardinality(who) # 0
  BY <1>7, FS_CardinalityType, FS_EmptySet
<1>9. people \in Seq(Users) /\ people # << >>
  <2>1. people \in [1..Cardinality(who) -> Users]
    BY <1>4, <1>7
  <2>2. people \in Seq(Users) /\ Len(people) = Cardinality(who)
    BY <1>8, <2>1, SeqDef, LenProperties
  <2> QED
    BY <1>8, <2>2, EmptySeq
<1>10. PICK w : w = [step |-> "person", people |-> people, batch |-> [u \in Users |-> {n \in ToMail : notes[n].user = u}]]
  OBVIOUS
<1>11. /\ w \in RunRow /\ w.step = "person" /\ w.people = people
       /\ \A u \in Users : w.batch[u] = {n \in ToMail : notes[n].user = u}
  BY <1>1, <1>5, <1>9, <1>10 DEF RunRow
<1>12. RunIsSound(w)
  BY <1>1, <1>4, <1>9, <1>11 DEF RunIsSound
<1>13. \A n \in DOMAIN notes : notes[n].notified => ~WillMail(w, n, notes[n].user)
  BY <1>5, <1>11 DEF WillMail, ToMail
<1>14. failures' \in Nat /\ failures <= failures' /\ run[r].step # "mark" /\ w.step # "mark"
  BY <1>1, <1>11 DEF MailInv, MailTypes
<1>15. run' = [run EXCEPT ![r] = w]
  BY <1>2, <1>10
<1> QED
  BY <1>1, <1>11, <1>12, <1>13, <1>14, <1>15, QuietStep

LEMMA AddressKeeps ==
  ASSUME MailInv, NEW r \in Runs, Address(r)
  PROVE  MailInv'
<1>1. /\ run[r].step = "person" /\ run[r].step # "mark" /\ run[r].step # "idle"
      /\ UNCHANGED <<notes, sent>> /\ failures' \in Nat /\ failures <= failures'
  BY DEF Address, RunAt, MailInv, MailTypes
<1>2. \A n \in DOMAIN notes : notes[n].user \in Users
  BY NotesTypes DEF MailInv, Note
<1>3. CASE wants[Person(r)]
  <2>1. PICK o : o = run[r]
    OBVIOUS
  <2>2. PICK w : w = [o EXCEPT !.step = "mail"]
    OBVIOUS
  <2>3. o \in RunRow /\ RunIsSound(o)
    BY <2>1 DEF MailInv, MailTypes
  <2>4. w \in RunRow /\ w.step = "mail" /\ w.people = o.people /\ w.batch = o.batch
    BY <2>2, <2>3 DEF RunRow
  <2>5. run' = [run EXCEPT ![r] = w]
    BY <1>3, <2>1, <2>2 DEF Address, MailInv, MailTypes
  <2>6. RunIsSound(w)
    BY <1>1, <2>1, <2>3, <2>4 DEF RunIsSound
  <2>7. \A n \in DOMAIN notes : WillMail(w, n, notes[n].user) => WillMail(run[r], n, notes[n].user)
    BY <1>1, <2>1, <2>4 DEF WillMail
  <2>8. w.step # "mark"
    BY <2>4
  <2> QED
    BY <1>1, <2>4, <2>5, <2>6, <2>7, <2>8, QuietStep
<1>4. CASE ~wants[Person(r)]
  <2>1. PICK w \in RunRow :
          /\ run' = [run EXCEPT ![r] = w] /\ w.step \in {"idle", "person"} /\ RunIsSound(w)
          /\ \A n \in DOMAIN notes, u \in Users : WillMail(w, n, u) => WillMail(run[r], n, u)
    BY <1>1, <1>4, CarryOnWrites DEF Address
  <2>2. w.step # "mark" /\ \A n \in DOMAIN notes : WillMail(w, n, notes[n].user)
                              => WillMail(run[r], n, notes[n].user)
    BY <1>2, <2>1
  <2> QED
    BY <1>1, <2>1, <2>2, QuietStep
<1> QED
  BY <1>3, <1>4

(* A run that is over takes up nothing.                                       *)
LEMMA EndKeeps ==
  ASSUME MailInv, NEW r \in Runs, run' = [run EXCEPT ![r] = NoRun], UNCHANGED <<notes, sent>>,
         failures' \in {failures, failures + 1}, run[r].step = "mark" => failures' = failures + 1
  PROVE  MailInv'
<1>1. NoRun \in RunRow /\ NoRun.step = "idle" /\ RunIsSound(NoRun)
  BY NoRunType DEF NoRun, RunIsSound
<1>2. \A n, u : ~WillMail(NoRun, n, u)
  BY <1>1 DEF WillMail
<1>3. failures' \in Nat /\ failures <= failures'
  BY DEF MailInv, MailTypes
<1> QED
  BY <1>1, <1>2, <1>3, QuietStep

(* The mail goes out: the run is about to mark what was in it.                *)
LEMMA SentKeeps ==
  ASSUME MailInv, NEW r \in Runs, run[r].step = "mail", Deliver(r), UNCHANGED <<notes, failures>>,
         run' = [run EXCEPT ![r].step = "mark"]
  PROVE  MailInv'
<1>1. PICK o : o = run[r]
  OBVIOUS
<1>2. /\ o \in RunRow /\ RunIsSound(o) /\ o.step = "mail" /\ o.people # << >> /\ o.people \in Seq(Users)
      /\ DOMAIN o.people = 1..Len(o.people) /\ Len(o.people) \in Nat \ {0}
      /\ Person(r) = o.people[1] /\ o.people[1] \in Users
  BY <1>1, UnderWay
<1>3. PICK b : b = o.batch[o.people[1]]
  OBVIOUS
<1>4. b = Batch(r)
  BY <1>1, <1>2, <1>3 DEF Batch
<1>5. /\ \A n \in DOMAIN notes : notes[n] \in Note /\ sent[n] \in Nat /\ notes[n].user \in Users
      /\ DOMAIN sent = DOMAIN notes /\ DOMAIN notes = 1..Len(notes) /\ Len(notes) \in Nat
  BY NotesTypes DEF MailInv, Note
<1>6. /\ \A n \in b : n \in DOMAIN notes /\ notes[n].user = o.people[1]
      /\ sent' = [n \in DOMAIN notes |-> IF n \in b THEN sent[n] + 1 ELSE sent[n]]
  BY <1>2, <1>3, <1>4, <1>5 DEF RunIsSound, Deliver
<1>7. \A n \in DOMAIN notes : /\ n \in b => sent'[n] = sent[n] + 1
                              /\ n \notin b => sent'[n] = sent[n]
                              /\ sent'[n] \in Nat /\ sent[n] <= sent'[n]
  BY <1>5, <1>6
<1>8. MailTypes'
  <2>1. sent' \in [1..Len(notes) -> Nat]
    BY <1>5, <1>6, <1>7
  <2>2. sent' \in Seq(Nat) /\ Len(sent') = Len(notes)
    BY <1>5, <2>1, SeqDef, LenProperties
  <2>3. run' \in [Runs -> RunRow]
    BY DEF MailInv, MailTypes, RunRow
  <2> QED
    BY <2>2, <2>3 DEF MailInv, MailTypes
<1>9. PICK w : w = [o EXCEPT !.step = "mark"]
  OBVIOUS
<1>10. w \in RunRow /\ w.step = "mark" /\ w.people = o.people /\ w.batch = o.batch
  BY <1>2, <1>9 DEF RunRow
<1>11. run' = [run EXCEPT ![r] = w]
  BY <1>1, <1>9
<1>12. RunIsSound(w)'
  <2>1. \A n \in b : sent'[n] > 0
    BY <1>5, <1>6, <1>7
  <2> QED
    BY <1>2, <1>3, <1>10, <2>1 DEF RunIsSound
<1>13. ASSUME NEW n \in DOMAIN notes PROVE MailsAreCounted(n)'
  <2>1. PICK u : u = notes[n].user
    OBVIOUS
  <2>2. PICK mail, mail2, mark, mark2 :
          /\ mail = Cardinality(Mailers(n)) /\ mail2 = Cardinality(Mailers(n)')
          /\ mark = Cardinality(Markers(n)) /\ mark2 = Cardinality(Markers(n)')
    OBVIOUS
  <2>3. /\ mail \in Nat /\ mail2 \in Nat /\ mark \in Nat /\ mark2 \in Nat
        /\ (WillMail(w, n, u) => WillMail(run[r], n, u)) => mail2 <= mail
        /\ WillMail(run[r], n, u) /\ ~WillMail(w, n, u) => mail = mail2 + 1
        /\ (WillMark(w, n) <=> WillMark(run[r], n)) => mark2 = mark
        /\ WillMark(w, n) /\ ~WillMark(run[r], n) => mark2 = mark + 1
    BY <1>11, <2>1, <2>2, CountsMove
  <2>4. WillMail(w, n, u) => WillMail(run[r], n, u)
    BY <1>1, <1>2, <1>10 DEF WillMail
  <2>5. n \in b => WillMail(run[r], n, u) /\ ~WillMail(w, n, u)
    <3> SUFFICES ASSUME n \in b PROVE WillMail(run[r], n, u) /\ ~WillMail(w, n, u)
      OBVIOUS
    <3>1. u = o.people[1] /\ 1 \in DOMAIN o.people
      BY <1>2, <1>6, <2>1
    <3>2. WillMail(o, n, u)
      BY <1>2, <1>3, <3>1 DEF WillMail
    <3>3. \A i \in DOMAIN o.people : o.people[i] = u => i = 1
      BY <1>2, <3>1 DEF RunIsSound
    <3>4. ~WillMail(w, n, u)
      BY <1>2, <1>10, <3>3 DEF WillMail
    <3> QED
      BY <1>1, <3>2, <3>4
  <2>6. ~WillMark(run[r], n) /\ (WillMark(w, n) <=> n \in b)
    BY <1>1, <1>2, <1>3, <1>10 DEF WillMark
  <2>7. MailsAreCounted(n) /\ sent[n] \in Nat /\ Cardinality(Runs) \in Nat /\ failures \in Nat
    BY <1>5, NobodyTwice DEF MailInv, MailTypes
  <2>8. CASE notes[n].notified
    <3>1. sent[n] > 0 /\ sent[n] + mail <= Cardinality(Runs) + failures
      BY <2>2, <2>7, <2>8 DEF MailsAreCounted
    <3>2. sent'[n] + mail2 <= sent[n] + mail
      <4>1. CASE n \in b
        <5>1. mail = mail2 + 1 /\ sent'[n] = sent[n] + 1
          BY <1>7, <2>3, <2>5, <4>1
        <5>2. mail2 \in Nat /\ sent[n] \in Nat
          BY <2>3, <2>7
        <5> QED
          BY <5>1, <5>2
      <4>2. CASE n \notin b
        <5>1. mail2 <= mail /\ sent'[n] = sent[n]
          BY <1>7, <2>3, <2>4, <4>2
        <5>2. mail \in Nat /\ mail2 \in Nat /\ sent[n] \in Nat
          BY <2>3, <2>7
        <5> QED
          BY <5>1, <5>2
      <4> QED
        BY <4>1, <4>2
    <3>3. mail \in Nat /\ mail2 \in Nat /\ sent'[n] \in Nat /\ sent[n] <= sent'[n]
      BY <1>7, <2>3
    <3>4. sent'[n] > 0 /\ sent'[n] + mail2 <= Cardinality(Runs) + failures
      BY <2>7, <3>1, <3>2, <3>3
    <3> QED
      BY <2>2, <2>8, <3>4 DEF MailsAreCounted
  <2>9. CASE ~notes[n].notified
    <3>1. sent[n] <= mark + failures
      BY <2>2, <2>7, <2>9 DEF MailsAreCounted
    <3>2. sent'[n] <= mark2 + failures
      <4>1. CASE n \in b
        <5>1. mark2 = mark + 1 /\ sent'[n] = sent[n] + 1
          BY <1>7, <2>3, <2>6, <4>1
        <5>2. mark \in Nat /\ sent[n] \in Nat /\ failures \in Nat
          BY <2>3, <2>7
        <5> QED
          BY <3>1, <5>1, <5>2
      <4>2. CASE n \notin b
        <5>1. mark2 = mark /\ sent'[n] = sent[n]
          BY <1>7, <2>3, <2>6, <4>2
        <5> QED
          BY <3>1, <5>1
      <4> QED
        BY <4>1, <4>2
    <3> QED
      BY <2>2, <2>9, <3>2 DEF MailsAreCounted
  <2> QED
    BY <2>8, <2>9
<1> QED
  BY <1>7, <1>8, <1>10, <1>11, <1>12, <1>13, RunGoesOn

LEMMA SendKeeps ==
  ASSUME MailInv, NEW r \in Runs, Send(r)
  PROVE  MailInv'
<1>1. run[r].step = "mail" /\ run[r].step # "mark" /\ UNCHANGED notes
  BY DEF Send, RunAt
<1>2. CASE Deliver(r) /\ run' = [run EXCEPT ![r].step = "mark"] /\ UNCHANGED failures
  BY <1>1, <1>2, SentKeeps
<1>3. CASE failures' \in {failures, failures + 1} /\ run' = [run EXCEPT ![r] = NoRun] /\ UNCHANGED sent
  BY <1>1, <1>3, EndKeeps
<1> QED
  BY <1>2, <1>3 DEF Send

(* What was in the mail is marked, and this run does not come back to it.     *)
LEMMA MarkKeeps ==
  ASSUME MailInv, NEW r \in Runs, Mark(r)
  PROVE  MailInv'
<1>1. run[r].step = "mark" /\ run[r].step # "idle" /\ UNCHANGED <<sent, failures>>
  BY DEF Mark, RunAt
<1>2. PICK w \in RunRow :
        /\ run' = [run EXCEPT ![r] = w] /\ w.step \in {"idle", "person"} /\ RunIsSound(w)
        /\ \A n \in DOMAIN notes, u \in Users :
             WillMail(w, n, u) => WillMail(run[r], n, u) /\ u # Person(r)
  BY <1>1, CarryOnWrites DEF Mark
<1>3. PICK b : b = Batch(r)
  OBVIOUS
<1>4. /\ \A n \in DOMAIN notes : notes[n] \in Note /\ sent[n] \in Nat /\ notes[n].user \in Users
      /\ DOMAIN sent = DOMAIN notes /\ DOMAIN notes = 1..Len(notes) /\ Len(notes) \in Nat
  BY NotesTypes DEF MailInv, Note
<1>5. /\ \A n \in b : n \in DOMAIN notes /\ notes[n].user = Person(r) /\ sent[n] > 0
      /\ \A n : WillMark(run[r], n) <=> n \in b
  BY <1>1, <1>3, UnderWay DEF Batch, RunIsSound, WillMark
<1>6. notes' = [n \in DOMAIN notes |-> IF n \in b THEN [notes[n] EXCEPT !.notified = TRUE] ELSE notes[n]]
  BY <1>3 DEF Mark, MarkAll
<1>7. /\ DOMAIN notes' = DOMAIN notes
      /\ \A n \in DOMAIN notes : /\ notes'[n] \in Note /\ notes'[n].user = notes[n].user
                                 /\ n \in b => notes'[n].notified
                                 /\ n \notin b => notes'[n] = notes[n]
  BY <1>4, <1>6 DEF Note
<1>8. MailTypes'
  <2>1. notes' \in [1..Len(notes) -> Note]
    BY <1>4, <1>6, <1>7
  <2>2. notes' \in Seq(Note) /\ Len(notes') = Len(notes)
    BY <1>4, <2>1, SeqDef, LenProperties
  <2>3. run' \in [Runs -> RunRow]
    BY <1>2 DEF MailInv, MailTypes
  <2> QED
    BY <1>1, <2>2, <2>3 DEF MailInv, MailTypes
<1>9. RunIsSound(w)'
  BY <1>1, <1>2, <1>7 DEF RunIsSound
<1>10. ASSUME NEW n \in DOMAIN notes PROVE MailsAreCounted(n)'
  <2>1. PICK u : u = notes[n].user
    OBVIOUS
  <2>2. PICK mail, mail2, mark, mark2 :
          /\ mail = Cardinality(Mailers(n)) /\ mail2 = Cardinality(Mailers(n)')
          /\ mark = Cardinality(Markers(n)) /\ mark2 = Cardinality(Markers(n)')
    OBVIOUS
  <2>3. /\ mail \in Nat /\ mail2 \in Nat /\ mark \in Nat /\ mark2 \in Nat
        /\ (WillMail(w, n, u) => WillMail(run[r], n, u)) => mail2 <= mail
        /\ (WillMark(w, n) <=> WillMark(run[r], n)) => mark2 = mark
    BY <1>2, <1>7, <2>1, <2>2, CountsMove
  <2>4. mail2 <= mail
    BY <1>2, <1>4, <2>1, <2>3
  <2>5. /\ MailsAreCounted(n) /\ sent[n] \in Nat /\ Cardinality(Runs) \in Nat /\ failures \in Nat
        /\ mail + mark <= Cardinality(Runs)
    BY <1>4, <2>2, NobodyTwice DEF MailInv, MailTypes
  <2>6. CASE notes[n].notified
    <3>1. sent[n] > 0 /\ sent[n] + mail <= Cardinality(Runs) + failures
      BY <2>2, <2>5, <2>6 DEF MailsAreCounted
    <3>2. sent[n] + mail2 <= Cardinality(Runs) + failures
      BY <2>3, <2>4, <2>5, <3>1
    <3>3. notes'[n].notified
      BY <1>7, <2>6
    <3> QED
      BY <1>1, <2>2, <3>1, <3>2, <3>3 DEF MailsAreCounted
  <2>7. CASE ~notes[n].notified /\ n \in b
    <3>1. sent[n] <= mark + failures /\ sent[n] > 0
      BY <1>5, <2>2, <2>5, <2>7 DEF MailsAreCounted
    <3>2. sent[n] + mail2 <= Cardinality(Runs) + failures
      BY <2>3, <2>4, <2>5, <3>1
    <3>3. notes'[n].notified
      BY <1>7, <2>7
    <3> QED
      BY <1>1, <2>2, <3>1, <3>2, <3>3 DEF MailsAreCounted
  <2>8. CASE ~notes[n].notified /\ n \notin b
    <3>1. sent[n] <= mark + failures
      BY <2>2, <2>5, <2>8 DEF MailsAreCounted
    <3>2. mark2 = mark
      <4>1. ~WillMark(w, n) /\ ~WillMark(run[r], n)
        BY <1>2, <1>5, <2>8 DEF WillMark
      <4> QED
        BY <2>3, <4>1
    <3>3. ~notes'[n].notified
      BY <1>7, <2>8
    <3> QED
      BY <1>1, <2>2, <3>1, <3>2, <3>3 DEF MailsAreCounted
  <2> QED
    BY <2>6, <2>7, <2>8
<1>11. \A n \in DOMAIN notes : notes'[n].user = notes[n].user /\ sent[n] <= sent'[n]
  BY <1>1, <1>4, <1>7
<1> QED
  BY <1>2, <1>7, <1>8, <1>9, <1>10, <1>11, RunGoesOn

LEMMA StopKeeps ==
  ASSUME MailInv, NEW r \in Runs, Stop(r)
  PROVE  MailInv'
BY EndKeeps DEF Stop

(* A new notification is in nobody's mail yet.                                *)
LEMMA NotifyKeeps ==
  ASSUME MailInv, NEW u \in Users, Notify(u)
  PROVE  MailInv'
<1>1. PICK x : x = [user |-> u, read |-> FALSE, notified |-> FALSE]
  OBVIOUS
<1>2. x \in Note /\ ~x.notified
  BY <1>1 DEF Note
<1>3. /\ notes \in Seq(Note) /\ sent \in Seq(Nat) /\ Len(sent) = Len(notes) /\ Len(notes) \in Nat
      /\ DOMAIN notes = 1..Len(notes) /\ DOMAIN sent = 1..Len(notes)
      /\ \A n \in DOMAIN notes : notes[n] \in Note /\ sent[n] \in Nat /\ notes[n].user \in Users
  BY NotesTypes DEF MailInv, MailTypes, Note
<1>4. notes' = Append(notes, x) /\ sent' = Append(sent, 0) /\ UNCHANGED <<run, failures>>
  BY <1>1 DEF Notify
<1>5. /\ notes' \in Seq(Note) /\ Len(notes') = Len(notes) + 1 /\ DOMAIN notes' = 1..(Len(notes) + 1)
      /\ \A n \in DOMAIN notes : notes'[n] = notes[n]
      /\ notes'[Len(notes) + 1] = x
  BY <1>2, <1>3, <1>4, AppendProperties, LenProperties
<1>6. /\ sent' \in Seq(Nat) /\ Len(sent') = Len(notes) + 1
      /\ \A n \in DOMAIN notes : sent'[n] = sent[n]
      /\ sent'[Len(notes) + 1] = 0
  BY <1>3, <1>4, AppendProperties, LenProperties
<1>7. MailTypes'
  BY <1>4, <1>5, <1>6 DEF MailInv, MailTypes
<1>8. \A n \in DOMAIN notes : n \in DOMAIN notes'
  BY <1>3, <1>5
<1>9. ASSUME NEW r \in Runs PROVE RunIsSound(run[r])'
  <2>1. PICK w : w = run[r]
    OBVIOUS
  <2>2. RunIsSound(w) /\ w \in RunRow
    BY <2>1 DEF MailInv, MailTypes
  <2>3. w.step = "mark" => \A n \in w.batch[w.people[1]] : sent'[n] > 0
    <3> SUFFICES ASSUME w.step = "mark" PROVE \A n \in w.batch[w.people[1]] : sent'[n] > 0
      OBVIOUS
    <3>1. w.people[1] \in Users
      BY <2>2, ElementOfSeq, EmptySeq DEF RunIsSound, RunRow
    <3> QED
      BY <1>6, <2>2, <3>1 DEF RunIsSound
  <2>4. \A v \in Users : \A n \in w.batch[v] : n \in DOMAIN notes' /\ notes'[n].user = v
    BY <1>5, <1>8, <2>2 DEF RunIsSound
  <2>5. run'[r] = w
    BY <1>4, <2>1
  <2> QED
    BY <2>2, <2>3, <2>4, <2>5 DEF RunIsSound
<1>10. ASSUME NEW n \in DOMAIN notes' PROVE MailsAreCounted(n)'
  <2>1. CASE n \in DOMAIN notes
    <3>1. notes'[n] = notes[n] /\ sent'[n] = sent[n]
      BY <1>5, <1>6, <2>1
    <3>2. Mailers(n)' = Mailers(n) /\ Markers(n)' = Markers(n)
      BY <1>4, <3>1 DEF Mailers, Markers, WillMail, WillMark
    <3>3. MailsAreCounted(n)
      BY <2>1 DEF MailInv
    <3> QED
      BY <1>4, <3>1, <3>2, <3>3 DEF MailsAreCounted
  <2>2. CASE n \notin DOMAIN notes
    <3>1. n = Len(notes) + 1
      BY <1>3, <1>5, <2>2
    <3>2. ~notes'[n].notified /\ sent'[n] = 0
      BY <1>2, <1>5, <1>6, <3>1
    <3>3. PICK c : c = Cardinality(Markers(n)')
      OBVIOUS
    <3>4. c \in Nat /\ failures \in Nat
      <4>1. Markers(n)' \subseteq Runs
        BY DEF Markers
      <4> QED
        BY <3>3, <4>1, MailAssumption, FS_Subset, FS_CardinalityType DEF MailInv, MailTypes
    <3>5. sent'[n] <= c + failures'
      <4>1. 0 <= c + failures
        BY <3>4
      <4>2. failures' = failures
        BY <1>4
      <4> QED
        BY <3>2, <4>1, <4>2
    <3> QED
      BY <3>2, <3>3, <3>5 DEF MailsAreCounted
  <2> QED
    BY <2>1, <2>2
<1> QED
  BY <1>7, <1>9, <1>10 DEF MailInv

(* Reading changes neither the user nor the mark.                             *)
LEMMA ReadKeeps ==
  ASSUME MailInv, NEW m \in DOMAIN notes, ReadNote(m)
  PROVE  MailInv'
<1>1. /\ notes \in Seq(Note) /\ Len(notes) \in Nat /\ DOMAIN notes = 1..Len(notes)
      /\ \A n \in DOMAIN notes : notes[n] \in Note
  BY NotesTypes DEF MailInv, MailTypes
<1>2. notes' = [notes EXCEPT ![m].read = TRUE] /\ UNCHANGED <<sent, run, failures>>
  BY DEF ReadNote
<1>3. /\ DOMAIN notes' = DOMAIN notes
      /\ \A n \in DOMAIN notes : /\ notes'[n] \in Note /\ notes'[n].user = notes[n].user
                                 /\ notes'[n].notified = notes[n].notified
  BY <1>1, <1>2 DEF Note
<1>4. MailTypes'
  <2>1. notes' \in [1..Len(notes) -> Note]
    BY <1>1, <1>2, <1>3
  <2>2. notes' \in Seq(Note) /\ Len(notes') = Len(notes)
    BY <1>1, <2>1, SeqDef, LenProperties
  <2> QED
    BY <1>2, <2>2 DEF MailInv, MailTypes
<1>5. \A r \in Runs : RunIsSound(run[r])'
  <2> SUFFICES ASSUME NEW r \in Runs PROVE RunIsSound(run[r])'
    OBVIOUS
  <2>1. PICK w : w = run[r]
    OBVIOUS
  <2>2. RunIsSound(w)
    BY <2>1 DEF MailInv
  <2>3. run'[r] = w
    BY <1>2, <2>1
  <2> QED
    BY <1>2, <1>3, <2>2, <2>3 DEF RunIsSound
<1>6. ASSUME NEW n \in DOMAIN notes PROVE MailsAreCounted(n)'
  <2>1. notes'[n].user = notes[n].user /\ notes'[n].notified = notes[n].notified
    BY <1>3
  <2>2. Mailers(n)' = Mailers(n) /\ Markers(n)' = Markers(n)
    BY <1>2, <2>1 DEF Mailers, Markers, WillMail, WillMark
  <2>3. MailsAreCounted(n)
    BY DEF MailInv
  <2> QED
    BY <1>2, <2>1, <2>2, <2>3 DEF MailsAreCounted
<1> QED
  BY <1>3, <1>4, <1>5, <1>6 DEF MailInv

LEMMA UntouchedKeeps ==
  ASSUME MailInv, UNCHANGED <<notes, sent, run, failures>>
  PROVE  MailInv'
<1>1. MailTypes'
  BY DEF MailInv, MailTypes
<1>2. \A r \in Runs : RunIsSound(run[r])'
  BY DEF MailInv, RunIsSound
<1>3. ASSUME NEW n \in DOMAIN notes PROVE MailsAreCounted(n)'
  <2>1. Mailers(n)' = Mailers(n) /\ Markers(n)' = Markers(n)
    BY DEF Mailers, Markers, WillMail, WillMark
  <2>2. MailsAreCounted(n)
    BY DEF MailInv
  <2> QED
    BY <2>1, <2>2 DEF MailsAreCounted
<1> QED
  BY <1>1, <1>2, <1>3 DEF MailInv

LEMMA MailStep == MailInv /\ [MailNext]_mailVars => MailInv'
<1> SUFFICES ASSUME MailInv, [MailNext]_mailVars PROVE MailInv'
  OBVIOUS
<1>1. ASSUME NEW r \in Runs, Work(r) \/ Stop(r) PROVE MailInv'
  BY <1>1, ListKeeps, AddressKeeps, SendKeeps, MarkKeeps, StopKeeps DEF Work
<1>2. ASSUME NEW u \in Users, Notify(u) \/ TurnMails(u) PROVE MailInv'
  <2>1. TurnMails(u) => UNCHANGED <<notes, sent, run, failures>>
    BY DEF TurnMails
  <2> QED
    BY <1>2, <2>1, NotifyKeeps, UntouchedKeeps
<1>3. ASSUME NEW n \in DOMAIN notes, ReadNote(n) PROVE MailInv'
  BY <1>3, ReadKeeps
<1>4. CASE UNCHANGED mailVars
  BY <1>4, UntouchedKeeps DEF mailVars
<1> QED
  BY <1>1, <1>2, <1>3, <1>4 DEF MailNext

(* Between the sending and the marking of a notification the counts allow one *)
(* mail for each run about to mark it and for each that failed; afterwards    *)
(* one for each run that still has it in hand.                                *)
LEMMA CountsSuffice == MailInv => MailedOnce
<1> SUFFICES ASSUME MailInv, NEW n \in DOMAIN notes
             PROVE  /\ notes[n].notified => sent[n] > 0
                    /\ sent[n] <= Cardinality(Runs) + failures
  BY DEF MailedOnce, MarkedWasMailed, NoEndlessMails
<1>1. PICK mail, mark, runs : mail = Cardinality(Mailers(n)) /\ mark = Cardinality(Markers(n)) /\ runs = Cardinality(Runs)
  OBVIOUS
<1>2. mail \in Nat /\ mark \in Nat /\ runs \in Nat /\ mail + mark <= runs
  BY <1>1, NobodyTwice
<1>3. MailsAreCounted(n) /\ sent[n] \in Nat /\ failures \in Nat
  BY NotesTypes DEF MailInv, MailTypes
<1>4. CASE notes[n].notified
  <2>1. sent[n] > 0 /\ sent[n] + mail <= runs + failures
    BY <1>1, <1>3, <1>4 DEF MailsAreCounted
  <2>2. sent[n] <= runs + failures
    BY <1>2, <1>3, <2>1
  <2> QED
    BY <1>1, <2>1, <2>2
<1>5. CASE ~notes[n].notified
  <2>1. sent[n] <= mark + failures
    BY <1>1, <1>3, <1>5 DEF MailsAreCounted
  <2>2. sent[n] <= runs + failures
    BY <1>2, <1>3, <2>1
  <2> QED
    BY <1>1, <1>5, <2>2
<1> QED
  BY <1>4, <1>5

-----------------------------------------------------------------------------
(* What counts as mailed was in a mail, and nobody is written to without end  *)
(* (notification.ts:350), whatever runs overlap, fail or stop and whatever is *)
(* written, read or turned off in between.                                    *)
THEOREM MailIsCounted == MailSpec => []MailedOnce
<1>1. MailSpec => MailInit /\ [][MailNext]_mailVars
  BY PTL DEF MailSpec
<1> QED
  BY <1>1, MailInitInv, MailStep, CountsSuffice, PTL

-----------------------------------------------------------------------------
(* Reminders, for every choice of due dates, people, sweepers and bounds.     *)

Stored == [before : Befores, notified : BOOLEAN, here : BOOLEAN]
Job == [row : Nat, due : Dues]
SweepState == [todo : Seq(Job), person : Nat \ {0}]

(* A sweep that rests begins with the first person; nobody was told of rows   *)
(* that are not there yet.                                                    *)
RemindTypes ==
  /\ due \in Dues \union {NoDue}
  /\ reminders \in Seq(Stored) /\ Len(reminders) <= MaxRows
  /\ reminding \in [ReminderSweepers -> SweepState]
  /\ \A s \in ReminderSweepers :
       /\ \A i \in DOMAIN reminding[s].todo : reminding[s].todo[i].row \in DOMAIN reminders
       /\ ~Sweeping(s) => reminding[s].person = 1
  /\ saving \in [step : {"idle", "sync"}, before : SUBSET Befores, changed : BOOLEAN]
  /\ stopsLeft \in Nat /\ stopsLeft <= MaxStops
  /\ told \in [1..MaxRows -> [Dues -> [1..People -> Nat]]]
  /\ armed \in [1..MaxRows -> [Dues -> Nat]]
  /\ \A r \in 1..MaxRows \ DOMAIN reminders : \A d \in Dues, i \in 1..People : told[r][d][i] = 0
  /\ met \in BOOLEAN

Stopped == MaxStops - stopsLeft

(* A sweep that nothing runs into has the reminders to itself: each it lists  *)
(* is armed for the date the card has, and listed once; of the first, those   *)
(* before the person whose turn it is have been told.                         *)
OneAtWork == \A s \in ReminderSweepers : Sweeping(s) =>
  saving = NothingSaved /\ due \in Dues /\ \A t \in ReminderSweepers : Sweeping(t) => t = s
TodoIsDue == \A s \in ReminderSweepers : \A i \in DOMAIN reminding[s].todo :
  /\ reminding[s].todo[i].due = due
  /\ reminders[reminding[s].todo[i].row].here /\ ~reminders[reminding[s].todo[i].row].notified
TodoOnce == \A s \in ReminderSweepers : \A i, j \in DOMAIN reminding[s].todo :
  reminding[s].todo[i].row = reminding[s].todo[j].row => i = j
HeadTold == \A s \in ReminderSweepers : Sweeping(s) =>
  \A i \in 1..People : i < reminding[s].person => told[reminding[s].todo[1].row][due][i] > 0

(* While a new date waits for the re-arming, marks mean nothing.              *)
MarkedTold == (~saving.changed /\ due \in Dues) =>
  \A r \in Here : reminders[r].notified => \A i \in 1..People : told[r][due][i] > 0

(* Each telling is paid for by an arming or by a sweep that stopped; a        *)
(* reminder that is armed, or will be, has one telling left for everybody     *)
(* whom the sweep under way has not told already.                             *)
Counted == \A r \in 1..MaxRows : \A d \in Dues, i \in 1..People : told[r][d][i] <= armed[r][d] + Stopped
BeingTold(r, i) == \E s \in ReminderSweepers :
  Sweeping(s) /\ reminding[s].todo[1].row = r /\ i < reminding[s].person
OneLeft == due \in Dues =>
  \A r \in Here : ~reminders[r].notified \/ saving.changed =>
    \A i \in 1..People : BeingTold(r, i) \/ told[r][due][i] + 1 <= armed[r][due] + Stopped

Orderly == OneAtWork /\ TodoIsDue /\ TodoOnce /\ HeadTold /\ MarkedTold /\ Counted /\ OneLeft
RemindInv == RemindTypes /\ (~met => Orderly)

-----------------------------------------------------------------------------
(* No sweep is under way.                                                     *)
AllRest == \A s \in ReminderSweepers : ~Sweeping(s)
LEMMA WhenAllRest ==
  AllRest => OneAtWork /\ TodoIsDue /\ TodoOnce /\ HeadTold /\ \A r, i : ~BeingTold(r, i)
<1>1. AllRest => \A s \in ReminderSweepers : DOMAIN reminding[s].todo = {}
  BY DEF AllRest, Sweeping
<1> QED
  BY <1>1 DEF AllRest, OneAtWork, TodoIsDue, TodoOnce, HeadTold, BeingTold

LEMMA ThenAllRest ==
  AllRest' => OneAtWork' /\ TodoIsDue' /\ TodoOnce' /\ HeadTold' /\ (\A r, i : ~BeingTold(r, i))'
BY WhenAllRest, PTL

LEMMA RowTypes ==
  ASSUME RemindTypes
  PROVE  /\ Len(reminders) \in Nat /\ DOMAIN reminders = 1..Len(reminders)
         /\ DOMAIN reminders \subseteq 1..MaxRows
         /\ \A r \in DOMAIN reminders : reminders[r] \in Stored
         /\ \A r \in 1..MaxRows, d \in Dues : armed[r][d] \in Nat /\ \A i \in 1..People : told[r][d][i] \in Nat
         /\ Stopped \in Nat
<1>1. Len(reminders) \in Nat /\ DOMAIN reminders = 1..Len(reminders)
  BY LenProperties DEF RemindTypes
<1>2. \A r \in DOMAIN reminders : reminders[r] \in Stored
  BY ElementOfSeq, <1>1 DEF RemindTypes
<1>3. DOMAIN reminders \subseteq 1..MaxRows
  BY <1>1, RemindersAssumption DEF RemindTypes
<1>4. ASSUME NEW r \in 1..MaxRows, NEW d \in Dues
      PROVE  armed[r][d] \in Nat /\ \A i \in 1..People : told[r][d][i] \in Nat
  <2>1. armed \in [1..MaxRows -> [Dues -> Nat]] /\ told \in [1..MaxRows -> [Dues -> [1..People -> Nat]]]
    BY DEF RemindTypes
  <2>2. armed[r] \in [Dues -> Nat] /\ told[r] \in [Dues -> [1..People -> Nat]]
    BY <2>1
  <2>3. told[r][d] \in [1..People -> Nat]
    BY <2>2
  <2> QED
    BY <2>2, <2>3
<1>5. Stopped \in Nat
  BY RemindersAssumption DEF RemindTypes, Stopped
<1> QED
  BY <1>1, <1>2, <1>3, <1>4, <1>5

(* A sweep that is under way.                                                 *)
LEMMA SweepTypes ==
  ASSUME RemindTypes, NEW s \in ReminderSweepers, Sweeping(s)
  PROVE  /\ reminding[s] \in SweepState /\ reminding[s].todo \in Seq(Job) /\ reminding[s].todo # << >>
         /\ DOMAIN reminding[s].todo = 1..Len(reminding[s].todo) /\ Len(reminding[s].todo) \in Nat
         /\ 1 \in DOMAIN reminding[s].todo
         /\ Head(reminding[s].todo) = reminding[s].todo[1] /\ reminding[s].todo[1] \in Job
         /\ reminding[s].todo[1].row \in DOMAIN reminders /\ reminding[s].todo[1].due \in Dues
         /\ reminding[s].person \in Nat \ {0}
<1>1. PICK q : q = reminding[s].todo
  OBVIOUS
<1>2. reminding[s] \in SweepState /\ q \in Seq(Job) /\ q # << >> /\ reminding[s].person \in Nat \ {0}
  BY <1>1 DEF RemindTypes, Sweeping, SweepState
<1>3. DOMAIN q = 1..Len(q) /\ Len(q) \in Nat /\ Head(q) = q[1]
  BY <1>2, LenProperties
<1>4. 1 \in DOMAIN q
  BY <1>2, <1>3, EmptySeq
<1>5. q[1] \in Job
  BY <1>2, <1>3, <1>4, ElementOfSeq
<1>6. q[1].row \in DOMAIN reminders
  BY <1>1, <1>4 DEF RemindTypes
<1> QED
  BY <1>1, <1>2, <1>3, <1>4, <1>5, <1>6 DEF Job

LEMMA RemindInitInv == ReminderInit => RemindInv
<1> SUFFICES ASSUME ReminderInit PROVE RemindInv
  OBVIOUS
<1>1. Asleep \in SweepState
  BY EmptySeq DEF Asleep, SweepState
<1>2. AllRest
  BY DEF ReminderInit, AllRest, Sweeping, Asleep
<1>3. reminders = << >> /\ DOMAIN reminders = {} /\ Len(reminders) = 0 /\ reminders \in Seq(Stored)
  BY EmptySeq DEF ReminderInit
<1>4. RemindTypes
  <2>1. reminding \in [ReminderSweepers -> SweepState] /\ \A s \in ReminderSweepers : reminding[s] = Asleep
    BY <1>1 DEF ReminderInit
  <2>2. \A s \in ReminderSweepers : DOMAIN reminding[s].todo = {} /\ reminding[s].person = 1
    BY <2>1 DEF Asleep
  <2>3. saving \in [step : {"idle", "sync"}, before : SUBSET Befores, changed : BOOLEAN]
    BY DEF ReminderInit, NothingSaved
  <2>4. /\ told \in [1..MaxRows -> [Dues -> [1..People -> Nat]]] /\ armed \in [1..MaxRows -> [Dues -> Nat]]
        /\ \A r \in 1..MaxRows, d \in Dues, i \in 1..People : told[r][d][i] = 0
    BY DEF ReminderInit
  <2>5. stopsLeft \in Nat /\ stopsLeft <= MaxStops /\ due \in Dues \union {NoDue} /\ met \in BOOLEAN
    <3>1. stopsLeft = MaxStops /\ due = NoDue /\ met = FALSE
      BY DEF ReminderInit
    <3>2. \A n \in Nat : n <= n
      OBVIOUS
    <3> QED
      BY <3>1, <3>2, RemindersAssumption
  <2>6. Len(reminders) <= MaxRows
    BY <1>3, RemindersAssumption
  <2> QED
    BY <1>3, <2>1, <2>2, <2>3, <2>4, <2>5, <2>6 DEF RemindTypes
<1>5. due = NoDue /\ NoDue \notin Dues
  BY RemindersAssumption DEF ReminderInit
<1>6. Counted
  BY RemindersAssumption DEF ReminderInit, Counted, Stopped
<1> QED
  BY <1>2, <1>4, <1>5, <1>6, WhenAllRest DEF RemindInv, Orderly, MarkedTold, OneLeft

-----------------------------------------------------------------------------
(* The sweep                                                                  *)

(* One sweep goes on to w, and no table is written.                           *)
LEMMA SweepMoves ==
  ASSUME RemindTypes, NEW s \in ReminderSweepers, NEW w \in SweepState,
         reminding' = [reminding EXCEPT ![s] = w]
  PROVE  /\ reminding' \in [ReminderSweepers -> SweepState] /\ reminding'[s] = w
         /\ \A t \in ReminderSweepers \ {s} : reminding'[t] = reminding[t]
BY DEF RemindTypes

LEMMA SweepListKeeps ==
  ASSUME RemindInv, NEW s \in ReminderSweepers, ListDueReminders(s)
  PROVE  RemindInv'
<1>1. PICK rows : rows = {r \in Here : TimeHasCome(r)}
  OBVIOUS
<1>2. /\ rows \subseteq DOMAIN reminders /\ ~Sweeping(s) /\ rows # {}
      /\ \A r \in rows : reminders[r].here /\ ~reminders[r].notified /\ due # NoDue
      /\ met' = (met \/ saving # NothingSaved \/ \E other \in ReminderSweepers : Sweeping(other))
      /\ UNCHANGED <<due, reminders, saving, stopsLeft, told, armed>>
  BY <1>1 DEF ListDueReminders, Lists, Here, TimeHasCome
<1>3. PICK order \in SomeOrder(rows) :
        reminding' = [reminding EXCEPT ![s].todo = [i \in DOMAIN order |-> [row |-> order[i], due |-> due]]]
  BY <1>1 DEF ListDueReminders, Lists
<1>4. /\ Len(reminders) \in Nat /\ DOMAIN reminders = 1..Len(reminders) /\ RemindTypes
      /\ DOMAIN reminders \subseteq Nat /\ due \in Dues
  BY <1>2, RowTypes DEF RemindInv, RemindTypes
<1>5. Cardinality(rows) \in Nat
  <2>1. IsFiniteSet(1..Len(reminders))
    BY <1>4, FS_Interval
  <2>2. IsFiniteSet(rows)
    BY <1>2, <1>4, <2>1, FS_Subset
  <2> QED
    BY <2>2, FS_CardinalityType
<1>6. /\ order \in [1..Cardinality(rows) -> rows]
      /\ \A i, j \in DOMAIN order : order[i] = order[j] => i = j
  BY DEF SomeOrder, IsInjective
<1>7. PICK todo : todo = [i \in DOMAIN order |-> [row |-> order[i], due |-> due]]
  OBVIOUS
<1>8. todo \in Seq(Job)
  <2>1. todo \in [1..Cardinality(rows) -> Job]
    BY <1>2, <1>4, <1>6, <1>7 DEF Job
  <2> QED
    BY <1>5, <2>1, SeqDef
<1>9. /\ DOMAIN todo = DOMAIN order
      /\ \A i \in DOMAIN todo : todo[i].row = order[i] /\ todo[i].due = due /\ order[i] \in rows
  BY <1>6, <1>7
<1>10. PICK w : w = [reminding[s] EXCEPT !.todo = todo]
  OBVIOUS
<1>11. w \in SweepState /\ w.todo = todo /\ w.person = 1
  BY <1>2, <1>4, <1>8, <1>10 DEF SweepState, RemindTypes
<1>12. reminding' = [reminding EXCEPT ![s] = w]
  BY <1>3, <1>7, <1>10
<1>13. /\ reminding' \in [ReminderSweepers -> SweepState] /\ reminding'[s] = w
       /\ \A t \in ReminderSweepers \ {s} : reminding'[t] = reminding[t]
  BY <1>4, <1>11, <1>12, SweepMoves
<1>14. RemindTypes'
  <2>1. \A t \in ReminderSweepers :
          /\ \A i \in DOMAIN reminding'[t].todo : reminding'[t].todo[i].row \in DOMAIN reminders
          /\ reminding'[t].todo = << >> => reminding'[t].person = 1
    BY <1>2, <1>4, <1>9, <1>11, <1>13 DEF RemindTypes, Sweeping
  <2>2. met' \in BOOLEAN
    BY <1>2, <1>4 DEF RemindTypes
  <2>3. \A t \in ReminderSweepers :
          /\ \A i \in DOMAIN reminding'[t].todo : reminding'[t].todo[i].row \in DOMAIN reminders
          /\ ~Sweeping(t)' => reminding'[t].person = 1
    BY <2>1 DEF Sweeping
  <2>4. RemindTypes
    BY <1>4
  <2>5. reminding' \in [ReminderSweepers -> SweepState]
    BY <1>13
  <2>6. due' = due /\ reminders' = reminders /\ saving' = saving /\ stopsLeft' = stopsLeft /\ told' = told /\ armed' = armed
    BY <1>2
  <2> QED
    BY <2>2, <2>3, <2>4, <2>5, <2>6 DEF RemindTypes
<1>15. ASSUME ~met' PROVE Orderly'
  <2>1. saving = NothingSaved /\ AllRest /\ Orderly
    BY <1>2, <1>15 DEF AllRest, RemindInv
  <2>2. \A t \in ReminderSweepers \ {s} : reminding'[t].todo = << >>
    BY <1>13, <2>1 DEF AllRest, Sweeping
  <2>3. OneAtWork'
    BY <1>2, <1>4, <2>1, <2>2 DEF OneAtWork, Sweeping
  <2>4. TodoIsDue' /\ TodoOnce'
    <3>1. ASSUME NEW t \in ReminderSweepers, NEW i \in DOMAIN reminding'[t].todo
          PROVE  t = s /\ i \in DOMAIN todo /\ reminding'[t].todo = todo
      <4>1. t = s
        BY <2>2, <3>1
      <4> QED
        BY <1>11, <1>13, <3>1, <4>1
    <3>2. TodoIsDue'
      <4> SUFFICES ASSUME NEW t \in ReminderSweepers, NEW i \in DOMAIN reminding'[t].todo
                   PROVE  /\ reminding'[t].todo[i].due = due'
                          /\ reminders'[reminding'[t].todo[i].row].here
                          /\ ~reminders'[reminding'[t].todo[i].row].notified
        BY DEF TodoIsDue
      <4> QED
        BY <1>2, <1>9, <3>1
    <3>3. TodoOnce'
      <4> SUFFICES ASSUME NEW t \in ReminderSweepers,
                          NEW i \in DOMAIN reminding'[t].todo, NEW j \in DOMAIN reminding'[t].todo,
                          reminding'[t].todo[i].row = reminding'[t].todo[j].row
                   PROVE  i = j
        BY DEF TodoOnce
      <4> QED
        BY <1>6, <1>9, <3>1
    <3> QED
      BY <3>2, <3>3
  <2>5. HeadTold'
    BY <1>11, <1>13, <2>2 DEF HeadTold, Sweeping
  <2>6. MarkedTold' /\ Counted'
    BY <1>2, <2>1 DEF Orderly, MarkedTold, Counted, Stopped, Here
  <2>7. OneLeft'
    BY <1>2, <2>1, WhenAllRest DEF Orderly, OneLeft, Stopped, Here
  <2> QED
    BY <2>3, <2>4, <2>5, <2>6, <2>7 DEF Orderly
<1> QED
  BY <1>14, <1>15 DEF RemindInv

(* One more person is told of the first reminder.                             *)
LEMMA TellKeeps ==
  ASSUME RemindInv, NEW s \in ReminderSweepers, Tell(s)
  PROVE  RemindInv'
<1>1. PICK o : o = reminding[s]
  OBVIOUS
<1>2. PICK n, d, k : n = o.todo[1].row /\ d = o.todo[1].due /\ k = o.person
  OBVIOUS
<1>3. RemindTypes /\ Sweeping(s) /\ UNCHANGED <<due, reminders, saving, stopsLeft, armed, met>>
  BY DEF Tell, RemindInv
<1>4. /\ o \in SweepState /\ o.todo # << >> /\ Head(o.todo) = o.todo[1] /\ 1 \in DOMAIN o.todo
      /\ n \in DOMAIN reminders /\ n \in 1..MaxRows /\ d \in Dues /\ k \in Nat \ {0} /\ k <= People
  BY <1>1, <1>2, <1>3, SweepTypes, RowTypes DEF Tell
<1>5. k \in 1..People
  BY <1>4, RemindersAssumption
<1>6. told' = [told EXCEPT ![n][d][k] = @ + 1]
  BY <1>1, <1>2, <1>4 DEF Tell
<1>7. PICK w : w = [o EXCEPT !.person = k + 1]
  OBVIOUS
<1>8. w \in SweepState /\ w.todo = o.todo /\ w.person = k + 1
  BY <1>4, <1>7 DEF SweepState
<1>9. reminding' = [reminding EXCEPT ![s] = w]
  BY <1>1, <1>2, <1>7 DEF Tell
<1>10. /\ reminding' \in [ReminderSweepers -> SweepState] /\ reminding'[s] = w
       /\ \A t \in ReminderSweepers \ {s} : reminding'[t] = reminding[t]
  BY <1>3, <1>8, <1>9, SweepMoves
<1>11. \A r \in 1..MaxRows, e \in Dues, i \in 1..People :
         told[r][e][i] \in Nat /\ armed[r][e] \in Nat /\ Stopped \in Nat
  BY <1>3, RowTypes
<1>12. /\ told' \in [1..MaxRows -> [Dues -> [1..People -> Nat]]]
       /\ \A r \in 1..MaxRows, e \in Dues, i \in 1..People :
            /\ r = n /\ e = d /\ i = k => told'[r][e][i] = told[r][e][i] + 1
            /\ ~(r = n /\ e = d /\ i = k) => told'[r][e][i] = told[r][e][i]
  <2>1. told \in [1..MaxRows -> [Dues -> [1..People -> Nat]]]
    BY <1>3 DEF RemindTypes
  <2>2. told[n] \in [Dues -> [1..People -> Nat]] /\ told[n][d] \in [1..People -> Nat]
    BY <1>4, <2>1
  <2>3. PICK f : f = [told[n][d] EXCEPT ![k] = told[n][d][k] + 1]
    OBVIOUS
  <2>4. f \in [1..People -> Nat] /\ f[k] = told[n][d][k] + 1 /\ \A i \in 1..People \ {k} : f[i] = told[n][d][i]
    <3>1. PICK h \in [1..People -> Nat] : h = told[n][d]
      BY <2>2
    <3>2. h[k] + 1 \in Nat
      BY <1>5
    <3>3. PICK c \in Nat : c = h[k] + 1
      BY <3>2
    <3> QED
      BY <1>5, <2>3, <3>1, <3>3
  <2>5. told' = [told EXCEPT ![n] = [told[n] EXCEPT ![d] = f]]
    BY <1>6, <2>3
  <2>6. PICK g : g = [told[n] EXCEPT ![d] = f]
    OBVIOUS
  <2>7. g \in [Dues -> [1..People -> Nat]] /\ g[d] = f /\ \A e \in Dues \ {d} : g[e] = told[n][e]
    BY <1>4, <2>2, <2>4, <2>6
  <2>8. /\ told' \in [1..MaxRows -> [Dues -> [1..People -> Nat]]] /\ told'[n] = g
        /\ \A r \in 1..MaxRows \ {n} : told'[r] = told[r]
    BY <1>4, <2>1, <2>5, <2>6, <2>7
  <2> QED
    BY <1>5, <2>4, <2>7, <2>8
<1>13. \A r \in 1..MaxRows, e \in Dues, i \in 1..People : told[r][e][i] > 0 => told'[r][e][i] > 0
  BY <1>11, <1>12
<1>14. RemindTypes'
  <2>1. \A r \in 1..MaxRows \ DOMAIN reminders : \A e \in Dues, i \in 1..People : told'[r][e][i] = 0
    <3> TAKE r \in 1..MaxRows \ DOMAIN reminders
    <3> TAKE e \in Dues, i \in 1..People
    <3>1. told[r][e][i] = 0
      BY <1>3 DEF RemindTypes
    <3>2. r \in 1..MaxRows /\ r # n
      BY <1>4
    <3>3. told'[r][e][i] = told[r][e][i]
      BY <1>12, <3>2
    <3> QED
      BY <3>1, <3>3
  <2>2. \A t \in ReminderSweepers :
          /\ \A i \in DOMAIN reminding'[t].todo : reminding'[t].todo[i].row \in DOMAIN reminders
          /\ reminding'[t].todo = << >> => reminding'[t].person = 1
    BY <1>1, <1>3, <1>4, <1>8, <1>10 DEF RemindTypes, Sweeping
  <2> QED
    <3>1. RemindTypes
      BY <1>3
    <3>2. /\ due' = due /\ reminders' = reminders /\ saving' = saving /\ stopsLeft' = stopsLeft
          /\ armed' = armed /\ met' = met
      BY <1>3
    <3>3. reminding' \in [ReminderSweepers -> SweepState]
      BY <1>10
    <3>4. told' \in [1..MaxRows -> [Dues -> [1..People -> Nat]]]
      BY <1>12
    <3>5. \A t \in ReminderSweepers :
            /\ \A i \in DOMAIN reminding'[t].todo : reminding'[t].todo[i].row \in DOMAIN reminders
            /\ ~Sweeping(t)' => reminding'[t].person = 1
      BY <2>2 DEF Sweeping
    <3> QED
      BY <2>1, <3>1, <3>2, <3>3, <3>4, <3>5 DEF RemindTypes
<1>15. ASSUME ~met PROVE Orderly'
  <2>1. Orderly
    BY <1>15 DEF RemindInv
  <2>2. /\ saving = NothingSaved /\ due \in Dues /\ d = due /\ reminders[n].here /\ ~reminders[n].notified
        /\ \A t \in ReminderSweepers : Sweeping(t) => t = s
        /\ \A i \in 1..People : i < k => told[n][due][i] > 0
    BY <1>1, <1>2, <1>3, <1>4, <2>1 DEF Orderly, OneAtWork, TodoIsDue, HeadTold
  <2>3. \A t \in ReminderSweepers : reminding'[t].todo = reminding[t].todo
    BY <1>1, <1>8, <1>10
  <2>4. OneAtWork' /\ TodoIsDue' /\ TodoOnce'
    BY <1>3, <2>1, <2>3 DEF Orderly, OneAtWork, TodoIsDue, TodoOnce, Sweeping
  <2>5. HeadTold'
    <3> SUFFICES ASSUME NEW t \in ReminderSweepers, reminding'[t].todo # << >>, NEW i \in 1..People,
                        i < reminding'[t].person
                 PROVE  told'[reminding'[t].todo[1].row][due'][i] > 0
      BY DEF HeadTold, Sweeping
    <3>1. t = s
      BY <2>2, <2>3 DEF Sweeping
    <3>2. reminding'[t].todo[1].row = n /\ reminding'[t].person = k + 1 /\ due' = d
      BY <1>1, <1>2, <1>3, <1>8, <1>10, <2>2, <3>1
    <3>3. i < k \/ i = k
      BY <1>4, <3>2
    <3>4. told'[n][d][k] > 0
      BY <1>4, <1>5, <1>11, <1>12
    <3>5. i < k => told'[n][d][i] > 0
      BY <1>4, <1>13, <2>2
    <3> QED
      BY <3>2, <3>3, <3>4, <3>5
  <2>6. MarkedTold'
    <3>1. Here \subseteq 1..MaxRows
      BY <1>3, RowTypes DEF Here
    <3> QED
      BY <1>3, <1>13, <2>1, <3>1 DEF Orderly, MarkedTold, Here
  <2>7. ~BeingTold(n, k)
    BY <1>1, <1>2, <1>4, <2>2 DEF BeingTold
  <2>8. told[n][d][k] + 1 <= armed[n][d] + Stopped
    BY <1>4, <1>5, <2>1, <2>2, <2>7 DEF Orderly, OneLeft, Here
  <2>9. Counted'
    <3> SUFFICES ASSUME NEW r \in 1..MaxRows, NEW e \in Dues, NEW i \in 1..People
                 PROVE  told'[r][e][i] <= armed[r][e] + Stopped
      BY <1>3 DEF Counted, Stopped
    <3>1. told[r][e][i] <= armed[r][e] + Stopped
      BY <2>1 DEF Orderly, Counted
    <3>2. CASE r = n /\ e = d /\ i = k
      <4>1. told'[r][e][i] = told[n][d][k] + 1
        BY <1>12, <3>2
      <4> QED
        BY <2>8, <3>2, <4>1
    <3>3. CASE ~(r = n /\ e = d /\ i = k)
      BY <1>12, <3>1, <3>3
    <3> QED
      BY <3>2, <3>3
  <2>10. OneLeft'
    <3> SUFFICES ASSUME NEW r \in Here, ~reminders[r].notified \/ saving.changed, NEW i \in 1..People
                 PROVE  BeingTold(r, i)' \/ told'[r][due][i] + 1 <= armed[r][due] + Stopped
      BY <1>3 DEF OneLeft, Stopped, Here
    <3>1. r \in 1..MaxRows
      BY <1>3, RowTypes DEF Here
    <3>2. BeingTold(r, i) \/ told[r][due][i] + 1 <= armed[r][due] + Stopped
      BY <2>1, <2>2 DEF Orderly, OneLeft
    <3>3. BeingTold(r, i) => BeingTold(r, i)'
      <4>1. ASSUME NEW t \in ReminderSweepers, Sweeping(t), reminding[t].todo[1].row = r, i < reminding[t].person
            PROVE  /\ reminding'[t].todo # << >> /\ reminding'[t].todo[1].row = r /\ i < reminding'[t].person
        <5>1. t = s
          BY <2>2, <4>1
        <5>2. i < k + 1
          BY <1>1, <1>2, <1>4, <4>1, <5>1
        <5> QED
          BY <1>8, <1>10, <2>3, <4>1, <5>1, <5>2 DEF Sweeping
      <4> QED
        BY <4>1 DEF BeingTold, Sweeping
    <3>4. CASE r = n /\ i = k
      <4>1. k < k + 1
        BY <1>4
      <4> QED
        BY <1>1, <1>2, <1>4, <1>8, <1>10, <3>4, <4>1 DEF BeingTold, Sweeping
    <3>5. CASE ~(r = n /\ i = k)
      <4>1. told'[r][due][i] = told[r][due][i]
        BY <1>12, <2>2, <3>1, <3>5
      <4> QED
        BY <3>2, <3>3, <4>1
    <3> QED
      BY <3>4, <3>5
  <2> QED
    BY <2>4, <2>5, <2>6, <2>9, <2>10 DEF Orderly
<1> QED
  BY <1>3, <1>14, <1>15 DEF RemindInv

(* Everybody has been told of the first reminder: it is marked.               *)
LEMMA SweepMarkKeeps ==
  ASSUME RemindInv, NEW s \in ReminderSweepers, MarkReminder(s)
  PROVE  RemindInv'
<1>1. PICK o : o = reminding[s]
  OBVIOUS
<1>2. PICK n : n = o.todo[1].row
  OBVIOUS
<1>3. RemindTypes /\ Sweeping(s) /\ UNCHANGED <<due, saving, stopsLeft, told, armed, met>>
  BY DEF MarkReminder, RemindInv
<1>4. /\ o \in SweepState /\ o.todo \in Seq(Job) /\ o.todo # << >> /\ Head(o.todo) = o.todo[1] /\ 1 \in DOMAIN o.todo
      /\ DOMAIN o.todo = 1..Len(o.todo) /\ Len(o.todo) \in Nat
      /\ n \in DOMAIN reminders /\ o.person \in Nat \ {0} /\ o.person > People
  BY <1>1, <1>2, <1>3, SweepTypes DEF MarkReminder
<1>5. /\ Len(reminders) \in Nat /\ DOMAIN reminders = 1..Len(reminders) /\ DOMAIN reminders \subseteq 1..MaxRows
      /\ \A r \in DOMAIN reminders : reminders[r] \in Stored
  BY <1>3, RowTypes
<1>6. reminders' = [reminders EXCEPT ![n].notified = TRUE]
  BY <1>1, <1>2, <1>4 DEF MarkReminder
<1>7. /\ DOMAIN reminders' = DOMAIN reminders
      /\ \A r \in DOMAIN reminders : /\ reminders'[r] \in Stored /\ reminders'[r].here = reminders[r].here
                                     /\ r = n => reminders'[r].notified
                                     /\ r # n => reminders'[r] = reminders[r]
  BY <1>4, <1>5, <1>6 DEF Stored
<1>8. reminders' \in Seq(Stored) /\ Len(reminders') = Len(reminders)
  <2>1. reminders' \in [1..Len(reminders) -> Stored]
    BY <1>5, <1>6, <1>7
  <2> QED
    BY <1>5, <2>1, SeqDef, LenProperties
<1>9. PICK t : t = Tail(o.todo)
  OBVIOUS
<1>10. /\ t \in Seq(Job) /\ DOMAIN t = 1..Len(t) /\ Len(t) = Len(o.todo) - 1
       /\ \A i \in DOMAIN t : i + 1 \in DOMAIN o.todo /\ i + 1 # 1 /\ t[i] = o.todo[i + 1]
  <2>1. t \in Seq(Job) /\ Len(t) = Len(o.todo) - 1 /\ \A i \in 1..Len(t) : t[i] = o.todo[i + 1]
    BY <1>4, <1>9, HeadTailProperties
  <2>2. DOMAIN t = 1..Len(t) /\ Len(t) \in Nat
    BY <2>1, LenProperties
  <2> QED
    BY <1>4, <2>1, <2>2
<1>11. PICK w : w = [todo |-> t, person |-> 1]
  OBVIOUS
<1>12. w \in SweepState /\ w.todo = t /\ w.person = 1
  BY <1>10, <1>11 DEF SweepState
<1>13. reminding' = [reminding EXCEPT ![s] = w]
  BY <1>1, <1>9, <1>11 DEF MarkReminder
<1>14. /\ reminding' \in [ReminderSweepers -> SweepState] /\ reminding'[s] = w
       /\ \A q \in ReminderSweepers \ {s} : reminding'[q] = reminding[q]
  BY <1>3, <1>12, <1>13, SweepMoves
<1>15. \A i \in DOMAIN t : t[i].row \in DOMAIN reminders
  BY <1>1, <1>3, <1>10 DEF RemindTypes
<1>16. RemindTypes'
  <2>1. \A q \in ReminderSweepers :
          /\ \A i \in DOMAIN reminding'[q].todo : reminding'[q].todo[i].row \in DOMAIN reminders
          /\ reminding'[q].todo = << >> => reminding'[q].person = 1
    BY <1>3, <1>12, <1>14, <1>15 DEF RemindTypes, Sweeping
  <2> QED
    BY <1>3, <1>7, <1>8, <1>14, <2>1 DEF RemindTypes, Sweeping
<1>17. ASSUME ~met PROVE Orderly'
  <2>1. Orderly
    BY <1>17 DEF RemindInv
  <2>2. /\ saving = NothingSaved /\ due \in Dues /\ ~saving.changed
        /\ \A q \in ReminderSweepers : Sweeping(q) => q = s
        /\ \A i \in 1..People : told[n][due][i] > 0
    <3>1. /\ saving = NothingSaved /\ due \in Dues /\ \A q \in ReminderSweepers : Sweeping(q) => q = s
          /\ \A i \in 1..People : i < o.person => told[n][due][i] > 0
      BY <1>1, <1>2, <1>3, <2>1 DEF Orderly, OneAtWork, HeadTold
    <3>2. \A i \in 1..People : i < o.person
      BY <1>4, RemindersAssumption
    <3> QED
      BY <3>1, <3>2 DEF NothingSaved
  <2>3. \A q \in ReminderSweepers : reminding'[q].todo # << >> => q = s /\ reminding'[q] = w
    BY <1>14, <2>2 DEF Sweeping
  <2>4. OneAtWork'
    BY <1>3, <2>2, <2>3 DEF OneAtWork, Sweeping
  <2>5. \A i \in DOMAIN t : /\ t[i].due = due /\ t[i].row # n /\ t[i].row \in DOMAIN reminders
                            /\ reminders[t[i].row].here /\ ~reminders[t[i].row].notified
    BY <1>1, <1>2, <1>4, <1>10, <1>15, <2>1 DEF Orderly, TodoIsDue, TodoOnce
  <2>6. \A q \in ReminderSweepers : \A i \in DOMAIN reminding'[q].todo : q = s /\ reminding'[q].todo = t
    BY <1>12, <1>14, <2>3
  <2>7. TodoIsDue'
    <3> SUFFICES ASSUME NEW q \in ReminderSweepers, NEW i \in DOMAIN reminding'[q].todo
                 PROVE  /\ reminding'[q].todo[i].due = due'
                        /\ reminders'[reminding'[q].todo[i].row].here
                        /\ ~reminders'[reminding'[q].todo[i].row].notified
      BY DEF TodoIsDue
    <3> QED
      BY <1>3, <1>7, <2>5, <2>6
  <2>8. TodoOnce'
    <3>1. ASSUME NEW i \in DOMAIN t, NEW j \in DOMAIN t, t[i].row = t[j].row PROVE i = j
      <4>1. i + 1 = j + 1
        BY <1>1, <1>10, <2>1, <3>1 DEF Orderly, TodoOnce
      <4> QED
        BY <1>10, <3>1, <4>1
    <3> QED
      BY <2>6, <3>1 DEF TodoOnce
  <2>9. HeadTold'
    <3>1. \A i \in 1..People : ~(i < 1)
      OBVIOUS
    <3> QED
      BY <1>12, <2>3, <3>1 DEF HeadTold, Sweeping
  <2>10. MarkedTold'
    BY <1>3, <1>7, <2>1, <2>2 DEF Orderly, MarkedTold, Here
  <2>11. Counted'
    BY <1>3, <2>1 DEF Orderly, Counted, Stopped
  <2>12. OneLeft'
    <3> SUFFICES ASSUME NEW r \in Here', ~reminders'[r].notified, NEW i \in 1..People
                 PROVE  told[r][due][i] + 1 <= armed[r][due] + Stopped
      BY <1>3, <2>2 DEF OneLeft, Stopped
    <3>1. r \in Here /\ r # n /\ ~reminders[r].notified
      BY <1>7 DEF Here
    <3>2. ~BeingTold(r, i)
      BY <1>1, <1>2, <2>2, <3>1 DEF BeingTold
    <3> QED
      BY <2>1, <2>2, <3>1, <3>2 DEF Orderly, OneLeft
  <2> QED
    BY <2>4, <2>7, <2>8, <2>9, <2>10, <2>11, <2>12 DEF Orderly
<1> QED
  BY <1>3, <1>16, <1>17 DEF RemindInv

(* A sweep that stops leaves everybody one telling more.                      *)
LEMMA SweepStopKeeps ==
  ASSUME RemindInv, NEW s \in ReminderSweepers, SweepStops(s)
  PROVE  RemindInv'
<1>1. /\ RemindTypes /\ Sweeping(s) /\ stopsLeft \in Nat /\ stopsLeft > 0 /\ stopsLeft' = stopsLeft - 1
      /\ reminding' = [reminding EXCEPT ![s] = Asleep]
      /\ UNCHANGED <<due, reminders, saving, told, armed, met>>
  BY DEF SweepStops, RemindInv, RemindTypes
<1>2. Asleep \in SweepState /\ Asleep.todo = << >> /\ Asleep.person = 1
  BY EmptySeq DEF Asleep, SweepState
<1>3. /\ reminding' \in [ReminderSweepers -> SweepState] /\ reminding'[s] = Asleep
      /\ \A t \in ReminderSweepers \ {s} : reminding'[t] = reminding[t]
  BY <1>1, <1>2, SweepMoves
<1>4. stopsLeft' \in Nat /\ stopsLeft' <= MaxStops /\ Stopped' = Stopped + 1 /\ Stopped \in Nat
  <2>1. stopsLeft <= MaxStops /\ Stopped \in Nat
    BY <1>1, RowTypes DEF RemindTypes
  <2> QED
    BY <1>1, <2>1, RemindersAssumption DEF Stopped
<1>5. RemindTypes'
  <2>1. \A q \in ReminderSweepers :
          /\ \A i \in DOMAIN reminding'[q].todo : reminding'[q].todo[i].row \in DOMAIN reminders
          /\ reminding'[q].todo = << >> => reminding'[q].person = 1
    BY <1>1, <1>2, <1>3 DEF RemindTypes, Sweeping
  <2> QED
    BY <1>1, <1>3, <1>4, <2>1 DEF RemindTypes, Sweeping
<1>6. ASSUME ~met PROVE Orderly'
  <2>1. Orderly /\ \A q \in ReminderSweepers : Sweeping(q) => q = s
    BY <1>1, <1>6 DEF RemindInv, Orderly, OneAtWork
  <2>2. AllRest'
    BY <1>2, <1>3, <2>1 DEF AllRest, Sweeping
  <2>3. MarkedTold'
    BY <1>1, <2>1 DEF Orderly, MarkedTold, Here
  <2>4. \A r \in 1..MaxRows, d \in Dues, i \in 1..People :
          told[r][d][i] <= armed[r][d] + Stopped' /\ told[r][d][i] + 1 <= armed[r][d] + Stopped'
    <3> SUFFICES ASSUME NEW r \in 1..MaxRows, NEW d \in Dues, NEW i \in 1..People
                 PROVE  told[r][d][i] <= armed[r][d] + Stopped' /\ told[r][d][i] + 1 <= armed[r][d] + Stopped'
      OBVIOUS
    <3>1. told[r][d][i] <= armed[r][d] + Stopped
      BY <2>1 DEF Orderly, Counted
    <3>2. told[r][d][i] \in Nat /\ armed[r][d] \in Nat
      BY <1>1, RowTypes
    <3> QED
      BY <1>4, <3>1, <3>2
  <2>5. Counted'
    BY <1>1, <2>4 DEF Counted
  <2>6. OneLeft'
    <3>1. Here \subseteq 1..MaxRows
      BY <1>1, RowTypes DEF Here
    <3> QED
      BY <1>1, <2>4, <3>1 DEF OneLeft, Here
  <2> QED
    BY <2>2, <2>3, <2>5, <2>6, ThenAllRest DEF Orderly
<1> QED
  BY <1>1, <1>5, <1>6 DEF RemindInv

-----------------------------------------------------------------------------
(* The edit                                                                   *)

(* Between its statements no sweep is under way, unless they have met.        *)
LEMMA EditorAlone ==
  ASSUME RemindInv, ~met, saving.step = "sync"
  PROVE  AllRest /\ Orderly
<1>1. saving # NothingSaved
  BY DEF NothingSaved
<1> QED
  BY <1>1 DEF RemindInv, Orderly, OneAtWork, AllRest

(* Arming takes no arming back.                                               *)
LEMMA ArmAdds ==
  ASSUME RemindTypes, NEW rows, NEW date \in Dues \union {NoDue}, Arm(rows, date)
  PROVE  /\ armed' \in [1..MaxRows -> [Dues -> Nat]]
         /\ \A r \in 1..MaxRows, d \in Dues :
              /\ armed[r][d] \in Nat /\ armed'[r][d] \in Nat /\ armed[r][d] <= armed'[r][d]
              /\ r \in rows /\ d = date => armed'[r][d] = armed[r][d] + 1
              /\ r \notin rows => armed'[r][d] = armed[r][d]
<1>1. armed \in [1..MaxRows -> [Dues -> Nat]]
  BY DEF RemindTypes
<1>2. \A r \in 1..MaxRows, d \in Dues : armed[r][d] \in Nat
  BY RowTypes
<1>3. CASE date = NoDue
  <2>1. armed' = armed
    BY <1>3 DEF Arm
  <2> QED
    BY <1>1, <1>2, <1>3, <2>1, RemindersAssumption
<1>4. CASE date # NoDue
  <2>1. armed' = [r \in 1..MaxRows |-> IF r \in rows THEN [armed[r] EXCEPT ![date] = @ + 1] ELSE armed[r]]
    BY <1>4 DEF Arm
  <2>2. date \in Dues
    BY <1>4
  <2>3. ASSUME NEW r \in 1..MaxRows
        PROVE  /\ armed'[r] \in [Dues -> Nat]
               /\ r \in rows => armed'[r][date] = armed[r][date] + 1
               /\ r \in rows => \A d \in Dues \ {date} : armed'[r][d] = armed[r][d]
               /\ r \notin rows => armed'[r] = armed[r]
    <3>1. PICK f \in [Dues -> Nat] : f = armed[r]
      BY <1>1
    <3>2. PICK n \in Nat : n = f[date] + 1
      BY <2>2
    <3>3. armed'[r] = IF r \in rows THEN [f EXCEPT ![date] = n] ELSE f
      BY <2>1, <3>1, <3>2
    <3> QED
      BY <2>2, <3>1, <3>2, <3>3
  <2>4. armed' \in [1..MaxRows -> [Dues -> Nat]]
    BY <2>1, <2>3
  <2>5. \A n \in Nat : n <= n /\ n <= n + 1 /\ n + 1 \in Nat
    OBVIOUS
  <2> QED
    BY <1>2, <2>2, <2>3, <2>4, <2>5
<1> QED
  BY <1>3, <1>4

(* A new date arms every reminder; the same date changes nothing.             *)
LEMMA SaveDueKeeps ==
  ASSUME RemindInv, NEW date \in Dues \union {NoDue}, NEW befores \in SUBSET Befores, SaveDue(date, befores)
  PROVE  RemindInv'
<1>1. PICK rows : rows = IF date # due THEN Here ELSE {}
  OBVIOUS
<1>2. /\ RemindTypes /\ saving = NothingSaved /\ due' = date
      /\ saving' = [step |-> "sync", before |-> befores, changed |-> date # due]
      /\ met' = (met \/ \E s \in ReminderSweepers : Sweeping(s))
      /\ Arm(rows, date) /\ UNCHANGED <<reminders, reminding, stopsLeft, told>>
  BY <1>1 DEF SaveDue, RemindInv
<1>3. /\ armed' \in [1..MaxRows -> [Dues -> Nat]]
      /\ \A r \in 1..MaxRows, d \in Dues :
           /\ armed[r][d] \in Nat /\ armed'[r][d] \in Nat /\ armed[r][d] <= armed'[r][d]
           /\ r \in rows /\ d = date => armed'[r][d] = armed[r][d] + 1
           /\ r \notin rows => armed'[r][d] = armed[r][d]
  BY <1>2, ArmAdds
<1>4. RemindTypes'
  <2>1. saving' \in [step : {"idle", "sync"}, before : SUBSET Befores, changed : BOOLEAN]
    BY <1>2
  <2>2. met' \in BOOLEAN
    BY <1>2 DEF RemindTypes
  <2> QED
    BY <1>2, <1>3, <2>1, <2>2 DEF RemindTypes, Sweeping
<1>5. ASSUME ~met' PROVE Orderly'
  <2>1. AllRest /\ Orderly /\ ~saving.changed
    BY <1>2, <1>5 DEF AllRest, RemindInv, NothingSaved
  <2>2. AllRest'
    BY <1>2, <2>1 DEF AllRest, Sweeping
  <2>3. Here \subseteq 1..MaxRows /\ Here' = Here /\ (saving'.changed <=> date # due)
    BY <1>2, RowTypes DEF Here
  <2>4. MarkedTold'
    BY <1>2, <2>1, <2>3 DEF Orderly, MarkedTold
  <2>5. \A r \in 1..MaxRows, d \in Dues, i \in 1..People :
          told[r][d][i] \in Nat /\ Stopped \in Nat /\ told[r][d][i] <= armed[r][d] + Stopped
    BY <1>2, <2>1, RowTypes DEF Orderly, Counted
  <2>6. Counted'
    <3> SUFFICES ASSUME NEW r \in 1..MaxRows, NEW d \in Dues, NEW i \in 1..People
                 PROVE  told[r][d][i] <= armed'[r][d] + Stopped
      BY <1>2 DEF Counted, Stopped
    <3> QED
      BY <1>3, <2>5
  <2>7. OneLeft'
    <3> SUFFICES ASSUME date \in Dues, NEW r \in Here, ~reminders[r].notified \/ date # due, NEW i \in 1..People
                 PROVE  told[r][date][i] + 1 <= armed'[r][date] + Stopped
      BY <1>2, <2>3 DEF OneLeft, Stopped
    <3>1. CASE date # due
      <4>1. armed'[r][date] = armed[r][date] + 1 /\ armed[r][date] \in Nat
        BY <1>1, <1>3, <2>3, <3>1
      <4>2. /\ told[r][date][i] \in Nat /\ Stopped \in Nat
            /\ told[r][date][i] <= armed[r][date] + Stopped
        BY <2>3, <2>5
      <4> QED
        BY <4>1, <4>2
    <3>2. CASE date = due
      <4>1. armed'[r][date] = armed[r][date]
        BY <1>1, <1>3, <2>3, <3>2
      <4>2. told[r][date][i] + 1 <= armed[r][date] + Stopped
        BY <2>1, <3>2, WhenAllRest DEF Orderly, OneLeft
      <4> QED
        BY <4>1, <4>2
    <3> QED
      BY <3>1, <3>2
  <2> QED
    BY <2>2, <2>4, <2>6, <2>7, ThenAllRest DEF Orderly
<1> QED
  BY <1>4, <1>5 DEF RemindInv

(* A reminder nobody wants any more is deleted.                               *)
LEMMA DropUnwantedKeeps ==
  ASSUME RemindInv, DropUnwanted
  PROVE  RemindInv'
<1>1. PICK n \in Here : reminders' = [reminders EXCEPT ![n].here = FALSE]
  BY DEF DropUnwanted
<1>2. /\ RemindTypes /\ saving.step = "sync"
      /\ UNCHANGED <<due, reminding, saving, stopsLeft, told, armed, met>>
  BY DEF DropUnwanted, RemindInv
<1>3. /\ Len(reminders) \in Nat /\ DOMAIN reminders = 1..Len(reminders) /\ n \in DOMAIN reminders
      /\ \A r \in DOMAIN reminders : reminders[r] \in Stored
  BY <1>2, RowTypes DEF Here
<1>4. /\ DOMAIN reminders' = DOMAIN reminders
      /\ \A r \in DOMAIN reminders : /\ reminders'[r] \in Stored
                                     /\ reminders'[r].notified = reminders[r].notified
                                     /\ reminders'[r].here => reminders[r].here
  BY <1>1, <1>3 DEF Stored
<1>5. reminders' \in Seq(Stored) /\ Len(reminders') = Len(reminders)
  <2>1. reminders' \in [1..Len(reminders) -> Stored]
    BY <1>1, <1>3, <1>4
  <2> QED
    BY <1>3, <2>1, SeqDef, LenProperties
<1>6. RemindTypes'
  BY <1>2, <1>4, <1>5 DEF RemindTypes, Sweeping
<1>7. ASSUME ~met PROVE Orderly'
  <2>1. AllRest /\ Orderly
    BY <1>2, <1>7, EditorAlone
  <2>2. AllRest'
    BY <1>2, <2>1 DEF AllRest, Sweeping
  <2>3. \A r \in Here' : r \in Here /\ reminders'[r].notified = reminders[r].notified
    BY <1>4 DEF Here
  <2>4. MarkedTold'
    BY <1>2, <2>1, <2>3 DEF Orderly, MarkedTold
  <2>5. Counted'
    BY <1>2, <2>1 DEF Orderly, Counted, Stopped
  <2>6. OneLeft'
    BY <1>2, <2>1, <2>3, WhenAllRest DEF Orderly, OneLeft, Stopped
  <2> QED
    BY <2>2, <2>4, <2>5, <2>6, ThenAllRest DEF Orderly
<1> QED
  BY <1>2, <1>6, <1>7 DEF RemindInv

(* A new reminder is armed, and nobody was told of it.                        *)
LEMMA AddMissingKeeps ==
  ASSUME RemindInv, AddMissing
  PROVE  RemindInv'
<1>1. PICK n : n = Len(reminders) + 1
  OBVIOUS
<1>2. PICK before \in saving.before : reminders' = Append(reminders, ReminderRow(before))
  BY DEF AddMissing
<1>3. /\ RemindTypes /\ saving.step = "sync" /\ Len(reminders) < MaxRows
      /\ Arm({Len(reminders')}, due)
      /\ UNCHANGED <<due, reminding, saving, stopsLeft, told, met>>
  BY DEF AddMissing, RemindInv
<1>4. ReminderRow(before) \in Stored
  BY <1>3 DEF RemindTypes, Stored, ReminderRow
<1>5. /\ Len(reminders) \in Nat /\ DOMAIN reminders = 1..Len(reminders) /\ DOMAIN reminders \subseteq 1..MaxRows
      /\ n \in 1..MaxRows /\ n \notin DOMAIN reminders
  BY <1>1, <1>3, RowTypes, RemindersAssumption
<1>6. /\ reminders' \in Seq(Stored) /\ Len(reminders') = n /\ reminders'[n] = ReminderRow(before)
      /\ \A r \in DOMAIN reminders : reminders'[r] = reminders[r]
  BY <1>1, <1>2, <1>3, <1>4, <1>5, AppendProperties DEF RemindTypes
<1>7. DOMAIN reminders' = DOMAIN reminders \union {n} /\ Len(reminders') <= MaxRows
  <2>1. DOMAIN reminders' = 1..n
    BY <1>6, LenProperties
  <2> QED
    BY <1>1, <1>3, <1>5, <1>6, <2>1, RemindersAssumption
<1>8. /\ armed' \in [1..MaxRows -> [Dues -> Nat]]
      /\ \A r \in 1..MaxRows, d \in Dues :
           /\ armed[r][d] \in Nat /\ armed'[r][d] \in Nat /\ armed[r][d] <= armed'[r][d]
           /\ r = n /\ d = due => armed'[r][d] = armed[r][d] + 1
           /\ r # n => armed'[r][d] = armed[r][d]
  <2>1. Arm({n}, due) /\ due \in Dues \union {NoDue}
    BY <1>3, <1>6 DEF RemindTypes
  <2> QED
    BY <1>3, <2>1, ArmAdds
<1>9. RemindTypes'
  BY <1>3, <1>6, <1>7, <1>8 DEF RemindTypes, Sweeping
<1>10. ASSUME ~met PROVE Orderly'
  <2>1. AllRest /\ Orderly
    BY <1>3, <1>10, EditorAlone
  <2>2. AllRest'
    BY <1>3, <2>1 DEF AllRest, Sweeping
  <2>3. /\ \A r \in Here' : r = n \/ (r \in Here /\ reminders'[r] = reminders[r] /\ r # n)
        /\ ~reminders'[n].notified /\ Here \subseteq 1..MaxRows
    BY <1>5, <1>6, <1>7 DEF Here, ReminderRow
  <2>4. MarkedTold'
    BY <1>3, <2>1, <2>3 DEF Orderly, MarkedTold
  <2>5. \A r \in 1..MaxRows, d \in Dues, i \in 1..People :
          /\ told[r][d][i] \in Nat /\ Stopped \in Nat /\ told[r][d][i] <= armed[r][d] + Stopped
          /\ r = n => told[r][d][i] = 0
    BY <1>3, <1>5, <2>1, RowTypes DEF Orderly, Counted, RemindTypes
  <2>6. Counted'
    <3> SUFFICES ASSUME NEW r \in 1..MaxRows, NEW d \in Dues, NEW i \in 1..People
                 PROVE  told[r][d][i] <= armed'[r][d] + Stopped
      BY <1>3 DEF Counted, Stopped
    <3> QED
      BY <1>8, <2>5
  <2>7. OneLeft'
    <3> SUFFICES ASSUME due \in Dues, NEW r \in Here', ~reminders'[r].notified \/ saving.changed, NEW i \in 1..People
                 PROVE  told[r][due][i] + 1 <= armed'[r][due] + Stopped
      BY <1>3 DEF OneLeft, Stopped
    <3>1. CASE r = n
      <4>1. told[r][due][i] = 0 /\ Stopped \in Nat
        BY <1>5, <2>5, <3>1
      <4>2. armed'[r][due] = armed[r][due] + 1 /\ armed[r][due] \in Nat
        BY <1>5, <1>8, <3>1
      <4> QED
        BY <4>1, <4>2
    <3>2. CASE r # n
      <4>1. r \in Here /\ reminders'[r] = reminders[r] /\ armed'[r][due] = armed[r][due]
        BY <1>8, <2>3, <3>2
      <4>2. told[r][due][i] + 1 <= armed[r][due] + Stopped
        BY <2>1, <4>1, WhenAllRest DEF Orderly, OneLeft
      <4> QED
        BY <4>1, <4>2
    <3> QED
      BY <3>1, <3>2
  <2> QED
    BY <2>2, <2>4, <2>6, <2>7, ThenAllRest DEF Orderly
<1> QED
  BY <1>3, <1>9, <1>10 DEF RemindInv

(* After a new date every mark is taken back.                                 *)
LEMMA RearmKeeps ==
  ASSUME RemindInv, Rearm
  PROVE  RemindInv'
<1>1. /\ RemindTypes /\ saving.step = "sync" /\ saving' = NothingSaved
      /\ UNCHANGED <<due, reminding, stopsLeft, told, armed, met>>
      /\ reminders' = IF saving.changed
                        THEN [r \in DOMAIN reminders |-> [reminders[r] EXCEPT !.notified = FALSE]]
                        ELSE reminders
  BY DEF Rearm, Synced, RemindInv
<1>2. /\ Len(reminders) \in Nat /\ DOMAIN reminders = 1..Len(reminders)
      /\ \A r \in DOMAIN reminders : reminders[r] \in Stored
  BY <1>1, RowTypes
<1>3. /\ DOMAIN reminders' = DOMAIN reminders
      /\ \A r \in DOMAIN reminders : /\ reminders'[r] \in Stored /\ reminders'[r].here = reminders[r].here
                                     /\ saving.changed => ~reminders'[r].notified
                                     /\ ~saving.changed => reminders'[r] = reminders[r]
  BY <1>1, <1>2 DEF Stored
<1>4. reminders' \in Seq(Stored) /\ Len(reminders') = Len(reminders)
  <2>1. reminders' \in [1..Len(reminders) -> Stored]
    <3>1. CASE saving.changed
      BY <1>1, <1>2, <1>3, <3>1
    <3>2. CASE ~saving.changed
      BY <1>1, <1>2, <3>2, SeqDef, LenProperties DEF RemindTypes
    <3> QED
      BY <3>1, <3>2
  <2> QED
    BY <1>2, <2>1, SeqDef, LenProperties
<1>5. RemindTypes'
  <2>1. NothingSaved \in [step : {"idle", "sync"}, before : SUBSET Befores, changed : BOOLEAN]
    BY DEF NothingSaved
  <2> QED
    BY <1>1, <1>3, <1>4, <2>1 DEF RemindTypes, Sweeping
<1>6. ASSUME ~met PROVE Orderly'
  <2>1. AllRest /\ Orderly
    BY <1>1, <1>6, EditorAlone
  <2>2. AllRest'
    BY <1>1, <2>1 DEF AllRest, Sweeping
  <2>3. /\ ~NothingSaved.changed
        /\ \A r \in Here' : /\ r \in Here
                            /\ saving.changed => ~reminders'[r].notified
                            /\ ~saving.changed => reminders'[r].notified = reminders[r].notified
    BY <1>3 DEF Here, NothingSaved
  <2>4. MarkedTold'
    BY <1>1, <2>1, <2>3 DEF Orderly, MarkedTold
  <2>5. Counted'
    BY <1>1, <2>1 DEF Orderly, Counted, Stopped
  <2>6. OneLeft'
    BY <1>1, <2>1, <2>3, WhenAllRest DEF Orderly, OneLeft, Stopped
  <2> QED
    BY <2>2, <2>4, <2>5, <2>6, ThenAllRest DEF Orderly
<1> QED
  BY <1>1, <1>5, <1>6 DEF RemindInv

(* Archiving the card and the clock write nothing of this.                    *)
LEMMA ElseKeeps ==
  ASSUME RemindInv, UNCHANGED <<due, reminders, reminding, saving, stopsLeft, told, armed, met>>
  PROVE  RemindInv'
<1>1. RemindTypes'
  BY DEF RemindInv, RemindTypes, Sweeping
<1>2. (\A r, i : BeingTold(r, i) <=> BeingTold(r, i)') /\ Here' = Here
  BY DEF BeingTold, Sweeping, Here
<1>3. Orderly => Orderly'
  BY <1>2 DEF Orderly, OneAtWork, TodoIsDue, TodoOnce, HeadTold, MarkedTold, Counted, OneLeft, Sweeping, Stopped
<1> QED
  BY <1>1, <1>3 DEF RemindInv

-----------------------------------------------------------------------------
LEMMA RemindStep == RemindInv /\ [ReminderNext]_reminderVars => RemindInv'
<1> SUFFICES ASSUME RemindInv, [ReminderNext]_reminderVars PROVE RemindInv'
  OBVIOUS
<1>1. CASE \E s \in ReminderSweepers : SweepStep(s) \/ SweepStops(s)
  BY <1>1, SweepListKeeps, TellKeeps, SweepMarkKeeps, SweepStopKeeps DEF SweepStep
<1>2. CASE \E date \in Dues \union {NoDue}, befores \in SUBSET Befores : SaveDue(date, befores)
  BY <1>2, SaveDueKeeps
<1>3. CASE DropUnwanted \/ AddMissing \/ Rearm
  BY <1>3, DropUnwantedKeeps, AddMissingKeeps, RearmKeeps
<1>4. CASE PutAside \/ Passes \/ UNCHANGED reminderVars
  BY <1>4, ElseKeeps DEF PutAside, Passes, reminderVars
<1> QED
  BY <1>1, <1>2, <1>3, <1>4 DEF ReminderNext

LEMMA OrderlyTells == RemindInv => ToldJustOnce
<1> SUFFICES ASSUME RemindInv PROVE ToldJustOnce
  OBVIOUS
<1>1. RemindTypes /\ DOMAIN reminders \subseteq 1..MaxRows
  BY RowTypes DEF RemindInv
<1>2. MarkedWasTold
  <2>1. due # NoDue => due \in Dues
    BY <1>1 DEF RemindTypes
  <2> QED
    BY <2>1 DEF RemindInv, Orderly, MarkedTold, MarkedWasTold, NothingSaved
<1>3. ToldOncePerDate
  BY <1>1 DEF RemindInv, Orderly, Counted, Stopped, ToldOncePerDate
<1> QED
  BY <1>2, <1>3 DEF ToldJustOnce

(* 07.card.md: "a changed due date makes them all fire again", and each once: *)
(* in every history in which no sweep meets an edit or another sweep, a       *)
(* marked reminder has told everybody of the date the card has, and nobody    *)
(* hears of a date more often than it was set and sweeps stopped half way.    *)
THEOREM EachDateIsToldOnce == ReminderSpec => []ToldJustOnce
<1>1. ReminderSpec => ReminderInit /\ [][ReminderNext]_reminderVars
  BY PTL DEF ReminderSpec
<1>2. ReminderInit /\ [][ReminderNext]_reminderVars => []RemindInv
  BY RemindInitInv, RemindStep, PTL
<1> QED
  BY <1>1, <1>2, OrderlyTells, PTL

-----------------------------------------------------------------------------
(* Bell, for every size of page and every number of requests under way. Ids  *)
(* and seconds grow together, so that older is less.                          *)

(* Of a finite set of numbers: how many are above a member tells the members  *)
(* apart and takes every value.                                               *)
Above(S, c) == {d \in S : c < d}
RanksOf(S) ==
  /\ \A c \in S : Cardinality(Above(S, c)) \in 0..(Cardinality(S) - 1)
  /\ \A c, d \in S : c < d => Cardinality(Above(S, d)) < Cardinality(Above(S, c))
  /\ \A i \in 0..(Cardinality(S) - 1) : \E c \in S : Cardinality(Above(S, c)) = i

LEMMA NumbersRank ==
  ASSUME NEW S, IsFiniteSet(S), S \subseteq Nat
  PROVE  RanksOf(S)
<1> DEFINE n == Cardinality(S)
           rank == [c \in S |-> Cardinality(Above(S, c))]
<1>1. n \in Nat
  BY FS_CardinalityType
<1>2. ASSUME NEW c \in S
      PROVE  IsFiniteSet(Above(S, c)) /\ Cardinality(Above(S, c)) \in 0..(n - 1)
  <2>1. IsFiniteSet(S \ {c}) /\ Cardinality(S \ {c}) = n - 1
    BY FS_RemoveElement
  <2>2. Above(S, c) \in SUBSET (S \ {c})
    BY DEF Above
  <2>3. IsFiniteSet(Above(S, c)) /\ Cardinality(Above(S, c)) <= n - 1
    BY <2>1, <2>2, FS_Subset
  <2>4. Cardinality(Above(S, c)) \in Nat
    BY <2>3, FS_CardinalityType
  <2> QED
    BY <1>1, <2>3, <2>4
<1>3. ASSUME NEW c \in S, NEW d \in S, c < d
      PROVE  Cardinality(Above(S, d)) < Cardinality(Above(S, c))
  <2>1. Above(S, d) \in SUBSET Above(S, c)
    <3>1. \A e \in S : e \in Nat
      OBVIOUS
    <3>2. \A e \in S : d < e => c < e
      BY <1>3, <3>1
    <3> QED
      BY <3>2 DEF Above
  <2>2. d \in Above(S, c) /\ d \notin Above(S, d)
    BY <1>3 DEF Above
  <2>3. Cardinality(Above(S, d)) <= Cardinality(Above(S, c)) /\ Cardinality(Above(S, d)) # Cardinality(Above(S, c))
    BY <1>2, <2>1, <2>2, FS_Subset
  <2>4. Cardinality(Above(S, d)) \in Nat /\ Cardinality(Above(S, c)) \in Nat
    BY <1>2
  <2> QED
    BY <2>3, <2>4
<1>4. ASSUME NEW c \in S, NEW d \in S, Cardinality(Above(S, c)) = Cardinality(Above(S, d))
      PROVE  c = d
  <2>1. Cardinality(Above(S, d)) \in Nat /\ Cardinality(Above(S, c)) \in Nat
    BY <1>2
  <2>2. ~(c < d) /\ ~(d < c)
    BY <1>3, <1>4, <2>1
  <2> QED
    BY <2>2
<1>5. IsFiniteSet(0..(n - 1)) /\ Cardinality(0..(n - 1)) = n
  <2>1. PICK last \in Int : last = n - 1
    BY <1>1
  <2>2. IsFiniteSet(0..last) /\ Cardinality(0..last) = IF 0 > last THEN 0 ELSE last - 0 + 1
    BY FS_Interval
  <2> QED
    BY <1>1, <2>1, <2>2
<1>6. rank \in Injection(S, 0..(n - 1))
  <2>1. rank \in [S -> 0..(n - 1)]
    BY <1>2
  <2>2. \A c, d \in S : rank[c] = rank[d] => c = d
    BY <1>4
  <2> QED
    BY <2>1, <2>2, Fun_IsInj
<1>7. rank \in Surjection(S, 0..(n - 1))
  BY <1>5, <1>6, FS_Injection
<1>8. \A i \in 0..(n - 1) : \E c \in S : rank[c] = i
  BY <1>7 DEF Surjection
<1> QED
  BY <1>2, <1>3, <1>8 DEF RanksOf

(* A list of rows there have been, and one of them newest first.              *)
Listed(list) == list \in Seq(Nat) /\ \A i \in 1..Len(list) : list[i] \in 1..Len(noticed)
Descends(list) == \A i, j \in 1..Len(list) : i < j => list[j] < list[i]

LEMMA SetOfList ==
  ASSUME NEW list \in Seq(Nat)
  PROVE  ToSet(list) = {list[i] : i \in 1..Len(list)} /\ ToSet(list) \subseteq Nat /\ Len(list) \in Nat
BY DEF ToSet

LEMMA FirstOfThem ==
  ASSUME NEW list \in Seq(Nat), Descends(list), NEW k \in 0..Len(list)
  PROVE  IsFiniteSet({list[j] : j \in 1..k}) /\ Cardinality({list[j] : j \in 1..k}) = k
<1> DEFINE S == {list[j] : j \in 1..k}
           f == [j \in 1..k |-> list[j]]
<1>1. k \in Nat /\ 1..k \subseteq 1..Len(list) /\ \A j \in 1..Len(list) : list[j] \in Nat
  OBVIOUS
<1>2. IsFiniteSet(1..k) /\ Cardinality(1..k) = k
  BY <1>1, FS_Interval
<1>3. f \in Bijection(1..k, S)
  <2>1. ASSUME NEW i \in 1..k, NEW j \in 1..k, f[i] = f[j] PROVE i = j
    <3>1. list[i] = list[j] /\ list[i] \in Nat /\ list[j] \in Nat
      BY <1>1, <2>1
    <3>2. ~(i < j) /\ ~(j < i)
      BY <1>1, <3>1 DEF Descends
    <3> QED
      BY <3>2
  <2>2. f \in [1..k -> S] /\ \A s \in S : \E j \in 1..k : f[j] = s
    OBVIOUS
  <2> QED
    BY <2>1, <2>2, Fun_IsBij
<1>4. ExistsBijection(1..k, S)
  BY <1>3 DEF ExistsBijection
<1> QED
  BY <1>2, <1>4, FS_Bijection

-----------------------------------------------------------------------------
BellRow == [at : Nat, card : BellCards \cup {TheBoard}, read : BOOLEAN, there : BOOLEAN]

RowsInOrder ==
  /\ noticed \in Seq(BellRow)
  /\ \A m, n \in 1..Len(noticed) : m < n => noticed[m].at <= noticed[n].at

LEMMA OlderIsLess ==
  ASSUME RowsInOrder, NEW m \in 1..Len(noticed), NEW n \in 1..Len(noticed)
  PROVE  Older(m, n) <=> m < n
<1>1. noticed[m].at \in Nat /\ noticed[n].at \in Nat
  <2>1. noticed[m] \in BellRow /\ noticed[n] \in BellRow
    BY DEF RowsInOrder
  <2> QED
    BY <2>1 DEF BellRow
<1>2. /\ m < n => noticed[m].at <= noticed[n].at
      /\ n < m => noticed[n].at <= noticed[m].at
  BY DEF RowsInOrder
<1>3. m \in Nat /\ n \in Nat
  OBVIOUS
<1> QED
  BY <1>1, <1>2, <1>3 DEF Older

Newest(list, S) ==
  list \in Seq(Nat) /\ ToSet(list) = S /\ Descends(list) /\ Len(list) = Cardinality(S)

LEMMA NewestFirst ==
  ASSUME RowsInOrder, NEW S, S \subseteq 1..Len(noticed)
  PROVE  /\ Newest(NewestNotes(S), S)
         /\ \A list \in Seq(Nat) : ToSet(list) = S /\ Descends(list) => NewestNotes(S) = list
<1> DEFINE n == Cardinality(S)
           rank(c) == Cardinality({d \in S : Older(c, d)})
           read == NewestNotes(S)
<1>1. IsFiniteSet(S) /\ S \subseteq Nat /\ n \in Nat
  <2>1. Len(noticed) \in Nat
    BY DEF RowsInOrder
  <2>2. IsFiniteSet(1..Len(noticed)) /\ S \in SUBSET (1..Len(noticed))
    BY <2>1, FS_Interval
  <2>3. IsFiniteSet(S)
    BY <2>2, FS_Subset
  <2>4. Cardinality(S) \in Nat
    BY <2>3, FS_CardinalityType
  <2> QED
    BY <2>3, <2>4
<1>2. \A c \in S : rank(c) = Cardinality(Above(S, c))
  <2> TAKE c \in S
  <2>1. {d \in S : Older(c, d)} = Above(S, c)
    BY OlderIsLess DEF Above
  <2> QED
    BY <2>1
<1>3. RanksOf(S)
  BY <1>1, NumbersRank
<1>4. read = [i \in 1..n |-> CHOOSE c \in S : rank(c) = i - 1]
  BY DEF NewestNotes
<1>5. \A c \in S : rank(c) \in 0..(n - 1)
  BY <1>2, <1>3 DEF RanksOf
<1>6. \A c, d \in S : c < d => rank(d) < rank(c)
  BY <1>2, <1>3 DEF RanksOf
<1>7. \A i \in 0..(n - 1) : \E c \in S : rank(c) = i
  BY <1>2, <1>3 DEF RanksOf
<1> HIDE DEF n, rank, read
<1>8. ASSUME NEW i \in 1..n PROVE read[i] \in S /\ rank(read[i]) = i - 1
  <2>1. i - 1 \in 0..(n - 1)
    BY <1>1
  <2>2. \E c \in S : rank(c) = i - 1
    BY <1>7, <2>1
  <2> QED
    BY <1>4, <2>2
<1>9. read \in Seq(Nat) /\ Len(read) = n
  <2>1. read \in [1..n -> Nat]
    BY <1>1, <1>4, <1>8
  <2> QED
    BY <1>1, <2>1
<1>10. Descends(read)
  <2> SUFFICES ASSUME NEW i \in 1..n, NEW j \in 1..n, i < j PROVE read[j] < read[i]
    BY <1>9 DEF Descends
  <2>1. read[i] \in S /\ read[j] \in S /\ rank(read[i]) = i - 1 /\ rank(read[j]) = j - 1
    BY <1>8
  <2>2. read[i] # read[j] /\ ~(read[i] < read[j])
    <3>1. i - 1 # j - 1 /\ ~(j - 1 < i - 1)
      BY <1>1
    <3> QED
      BY <1>6, <2>1, <3>1
  <2>3. read[i] \in Nat /\ read[j] \in Nat
    BY <1>1, <2>1
  <2> QED
    BY <2>2, <2>3
<1>11. ToSet(read) = S
  <2>1. ToSet(read) \subseteq S
    BY <1>8, <1>9, SetOfList
  <2>2. ASSUME NEW c \in S PROVE c \in ToSet(read)
    <3>1. PICK i \in 1..n : i - 1 = rank(c)
      BY <1>1, <1>5
    <3>2. read[i] \in S /\ rank(read[i]) = rank(c)
      BY <1>8, <3>1
    <3>3. rank(c) \in Int /\ ~(rank(c) < rank(c))
      BY <1>1, <1>5
    <3>4. ~(read[i] < c) /\ ~(c < read[i])
      BY <1>6, <3>2, <3>3
    <3>5. read[i] \in Nat /\ c \in Nat
      BY <1>1, <3>2
    <3>6. read[i] = c
      BY <3>4, <3>5
    <3> QED
      BY <1>9, <3>6, SetOfList
  <2> QED
    BY <2>1, <2>2
<1>12. ASSUME NEW list \in Seq(Nat), ToSet(list) = S, Descends(list) PROVE read = list
  <2>1. Len(list) = n /\ S = {list[j] : j \in 1..Len(list)}
    <3>1. PICK all : all = {list[j] : j \in 1..Len(list)}
      OBVIOUS
    <3>2. Len(list) \in 0..Len(list)
      OBVIOUS
    <3>3. Cardinality(all) = Len(list)
      BY <1>12, <3>1, <3>2, FirstOfThem
    <3>4. S = all
      BY <1>12, <3>1, SetOfList
    <3> QED
      BY <3>1, <3>3, <3>4 DEF n
  <2>2. ASSUME NEW i \in 1..n PROVE list[i] \in S /\ rank(list[i]) = i - 1
    <3>1. list[i] \in S
      BY <2>1
    <3>2. PICK some : some = {list[j] : j \in 1..(i - 1)}
      OBVIOUS
    <3>3. i - 1 \in 0..Len(list)
      BY <1>1, <2>1
    <3>4. Cardinality(some) = i - 1
      BY <1>12, <3>2, <3>3, FirstOfThem
    <3>5. Above(S, list[i]) = some
      <4>1. ASSUME NEW d \in Above(S, list[i]) PROVE d \in some
        <5>1. PICK j \in 1..n : d = list[j]
          BY <2>1 DEF Above
        <5>2. list[i] < list[j]
          BY <5>1 DEF Above
        <5>3. list[i] \in Nat /\ list[j] \in Nat
          BY <2>1
        <5>4. ~(i < j) /\ i # j
          BY <1>12, <2>1, <5>2, <5>3 DEF Descends
        <5>5. j \in 1..(i - 1)
          BY <1>1, <5>4
        <5> QED
          BY <3>2, <5>1, <5>5
      <4>2. ASSUME NEW j \in 1..(i - 1) PROVE list[j] \in Above(S, list[i])
        <5>1. j \in 1..n /\ j < i
          BY <1>1
        <5>2. list[i] < list[j] /\ list[j] \in S
          BY <1>12, <2>1, <5>1 DEF Descends
        <5> QED
          BY <5>2 DEF Above
      <4> QED
        BY <3>2, <4>1, <4>2
    <3> QED
      BY <1>2, <3>1, <3>4, <3>5
  <2>3. ASSUME NEW i \in 1..n PROVE read[i] = list[i]
    <3>1. rank(read[i]) = i - 1 /\ rank(list[i]) = i - 1 /\ read[i] \in S /\ list[i] \in S /\ i - 1 \in Int
      BY <1>8, <2>2
    <3>2. ~(i - 1 < i - 1)
      BY <1>1
    <3>3. ~(read[i] < list[i])
      BY <1>6, <3>1, <3>2
    <3>4. ~(list[i] < read[i])
      BY <1>6, <3>1, <3>2
    <3>5. read[i] \in Nat /\ list[i] \in Nat
      BY <1>1, <3>1
    <3> QED
      BY <3>3, <3>4, <3>5
  <2>4. read = [i \in 1..n |-> read[i]]
    BY <1>4
  <2>5. list = [i \in 1..n |-> list[i]]
    BY <2>1
  <2> QED
    BY <2>3, <2>4, <2>5
<1> QED
  BY <1>9, <1>10, <1>11, <1>12 DEF Newest, n, read

LEMMA FirstOfList ==
  ASSUME NEW list \in Seq(Nat), NEW k \in Nat
  PROVE  /\ FirstOf(list, k) \in Seq(Nat)
         /\ Len(FirstOf(list, k)) = IF Len(list) < k THEN Len(list) ELSE k
         /\ \A i \in 1..Len(FirstOf(list, k)) : FirstOf(list, k)[i] = list[i]
<1>1. PICK n \in Nat : n = IF Len(list) < k THEN Len(list) ELSE k
  OBVIOUS
<1>2. n <= Len(list) /\ \A i \in 1..n : list[i] \in Nat
  BY <1>1
<1>3. /\ SubSeq(list, 1, n) \in Seq(Nat) /\ Len(SubSeq(list, 1, n)) = IF 1 <= n THEN n - 1 + 1 ELSE 0
      /\ \A i \in 1..n - 1 + 1 : SubSeq(list, 1, n)[i] = list[1 + i - 1]
  BY <1>2, SubSeqProperties
<1>4. FirstOf(list, k) = SubSeq(list, 1, n)
  BY <1>1 DEF FirstOf
<1> HIDE DEF FirstOf
<1>5. Len(FirstOf(list, k)) = n
  BY <1>3, <1>4
<1>6. ASSUME NEW i \in 1..n PROVE FirstOf(list, k)[i] = list[i]
  <2>1. i \in 1..n - 1 + 1 /\ 1 + i - 1 = i
    OBVIOUS
  <2> QED
    BY <1>3, <1>4, <2>1
<1> QED
  BY <1>1, <1>3, <1>4, <1>5, <1>6

(* A page of a set of rows: their newest, and whether there are others.       *)
IsPage(page, more, S) ==
  /\ page \in Seq(Nat) /\ ToSet(page) \subseteq S /\ Descends(page)
  /\ page = << >> => S = {}
  /\ \A n \in S : page # << >> /\ page[Len(page)] <= n => n \in ToSet(page)
  /\ \A n \in S : page # << >> /\ n < page[Len(page)] => more
  /\ more => page # << >> /\ \E n \in S : n < page[Len(page)]

LEMMA PageIsRead ==
  ASSUME RowsInOrder, NEW S, S \subseteq 1..Len(noticed), PageSize \in Nat \ {0}
  PROVE  IsPage(FirstOf(NewestNotes(S), PageSize), Len(NewestNotes(S)) > PageSize, S)
<1>1. PICK found : found = NewestNotes(S)
  OBVIOUS
<1>2. PICK page : page = FirstOf(found, PageSize)
  OBVIOUS
<1>3. found \in Seq(Nat) /\ ToSet(found) = S /\ Descends(found)
  BY <1>1, NewestFirst DEF Newest
<1>4. PICK n \in Nat : n = Len(found)
  BY <1>3
<1>5. PICK k \in Nat : k = IF n < PageSize THEN n ELSE PageSize
  BY <1>4
<1>6. page \in Seq(Nat) /\ Len(page) = k /\ \A i \in 1..k : page[i] = found[i]
  BY <1>2, <1>3, <1>4, <1>5, FirstOfList
<1>7. k <= n /\ (k = 0 => n = 0) /\ (k < n => n > PageSize)
  BY <1>5
<1>8. S = {found[i] : i \in 1..n} /\ ToSet(page) = {page[i] : i \in 1..k}
  BY <1>3, <1>4, <1>6, SetOfList
<1>9. ToSet(page) \subseteq S
  BY <1>6, <1>7, <1>8
<1>10. Descends(page)
  BY <1>3, <1>4, <1>6, <1>7 DEF Descends
<1>11. page = << >> => S = {}
  BY <1>6, <1>7, <1>8
<1>12. ASSUME NEW r \in S, page # << >>
       PROVE  (page[k] <= r => r \in ToSet(page)) /\ (r < page[k] => n > PageSize)
  <2>1. PICK i \in 1..n : r = found[i]
    BY <1>8
  <2>2. k \in 1..n /\ page[k] = found[k] /\ found[k] \in Nat /\ found[i] \in Nat
    BY <1>3, <1>4, <1>6, <1>7, <1>12
  <2>3. CASE i <= k
    <3>1. i \in 1..k /\ page[i] = r
      BY <1>6, <2>1, <2>3
    <3>2. ~(found[i] < found[k])
      BY <1>3, <1>4, <2>2, <2>3 DEF Descends
    <3> QED
      BY <1>8, <2>1, <2>2, <3>1, <3>2
  <2>4. CASE ~(i <= k)
    <3>1. found[i] < found[k]
      BY <1>3, <1>4, <2>2, <2>4 DEF Descends
    <3>2. n > PageSize
      BY <1>7, <2>4
    <3> QED
      BY <2>1, <2>2, <3>1, <3>2
  <2> QED
    BY <2>3, <2>4
<1>13. ASSUME n > PageSize PROVE page # << >> /\ \E r \in S : r < page[k]
  <2>1. k \in 1..n /\ n \in 1..n /\ k < n /\ k > 0
    BY <1>5, <1>13
  <2>2. found[n] < found[k] /\ found[n] \in S
    BY <1>3, <1>4, <1>8, <2>1 DEF Descends
  <2>3. k \in 1..k
    BY <2>1
  <2>4. page[k] = found[k]
    BY <1>6, <2>3
  <2>5. page # << >>
    BY <1>6, <2>1, EmptySeq
  <2>6. found[n] < page[k]
    BY <2>2, <2>4
  <2> QED
    BY <2>2, <2>5, <2>6
<1>14. IsPage(page, n > PageSize, S)
  BY <1>6, <1>9, <1>10, <1>11, <1>12, <1>13 DEF IsPage
<1> QED
  BY <1>1, <1>2, <1>4, <1>14

-----------------------------------------------------------------------------
(* A list that holds every row from its first to its last, which is there.    *)
NoGap(list, more) ==
  list # << >> =>
    /\ list[Len(list)] \in Rows
    /\ \A n \in Rows : n <= list[1] /\ list[Len(list)] <= n => n \in ToSet(list)
    /\ \A n \in Rows : n < list[Len(list)] => more
ListIsWhole(list, more) == Descends(list) /\ NoGap(list, more)
Offers(list, more) == more => list # << >> /\ \E n \in Rows : n < list[Len(list)]

LEMMA FirstPageIsWhole ==
  ASSUME NEW page, NEW more, IsPage(page, more, Rows)
  PROVE  ListIsWhole(page, more) /\ Offers(page, more)
<1>1. page # << >> => Len(page) \in 1..Len(page)
  BY DEF IsPage
<1>2. page # << >> => page[Len(page)] \in Rows
  BY <1>1, SetOfList DEF IsPage
<1> QED
  BY <1>2 DEF IsPage, ListIsWhole, NoGap, Offers

(* The next page goes on from the last row in hand.                           *)
LEMMA NextPageIsWhole ==
  ASSUME NEW list \in Seq(Nat), list # << >>, NEW more, NEW page, NEW after,
         ListIsWhole(list, more), Rows \subseteq Nat,
         IsPage(page, after, {n \in Rows : n < list[Len(list)]})
  PROVE  ListIsWhole(list \o page, after) /\ Offers(list \o page, after)
<1>1. PICK m \in Nat : m = Len(list) /\ m > 0
  OBVIOUS
<1>2. PICK k \in Nat : k = Len(page)
  BY DEF IsPage
<1>3. PICK last \in Nat : last = list[m]
  BY <1>1
<1>4. PICK S : S = {n \in Rows : n < last}
  OBVIOUS
<1>5. IsPage(page, after, S)
  BY <1>1, <1>3, <1>4
<1>6. page \in Seq(Nat) /\ ToSet(page) = {page[i] : i \in 1..k} /\ ToSet(list) = {list[i] : i \in 1..m}
  BY <1>1, <1>2, <1>5, SetOfList DEF IsPage
<1>7. PICK all : all = list \o page
  OBVIOUS
<1>8. /\ all \in Seq(Nat) /\ Len(all) = m + k
      /\ \A i \in 1..m : all[i] = list[i]
      /\ \A i \in 1..k : all[m + i] = page[i]
  <2>1. /\ all \in Seq(Nat) /\ Len(all) = m + k
        /\ \A i \in 1..m + k : all[i] = IF i <= m THEN list[i] ELSE page[i - m]
    BY <1>1, <1>2, <1>6, <1>7, ConcatProperties
  <2>2. \A i \in 1..m : i \in 1..m + k /\ i <= m
    BY <1>1, <1>2
  <2>3. \A i \in 1..k : m + i \in 1..m + k /\ ~(m + i <= m) /\ (m + i) - m = i
    BY <1>1, <1>2
  <2> QED
    BY <2>1, <2>2, <2>3
<1>9. \A i \in 1..k : page[i] \in Rows /\ page[i] \in Nat /\ page[i] < last
  <2> TAKE i \in 1..k
  <2>1. ToSet(page) \subseteq S
    BY <1>5 DEF IsPage
  <2>2. page[i] \in ToSet(page)
    BY <1>6
  <2>3. page[i] \in S
    BY <2>1, <2>2
  <2>4. page[i] \in Rows /\ page[i] < last
    BY <1>4, <2>3
  <2> QED
    BY <2>4
<1>10. \A i \in 1..m : list[i] \in Nat /\ last <= list[i]
  <2> TAKE i \in 1..m
  <2>1. list[i] \in Nat /\ i \in Nat /\ i <= m /\ m \in 1..m
    BY <1>1
  <2>2. i < m => last < list[i]
    BY <1>1, <1>3, <2>1 DEF ListIsWhole, Descends
  <2> QED
    BY <1>3, <2>1, <2>2
<1>11. Descends(all)
  <2> SUFFICES ASSUME NEW i \in 1..(m + k), NEW j \in 1..(m + k), i < j PROVE all[j] < all[i]
    BY <1>8 DEF Descends
  <2>1. CASE j <= m
    <3>1. i \in 1..m /\ j \in 1..m
      BY <2>1
    <3> QED
      BY <1>1, <1>8, <3>1 DEF ListIsWhole, Descends
  <2>2. CASE i <= m /\ ~(j <= m)
    <3>1. PICK d \in 1..k : m + d = j
      BY <2>2
    <3>2. i \in 1..m
      BY <2>2
    <3>3. all[j] = page[d] /\ all[i] = list[i]
      BY <1>8, <3>1, <3>2
    <3>4. page[d] < last /\ last <= list[i] /\ page[d] \in Nat /\ list[i] \in Nat
      BY <1>9, <1>10, <3>2
    <3> QED
      BY <1>3, <3>3, <3>4
  <2>3. CASE ~(i <= m)
    <3>1. PICK c \in 1..k, d \in 1..k : m + c = i /\ m + d = j
      <4>1. i - m \in 1..k /\ j - m \in 1..k /\ m + (i - m) = i /\ m + (j - m) = j
        BY <2>3
      <4> QED
        BY <4>1
    <3>2. all[i] = page[c] /\ all[j] = page[d]
      BY <1>8, <3>1
    <3>3. c < d
      BY <1>1, <1>2, <3>1
    <3> QED
      BY <1>2, <1>5, <3>2, <3>3 DEF IsPage, Descends
  <2> QED
    BY <2>1, <2>2, <2>3
<1>12. CASE k = 0
  <2>1. all = list /\ S = {}
    <3>1. page = << >>
      BY <1>2, <1>6, <1>12, EmptySeq
    <3> QED
      BY <1>5, <1>7, <3>1, ConcatEmptySeq DEF IsPage
  <2>2. NoGap(all, after)
    BY <1>1, <1>3, <1>4, <2>1 DEF ListIsWhole, NoGap
  <2>3. Offers(all, after)
    BY <1>5, <2>1 DEF IsPage, Offers
  <2> QED
    BY <1>7, <1>11, <2>2, <2>3 DEF ListIsWhole
<1>13. CASE k > 0
  <2>1. PICK low \in Nat : low = page[k]
    BY <1>2, <1>6, <1>13
  <2>2. all[Len(all)] = low /\ all[1] = list[1] /\ low \in Rows /\ low < last /\ page # << >>
    <3>1. k \in 1..k /\ 1 \in 1..m /\ Len(all) = m + k
      BY <1>1, <1>8, <1>13
    <3>2. all[m + k] = page[k] /\ all[1] = list[1]
      BY <1>8, <3>1
    <3>3. low \in Rows /\ low < last
      BY <1>9, <2>1, <3>1
    <3>4. page # << >>
      BY <1>2, <1>13, EmptySeq
    <3> QED
      BY <2>1, <3>1, <3>2, <3>3, <3>4
  <2>3. ASSUME NEW n \in Rows, n <= all[1], low <= n PROVE n \in ToSet(all)
    <3>1. ToSet(all) = {all[i] : i \in 1..(m + k)}
      BY <1>8, SetOfList
    <3>2. CASE last <= n
      <4>1. n \in ToSet(list)
        BY <1>1, <1>3, <2>2, <2>3, <3>2 DEF ListIsWhole, NoGap
      <4>2. PICK i \in 1..m : n = list[i]
        BY <1>6, <4>1
      <4> QED
        BY <1>8, <3>1, <4>2
    <3>3. CASE ~(last <= n)
      <4>1. n \in S
        BY <1>4, <3>3
      <4>2. n \in ToSet(page)
        BY <1>2, <1>5, <2>1, <2>2, <2>3, <4>1 DEF IsPage
      <4>3. PICK i \in 1..k : n = page[i]
        BY <1>6, <4>2
      <4>4. m + i \in 1..(m + k)
        OBVIOUS
      <4> QED
        BY <1>8, <3>1, <4>3, <4>4
    <3> QED
      BY <3>2, <3>3
  <2>4. ASSUME NEW n \in Rows, n < low PROVE after
    <3>1. n \in S
      BY <1>4, <2>2, <2>4
    <3> QED
      BY <1>2, <1>5, <2>1, <2>2, <2>4, <3>1 DEF IsPage
  <2>5. NoGap(all, after)
    BY <2>2, <2>3, <2>4 DEF NoGap
  <2>6. Offers(all, after)
    <3>1. after => \E n \in Rows : n < low
      BY <1>2, <1>4, <1>5, <2>1 DEF IsPage
    <3>2. all # << >>
      BY <1>1, <1>8, EmptySeq
    <3> QED
      BY <2>2, <3>1, <3>2 DEF Offers
  <2> QED
    BY <1>7, <1>11, <2>5, <2>6 DEF ListIsWhole
<1> QED
  BY <1>2, <1>12, <1>13

-----------------------------------------------------------------------------
BellCallRow ==
  [kind : {"none", "open", "refresh", "more"}, step : {"idle", "patch", "patched", "rows", "count", "answer"},
   about : BellCards \cup {TheBoard}, from : Nat, page : Seq(Nat), more : BOOLEAN, unread : Nat]

ReadingRow(c) == c.kind \in {"refresh", "more"}
CallTypes ==
  /\ bellCall \in [BellCalls -> BellCallRow]
  /\ \A p \in BellCalls : /\ Listed(bellCall[p].page)
                          /\ ReadingRow(bellCall[p]) <=> bellCall[p].step \in {"rows", "count", "answer"}
OwnTypes ==
  /\ bell \in [list : Seq(Nat), unread : Nat, hasMore : BOOLEAN, loadingMore : BOOLEAN]
  /\ Listed(bell.list)
  /\ staleDot \in BOOLEAN /\ bellCrossed \in BOOLEAN
BellTypes == RowsInOrder /\ OwnTypes /\ CallTypes

(* What the bell will list once a call is answered.                           *)
WillList(c) == IF c.kind = "more" THEN bell.list \o c.page ELSE c.page

(* One call at a time reads; it goes on from the last row in hand, and what   *)
(* it has read leaves no gap.                                                 *)
OneReads == \A p, q \in BellCalls : ReadingRow(bellCall[p]) /\ ReadingRow(bellCall[q]) => p = q
GoesOn == \A q \in BellCalls : bellCall[q].kind = "more" =>
            bell.list # << >> /\ bellCall[q].from = bell.list[Len(bell.list)]
ReadsWhole == \A q \in BellCalls : bellCall[q].step \in {"count", "answer"} =>
                ListIsWhole(WillList(bellCall[q]), bellCall[q].more)
BellIsWhole == ListIsWhole(bell.list, bell.hasMore)
CountIsRight == \A q \in BellCalls : bellCall[q].step = "answer" => bellCall[q].unread = Cardinality(Unread)
OffersAhead == \A q \in BellCalls : bellCall[q].step \in {"count", "answer"} =>
                 Offers(WillList(bellCall[q]), bellCall[q].more)
DotFollows ==
  /\ CountIsRight /\ OffersAhead
  /\ (\A q \in BellCalls : ~ReadingRow(bellCall[q])) =>
       bell.unread = Cardinality(Unread) /\ Offers(bell.list, bell.hasMore)

BellWhole == BellIsWhole /\ OneReads /\ GoesOn /\ ReadsWhole
BellInv == BellTypes /\ (~bellCrossed => BellWhole) /\ (~bellCrossed /\ ~staleDot => DotFollows)

-----------------------------------------------------------------------------
LEMMA ReadsIsReading ==
  ASSUME NEW p \in BellCalls
  PROVE  ReadsBell(p) <=> ReadingRow(bellCall[p])
BY DEF ReadsBell, ReadingRow

LEMMA NoticedLen ==
  ASSUME RowsInOrder
  PROVE  /\ Len(noticed) \in Nat /\ DOMAIN noticed = 1..Len(noticed) /\ Rows \subseteq 1..Len(noticed)
         /\ IsFiniteSet(Unread) /\ Cardinality(Unread) \in Nat
<1>1. Len(noticed) \in Nat /\ DOMAIN noticed = 1..Len(noticed)
  BY DEF RowsInOrder
<1>2. IsFiniteSet(1..Len(noticed))
  BY <1>1, FS_Interval
<1>3. Unread \in SUBSET (1..Len(noticed)) /\ Rows \subseteq 1..Len(noticed)
  BY <1>1 DEF Unread, Rows
<1>4. IsFiniteSet(Unread)
  BY <1>2, <1>3, FS_Subset
<1>5. Cardinality(Unread) \in Nat
  BY <1>4, FS_CardinalityType
<1> QED
  BY <1>1, <1>3, <1>4, <1>5

LEMMA EmptyList == Listed(<< >>)
<1>1. << >> \in Seq(Nat) /\ Len(<< >>) = 0
  OBVIOUS
<1> QED
  BY <1>1 DEF Listed

LEMMA NoCallIsRow ==
  /\ NoBellCall \in BellCallRow /\ ~ReadingRow(NoBellCall) /\ NoBellCall.step = "idle"
  /\ NoBellCall.page = << >> /\ NoBellCall.kind = "none"
<1>1. << >> \in Seq(Nat)
  OBVIOUS
<1> QED
  BY <1>1 DEF NoBellCall, BellCallRow, ReadingRow

(* A call is made, goes on or ends: the others stay what they are.            *)
LEMMA CallMoves ==
  ASSUME CallTypes, NEW p \in BellCalls, NEW row \in BellCallRow, Listed(row.page),
         ReadingRow(row) <=> row.step \in {"rows", "count", "answer"},
         bellCall' = [bellCall EXCEPT ![p] = row], Len(noticed') = Len(noticed)
  PROVE  /\ CallTypes'
         /\ bellCall'[p] = row
         /\ \A q \in BellCalls : q # p => bellCall'[q] = bellCall[q]
<1>1. bellCall' \in [BellCalls -> BellCallRow] /\ bellCall'[p] = row
      /\ \A q \in BellCalls : q # p => bellCall'[q] = bellCall[q]
  BY DEF CallTypes
<1>2. ASSUME NEW q \in BellCalls
      PROVE  /\ Listed(bellCall[q].page)'
             /\ ReadingRow(bellCall[q])' <=> bellCall'[q].step \in {"rows", "count", "answer"}
  <2>1. CASE q = p
    BY <1>1, <2>1 DEF Listed, ReadingRow
  <2>2. CASE q # p
    BY <1>1, <2>2 DEF Listed, ReadingRow, CallTypes
  <2> QED
    BY <2>1, <2>2
<1>3. CallTypes'
  BY <1>1, <1>2 DEF CallTypes
<1> QED
  BY <1>1, <1>3

(* Where nothing was or is deleted, a list stays whole.                       *)
LEMMA StaysWhole ==
  ASSUME NEW list, NEW more, ListIsWhole(list, more), Rows' = Rows
  PROVE  ListIsWhole(list, more)'
BY DEF ListIsWhole, NoGap, Descends

LEMMA OrderStays ==
  ASSUME RowsInOrder, noticed' = noticed
  PROVE  RowsInOrder' /\ Rows' = Rows /\ Unread' = Unread /\ Len(noticed') = Len(noticed)
BY DEF RowsInOrder, Rows, Unread

(* Of the calls, p alone reads from now on.                                   *)
LEMMA AloneReads ==
  ASSUME NEW p \in BellCalls, \A q \in BellCalls : q # p => bellCall'[q] = bellCall[q],
         (\A q \in BellCalls : q # p => ~ReadingRow(bellCall[q])) \/ (OneReads /\ ReadingRow(bellCall[p]))
           \/ (OneReads /\ ~ReadingRow(bellCall'[p]))
  PROVE  OneReads'
<1> SUFFICES ASSUME NEW q \in BellCalls, NEW r \in BellCalls, ReadingRow(bellCall'[q]), ReadingRow(bellCall'[r])
             PROVE  q = r
  BY DEF OneReads, ReadingRow
<1>1. CASE \A s \in BellCalls : s # p => ~ReadingRow(bellCall[s])
  BY <1>1 DEF ReadingRow
<1>2. CASE OneReads /\ ReadingRow(bellCall[p])
  BY <1>2 DEF OneReads, ReadingRow
<1>3. CASE OneReads /\ ~ReadingRow(bellCall'[p])
  BY <1>3 DEF OneReads, ReadingRow
<1> QED
  BY <1>1, <1>2, <1>3

-----------------------------------------------------------------------------
(* A call that reads is asked for while no other does, or answers may cross.  *)
LEMMA AskingKeeps ==
  ASSUME BellInv, NEW p \in BellCalls, NEW kind \in {"refresh", "more"}, NEW from \in Nat, Asking(p, kind, from),
         noticed' = noticed, bell'.list = bell.list, bell'.hasMore = bell.hasMore,
         bell' \in [list : Seq(Nat), unread : Nat, hasMore : BOOLEAN, loadingMore : BOOLEAN], staleDot' \in BOOLEAN,
         kind = "more" => bell.list # << >> /\ from = bell.list[Len(bell.list)]
  PROVE  BellInv'
<1>1. PICK row : row = [NoBellCall EXCEPT !.kind = kind, !.step = "rows", !.from = from]
  OBVIOUS
<1>2. /\ row \in BellCallRow /\ row.kind = kind /\ row.step = "rows" /\ row.from = from /\ row.page = << >>
      /\ ReadingRow(row)
  BY <1>1, NoCallIsRow DEF BellCallRow, NoBellCall, ReadingRow
<1>3. bellCall' = [bellCall EXCEPT ![p] = row]
  BY <1>1 DEF Asking
<1>4. RowsInOrder /\ RowsInOrder' /\ Rows' = Rows /\ Len(noticed') = Len(noticed)
  BY OrderStays DEF BellInv, BellTypes
<1>5. /\ CallTypes' /\ bellCall'[p] = row
      /\ \A q \in BellCalls : q # p => bellCall'[q] = bellCall[q]
  <2>1. Listed(row.page)
    BY <1>2, EmptyList
  <2>2. CallTypes
    BY DEF BellInv, BellTypes
  <2> QED
    BY <1>2, <1>3, <1>4, <2>1, <2>2, CallMoves
<1>6. BellTypes'
  BY <1>4, <1>5 DEF BellInv, BellTypes, OwnTypes, Asking, Listed
<1>7. ASSUME ~bellCrossed' PROVE BellWhole' /\ DotFollows'
  <2>1. BellWhole /\ \A q \in BellCalls : q # p => ~ReadingRow(bellCall[q])
    BY <1>7, ReadsIsReading DEF BellInv, Asking
  <2>2. \A q \in BellCalls : q # p => ~ReadingRow(bellCall'[q]) /\ bellCall'[q].step \notin {"rows", "count", "answer"}
                                      /\ bellCall'[q].kind # "more"
    BY <1>5, <2>1 DEF BellInv, BellTypes, CallTypes, ReadingRow
  <2>3. OneReads'
    BY <1>5, <2>1, AloneReads
  <2>4. GoesOn'
    BY <1>2, <1>5, <2>2 DEF GoesOn
  <2>5. ReadsWhole'
    BY <1>2, <1>5, <2>2 DEF ReadsWhole
  <2>6. BellIsWhole'
    <3>1. PICK list, more : list = bell.list /\ more = bell.hasMore
      OBVIOUS
    <3>2. ListIsWhole(list, more)'
      BY <1>4, <2>1, <3>1, StaysWhole DEF BellWhole, BellIsWhole
    <3> QED
      BY <3>1, <3>2 DEF BellIsWhole
  <2>7. DotFollows'
    BY <1>2, <1>5, <2>2 DEF DotFollows, CountIsRight, OffersAhead, ReadingRow
  <2> QED
    BY <2>3, <2>4, <2>5, <2>6, <2>7 DEF BellWhole
<1> QED
  BY <1>6, <1>7 DEF BellInv

LEMMA RefreshKeeps ==
  ASSUME BellInv, NEW p \in BellCalls, Refresh(p) \/ RefreshAfter(p)
  PROVE  BellInv'
<1>1. Asking(p, "refresh", 0) /\ noticed' = noticed /\ bell' = bell /\ staleDot' = FALSE
  BY DEF Refresh, RefreshAfter
<1>2. bell' \in [list : Seq(Nat), unread : Nat, hasMore : BOOLEAN, loadingMore : BOOLEAN]
  BY <1>1 DEF BellInv, BellTypes, OwnTypes
<1> QED
  BY <1>1, <1>2, AskingKeeps

LEMMA LoadMoreKeeps ==
  ASSUME BellInv, NEW p \in BellCalls, LoadMore(p)
  PROVE  BellInv'
<1>1. bell.list \in Seq(Nat) /\ bell.list # << >>
  BY DEF LoadMore, BellInv, BellTypes, OwnTypes
<1>2. PICK from \in Nat : from = bell.list[Len(bell.list)]
  BY <1>1
<1>3. Asking(p, "more", from) /\ noticed' = noticed /\ staleDot' \in BOOLEAN
  BY <1>2 DEF LoadMore, Last, BellInv, BellTypes, OwnTypes
<1>4. /\ bell' \in [list : Seq(Nat), unread : Nat, hasMore : BOOLEAN, loadingMore : BOOLEAN]
      /\ bell'.list = bell.list /\ bell'.hasMore = bell.hasMore
  BY DEF LoadMore, BellInv, BellTypes, OwnTypes
<1> QED
  BY <1>1, <1>2, <1>3, <1>4, AskingKeeps

(* A call that does not read, or no longer does.                              *)
LEMMA QuietKeeps ==
  ASSUME BellInv, NEW p \in BellCalls, NEW row \in BellCallRow, ~ReadingRow(row), Listed(row.page),
         row.step \in {"idle", "patch", "patched"},
         bellCall' = [bellCall EXCEPT ![p] = row], bellCrossed' = bellCrossed,
         RowsInOrder', Rows' = Rows, Len(noticed') = Len(noticed),
         bell'.list = bell.list, bell'.hasMore = bell.hasMore,
         bell' \in [list : Seq(Nat), unread : Nat, hasMore : BOOLEAN, loadingMore : BOOLEAN],
         staleDot' = TRUE \/ (staleDot' = staleDot /\ noticed' = noticed /\ bell' = bell /\ ~ReadingRow(bellCall[p]))
  PROVE  BellInv'
<1>1. /\ CallTypes' /\ bellCall'[p] = row
      /\ \A q \in BellCalls : q # p => bellCall'[q] = bellCall[q]
  BY CallMoves DEF BellInv, BellTypes
<1>2. BellTypes'
  BY <1>1 DEF BellInv, BellTypes, OwnTypes, Listed
<1>3. row.kind # "more"
  BY DEF ReadingRow
<1>4. ASSUME ~bellCrossed' PROVE BellWhole'
  <2>1. BellWhole
    BY <1>4 DEF BellInv
  <2>2. OneReads'
    BY <1>1, <2>1, AloneReads DEF BellWhole
  <2>3. GoesOn'
    BY <1>1, <1>3, <2>1 DEF GoesOn, BellWhole
  <2>4. ASSUME NEW q \in BellCalls, bellCall'[q].step \in {"count", "answer"}
        PROVE  ListIsWhole(WillList(bellCall[q]), bellCall[q].more)'
    <3>1. bellCall'[q] = bellCall[q]
      BY <1>1, <2>4
    <3>2. PICK list, more : list = WillList(bellCall[q]) /\ more = bellCall[q].more
      OBVIOUS
    <3>3. WillList(bellCall[q])' = list
      BY <3>1, <3>2 DEF WillList
    <3>4. ListIsWhole(list, more)
      BY <2>1, <2>4, <3>1, <3>2 DEF BellWhole, ReadsWhole
    <3>5. ListIsWhole(list, more)'
      BY <3>4, StaysWhole
    <3> QED
      BY <3>1, <3>2, <3>3, <3>5
  <2>5. ReadsWhole'
    BY <2>4 DEF ReadsWhole
  <2>6. BellIsWhole'
    <3>1. PICK list, more : list = bell.list /\ more = bell.hasMore
      OBVIOUS
    <3>2. ListIsWhole(list, more)'
      BY <2>1, <3>1, StaysWhole DEF BellWhole, BellIsWhole
    <3> QED
      BY <3>1, <3>2 DEF BellIsWhole
  <2> QED
    BY <2>2, <2>3, <2>5, <2>6 DEF BellWhole
<1>5. ASSUME ~bellCrossed', ~staleDot' PROVE DotFollows'
  <2>1. DotFollows /\ noticed' = noticed /\ bell' = bell /\ ~ReadingRow(bellCall[p])
    BY <1>5 DEF BellInv
  <2>2. Unread' = Unread
    BY <2>1 DEF Unread, Rows
  <2>3. CountIsRight'
    BY <1>1, <2>1, <2>2 DEF DotFollows, CountIsRight
  <2>4. (\A q \in BellCalls : ~ReadingRow(bellCall'[q])) => \A q \in BellCalls : ~ReadingRow(bellCall[q])
    BY <1>1, <2>1
  <2>5. (\A q \in BellCalls : ~ReadingRow(bellCall[q])') =>
          bell'.unread = Cardinality(Unread') /\ Offers(bell.list, bell.hasMore)'
    BY <2>1, <2>2, <2>4 DEF DotFollows, ReadingRow, Offers
  <2>6. OffersAhead'
    BY <1>1, <2>1 DEF DotFollows, OffersAhead, Offers, WillList
  <2> QED
    BY <2>3, <2>5, <2>6 DEF DotFollows, ReadingRow
<1> QED
  BY <1>2, <1>4, <1>5 DEF BellInv

LEMMA OpenAboutKeeps ==
  ASSUME BellInv, NEW p \in BellCalls, NEW card \in BellCards \cup {TheBoard}, OpenAbout(p, card)
  PROVE  BellInv'
<1>1. PICK row : row = [NoBellCall EXCEPT !.kind = "open", !.step = "patch", !.about = card]
  OBVIOUS
<1>2. row \in BellCallRow /\ ~ReadingRow(row) /\ row.step = "patch" /\ row.page = << >>
  BY <1>1, NoCallIsRow DEF BellCallRow, NoBellCall, ReadingRow
<1>3. bellCall' = [bellCall EXCEPT ![p] = row]
  BY <1>1 DEF OpenAbout
<1>4. noticed' = noticed /\ bell' = bell /\ staleDot' = staleDot /\ bellCrossed' = bellCrossed
  BY DEF OpenAbout
<1>5. RowsInOrder' /\ Rows' = Rows /\ Len(noticed') = Len(noticed)
  BY <1>4, OrderStays DEF BellInv, BellTypes
<1>6. ~ReadingRow(bellCall[p])
  BY DEF OpenAbout, BellInv, BellTypes, CallTypes
<1>7. bell' \in [list : Seq(Nat), unread : Nat, hasMore : BOOLEAN, loadingMore : BOOLEAN]
  BY <1>4 DEF BellInv, BellTypes, OwnTypes
<1> QED
  BY <1>2, <1>3, <1>4, <1>5, <1>6, <1>7, EmptyList, QuietKeeps

LEMMA BellFailsKeeps ==
  ASSUME BellInv, NEW p \in BellCalls, BellFails(p)
  PROVE  BellInv'
<1>1. bellCall' = [bellCall EXCEPT ![p] = NoBellCall] /\ noticed' = noticed /\ staleDot' = TRUE /\ bellCrossed' = bellCrossed
  BY DEF BellFails
<1>2. RowsInOrder' /\ Rows' = Rows /\ Len(noticed') = Len(noticed)
  BY <1>1, OrderStays DEF BellInv, BellTypes
<1>3. PICK loading : bell' = [bell EXCEPT !.loadingMore = loading] /\ loading \in BOOLEAN
  <2>1. bell' = [bell EXCEPT !.loadingMore = bell.loadingMore /\ bellCall[p].kind # "more"]
    BY DEF BellFails, BellInv, BellTypes, OwnTypes
  <2> QED
    BY <2>1
<1>4. /\ bell' \in [list : Seq(Nat), unread : Nat, hasMore : BOOLEAN, loadingMore : BOOLEAN]
      /\ bell'.list = bell.list /\ bell'.hasMore = bell.hasMore
  BY <1>3 DEF BellInv, BellTypes, OwnTypes
<1> QED
  BY <1>1, <1>2, <1>4, NoCallIsRow, EmptyList, QuietKeeps

(* A change of the rows that leaves their order and their seconds.           *)
LEMMA RowsChange ==
  ASSUME RowsInOrder, noticed' = [n \in 1..Len(noticed) |-> noticed'[n]],
         \A n \in 1..Len(noticed) : noticed'[n] \in BellRow /\ noticed'[n].at = noticed[n].at
  PROVE  RowsInOrder' /\ Len(noticed') = Len(noticed)
<1>1. PICK size \in Nat : size = Len(noticed)
  BY NoticedLen
<1>2. PICK rows : rows = noticed'
  OBVIOUS
<1>3. rows = [n \in 1..size |-> rows[n]] /\ \A n \in 1..size : rows[n] \in BellRow
  BY <1>1, <1>2
<1>4. rows \in [1..size -> BellRow]
  BY <1>3
<1>5. rows \in Seq(BellRow) /\ Len(rows) = size
  BY <1>4
<1>6. \A m, n \in 1..size : m < n => rows[m].at <= rows[n].at
  BY <1>1, <1>2 DEF RowsInOrder
<1> QED
  BY <1>1, <1>2, <1>5, <1>6 DEF RowsInOrder

LEMMA MarkReadKeeps ==
  ASSUME BellInv, NEW p \in BellCalls, MarkRead(p)
  PROVE  BellInv'
<1> DEFINE row == [bellCall[p] EXCEPT !.step = "patched"]
           marked(n) == [noticed[n] EXCEPT !.read = @ \/ (noticed[n].there /\ noticed[n].card = bellCall[p].about)]
<1>1. bellCall[p] \in BellCallRow /\ ~ReadingRow(bellCall[p]) /\ Listed(bellCall[p].page)
  BY DEF MarkRead, BellInv, BellTypes, CallTypes
<1>2. /\ row \in BellCallRow /\ ~ReadingRow(row) /\ row.step = "patched" /\ Listed(row.page)
      /\ bellCall' = [bellCall EXCEPT ![p] = row]
  BY <1>1 DEF BellCallRow, ReadingRow, MarkRead, Listed
<1>3. RowsInOrder /\ Len(noticed) \in Nat /\ DOMAIN noticed = 1..Len(noticed)
  BY NoticedLen DEF BellInv, BellTypes
<1>4. ASSUME NEW n \in 1..Len(noticed)
      PROVE  marked(n) \in BellRow /\ marked(n).at = noticed[n].at /\ marked(n).there = noticed[n].there
  <2>1. noticed[n] \in BellRow
    BY <1>3 DEF RowsInOrder
  <2>2. PICK read \in BOOLEAN : read = (noticed[n].read \/ (noticed[n].there /\ noticed[n].card = bellCall[p].about))
    BY <2>1 DEF BellRow
  <2>3. marked(n) = [noticed[n] EXCEPT !.read = read]
    BY <2>1, <2>2 DEF BellRow
  <2> QED
    BY <2>1, <2>3 DEF BellRow
<1>5. noticed' = [n \in DOMAIN noticed |-> marked(n)]
  BY DEF MarkRead
<1> HIDE DEF row, marked
<1>6. RowsInOrder' /\ Len(noticed') = Len(noticed) /\ \A n \in 1..Len(noticed) : noticed'[n] = marked(n)
  <2>1. noticed' = [n \in 1..Len(noticed) |-> noticed'[n]] /\ \A n \in 1..Len(noticed) : noticed'[n] = marked(n)
    BY <1>3, <1>5
  <2>2. \A n \in 1..Len(noticed) : noticed'[n] \in BellRow /\ noticed'[n].at = noticed[n].at
    BY <1>4, <2>1
  <2> QED
    BY <1>3, <2>1, <2>2, RowsChange
<1>7. Rows' = Rows
  <2>1. DOMAIN noticed' = 1..Len(noticed)
    BY <1>3, <1>5
  <2> QED
    BY <1>3, <1>4, <1>6, <2>1 DEF Rows
<1>8. bell' = bell /\ staleDot' = TRUE /\ bellCrossed' = bellCrossed
  BY DEF MarkRead
<1>9. bell' \in [list : Seq(Nat), unread : Nat, hasMore : BOOLEAN, loadingMore : BOOLEAN]
  BY <1>8 DEF BellInv, BellTypes, OwnTypes
<1> QED
  BY <1>2, <1>6, <1>7, <1>8, <1>9, QuietKeeps

LEMMA JoinedIsListed ==
  ASSUME NEW s, Listed(s), NEW t, Listed(t)
  PROVE  Listed(s \o t)
<1>1. s \in Seq(Nat) /\ t \in Seq(Nat) /\ Len(s) \in Nat /\ Len(t) \in Nat
  BY DEF Listed
<1>2. PICK all : all = s \o t
  OBVIOUS
<1>3. /\ all \in Seq(Nat) /\ Len(all) = Len(s) + Len(t)
      /\ \A i \in 1..Len(s) + Len(t) : all[i] = IF i <= Len(s) THEN s[i] ELSE t[i - Len(s)]
  BY <1>1, <1>2, ConcatProperties
<1>4. ASSUME NEW i \in 1..Len(all) PROVE all[i] \in 1..Len(noticed)
  <2>1. i \in Nat /\ (i <= Len(s) => i \in 1..Len(s)) /\ (~(i <= Len(s)) => i - Len(s) \in 1..Len(t))
    BY <1>1, <1>3
  <2> QED
    BY <1>3, <2>1 DEF Listed
<1> QED
  BY <1>2, <1>3, <1>4 DEF Listed

-----------------------------------------------------------------------------
(* A new row is newer than what any list begins with, and may be unread.      *)
LEMMA NoticeKeeps ==
  ASSUME BellInv, NEW card \in BellCards \cup {TheBoard}, Notice(card)
  PROVE  BellInv'
<1>1. PICK second \in 1..MaxNotified :
        /\ second - (IF noticed = << >> THEN 1 ELSE Last(noticed).at) \in {0, 1}
        /\ noticed' = Append(noticed, [at |-> second, card |-> card, read |-> FALSE, there |-> TRUE])
  BY DEF Notice
<1>2. PICK row : row = [at |-> second, card |-> card, read |-> FALSE, there |-> TRUE]
  OBVIOUS
<1>3. RowsInOrder /\ Rows \subseteq 1..Len(noticed) /\ DOMAIN noticed = 1..Len(noticed) /\ noticed \in Seq(BellRow)
  BY NoticedLen DEF BellInv, BellTypes, RowsInOrder
<1>4. PICK size \in Nat : size = Len(noticed)
  BY <1>3, NoticedLen
<1>5. second \in Nat
  OBVIOUS
<1>6. row \in BellRow /\ row.at = second /\ row.there
  BY <1>2, <1>5 DEF BellRow
<1>7. /\ noticed' \in Seq(BellRow) /\ Len(noticed') = size + 1
      /\ \A n \in 1..size : noticed'[n] = noticed[n]
      /\ noticed'[size + 1] = row
  BY <1>1, <1>2, <1>3, <1>4, <1>6, AppendProperties
<1>8. \A n \in 1..size : noticed[n].at \in Nat /\ noticed[n].at <= second
  <2> TAKE n \in 1..size
  <2>1. noticed # << >> /\ size \in 1..size
    BY <1>3, <1>4
  <2>2. noticed[n] \in BellRow /\ noticed[size] \in BellRow
    BY <1>3, <1>4, <2>1
  <2>3. noticed[n].at \in Nat /\ noticed[size].at \in Nat
    BY <2>2 DEF BellRow
  <2>4. noticed[n].at <= noticed[size].at
    <3>1. CASE n = size
      BY <2>3, <3>1
    <3>2. CASE n < size
      BY <1>3, <1>4, <2>1, <3>2 DEF RowsInOrder
    <3> QED
      BY <3>1, <3>2
  <2>5. noticed[size].at <= second
    BY <1>1, <1>4, <1>5, <2>1, <2>3 DEF Last
  <2> QED
    BY <1>5, <2>3, <2>4, <2>5
<1>9. RowsInOrder'
  <2>1. ASSUME NEW m \in 1..(size + 1), NEW n \in 1..(size + 1), m < n PROVE noticed'[m].at <= noticed'[n].at
    <3>1. m \in 1..size
      BY <2>1
    <3>2. CASE n = size + 1
      BY <1>6, <1>7, <1>8, <3>1, <3>2
    <3>3. CASE n # size + 1
      <4>1. n \in 1..size
        BY <3>3
      <4> QED
        BY <1>3, <1>4, <1>7, <2>1, <3>1, <4>1 DEF RowsInOrder
    <3> QED
      BY <3>2, <3>3
  <2> QED
    BY <1>7, <2>1 DEF RowsInOrder
<1>10. Rows' = Rows \cup {size + 1}
  <2>1. DOMAIN noticed' = 1..(size + 1)
    BY <1>7
  <2>2. 1..(size + 1) = 1..size \cup {size + 1} /\ size + 1 \notin 1..size
    OBVIOUS
  <2> QED
    BY <1>3, <1>4, <1>6, <1>7, <2>1, <2>2 DEF Rows
<1>11. \A list : Listed(list) => Listed(list)'
  BY <1>4, <1>7 DEF Listed
<1>12. bell' = bell /\ bellCall' = bellCall /\ bellCrossed' = bellCrossed /\ staleDot' = TRUE
  BY DEF Notice
<1>13. BellTypes'
  <2>1. OwnTypes'
    BY <1>11, <1>12 DEF BellInv, BellTypes, OwnTypes, Listed
  <2>2. CallTypes'
    BY <1>11, <1>12 DEF BellInv, BellTypes, CallTypes, Listed, ReadingRow
  <2> QED
    BY <1>9, <2>1, <2>2 DEF BellTypes
<1>14. ASSUME NEW list, NEW more, list \in Seq(Nat), \A i \in 1..Len(list) : list[i] \in 1..size, ListIsWhole(list, more)
       PROVE  ListIsWhole(list, more)'
  <2>1. ASSUME list # << >> PROVE list[1] \in 1..size /\ list[Len(list)] \in 1..size
    <3>1. Len(list) \in 1..Len(list) /\ 1 \in 1..Len(list)
      BY <1>14, <2>1
    <3> QED
      BY <1>14, <3>1
  <2>2. list # << >> => ~(size + 1 <= list[1]) /\ ~(size + 1 < list[Len(list)])
    BY <2>1
  <2> QED
    BY <1>10, <1>14, <2>2 DEF ListIsWhole, NoGap, Descends
<1>15. ASSUME ~bellCrossed' PROVE BellWhole'
  <2>1. BellWhole
    BY <1>12, <1>15 DEF BellInv
  <2>2. BellIsWhole'
    <3>1. PICK list, more : list = bell.list /\ more = bell.hasMore
      OBVIOUS
    <3>2. ListIsWhole(list, more) /\ Listed(list)
      BY <2>1, <3>1 DEF BellWhole, BellIsWhole, BellInv, BellTypes, OwnTypes
    <3>3. ListIsWhole(list, more)'
      BY <1>4, <1>14, <3>2 DEF Listed
    <3> QED
      BY <1>12, <3>1, <3>3 DEF BellIsWhole
  <2>3. OneReads' /\ GoesOn'
    BY <1>12, <2>1 DEF BellWhole, OneReads, GoesOn, ReadingRow
  <2>4. ASSUME NEW q \in BellCalls, bellCall'[q].step \in {"count", "answer"}
        PROVE  ListIsWhole(WillList(bellCall[q]), bellCall[q].more)'
    <3>1. PICK list, more : list = WillList(bellCall[q]) /\ more = bellCall[q].more
      OBVIOUS
    <3>2. ListIsWhole(list, more)
      BY <1>12, <2>1, <2>4, <3>1 DEF BellWhole, ReadsWhole
    <3>3. Listed(bell.list) /\ Listed(bellCall[q].page)
      BY DEF BellInv, BellTypes, OwnTypes, CallTypes
    <3>4. Listed(list)
      BY <3>1, <3>3, JoinedIsListed DEF WillList
    <3>5. ListIsWhole(list, more)'
      BY <1>4, <1>14, <3>2, <3>4 DEF Listed
    <3>6. WillList(bellCall[q])' = list /\ bellCall'[q].more = more
      BY <1>12, <3>1 DEF WillList
    <3> QED
      BY <3>5, <3>6
  <2> QED
    BY <2>2, <2>3, <2>4 DEF BellWhole, ReadsWhole
<1> QED
  BY <1>12, <1>13, <1>15 DEF BellInv

-----------------------------------------------------------------------------
(* Rows go: a list stays whole if its last row stays.                         *)
LEMMA ForgetKeeps ==
  ASSUME BellInv, NEW card \in BellCards \cup {TheBoard}, Forget(card)
  PROVE  BellInv'
<1> DEFINE left(n) == [noticed[n] EXCEPT !.there = @ /\ noticed[n].card # card]
<1>1. RowsInOrder /\ DOMAIN noticed = 1..Len(noticed) /\ Rows \subseteq 1..Len(noticed)
  BY NoticedLen DEF BellInv, BellTypes
<1>2. noticed' = [n \in DOMAIN noticed |-> left(n)]
  BY DEF Forget
<1>3. ASSUME NEW n \in 1..Len(noticed)
      PROVE  /\ left(n) \in BellRow /\ left(n).at = noticed[n].at
             /\ left(n).there <=> noticed[n].there /\ noticed[n].card # card
  <2>1. noticed[n] \in BellRow
    BY <1>1 DEF RowsInOrder
  <2>2. PICK there \in BOOLEAN : there = (noticed[n].there /\ noticed[n].card # card)
    BY <2>1 DEF BellRow
  <2>3. left(n) = [noticed[n] EXCEPT !.there = there]
    BY <2>1, <2>2 DEF BellRow
  <2> QED
    BY <2>1, <2>2, <2>3 DEF BellRow
<1> HIDE DEF left
<1>4. noticed' = [n \in 1..Len(noticed) |-> noticed'[n]] /\ \A n \in 1..Len(noticed) : noticed'[n] = left(n)
  BY <1>1, <1>2
<1>5. RowsInOrder' /\ Len(noticed') = Len(noticed)
  BY <1>1, <1>3, <1>4, RowsChange
<1>6. Rows' = {n \in Rows : noticed[n].card # card}
  <2>1. DOMAIN noticed' = 1..Len(noticed)
    BY <1>4
  <2> QED
    BY <1>1, <1>3, <1>4, <2>1 DEF Rows
<1>7. /\ bell' = bell /\ bellCall' = bellCall /\ staleDot' = TRUE
      /\ ~bellCrossed' => /\ ~bellCrossed /\ \A q \in BellCalls : ~ReadingRow(bellCall[q])
                          /\ bell.list # << >> => noticed[Last(bell.list)].card # card
  BY ReadsIsReading DEF Forget
<1>8. BellTypes'
  <2>1. bellCrossed' \in BOOLEAN
    BY DEF Forget
  <2>2. OwnTypes'
    BY <1>5, <1>7, <2>1 DEF BellInv, BellTypes, OwnTypes, Listed
  <2>3. CallTypes'
    BY <1>5, <1>7 DEF BellInv, BellTypes, CallTypes, Listed, ReadingRow
  <2> QED
    BY <1>5, <2>2, <2>3 DEF BellTypes
<1>9. ASSUME ~bellCrossed' PROVE BellWhole'
  <2>1. BellWhole
    BY <1>7, <1>9 DEF BellInv
  <2>2. OneReads' /\ GoesOn'
    BY <1>7, <2>1 DEF BellWhole, OneReads, GoesOn, ReadingRow
  <2>3. ReadsWhole'
    BY <1>7, <1>9 DEF ReadsWhole, BellInv, BellTypes, CallTypes
  <2>4. PICK list, more : list = bell.list /\ more = bell.hasMore
    OBVIOUS
  <2>5. ListIsWhole(list, more)
    BY <2>1, <2>4 DEF BellWhole, BellIsWhole
  <2>6. list # << >> => list[Len(list)] \in Rows'
    BY <1>6, <1>7, <1>9, <2>4, <2>5 DEF ListIsWhole, NoGap, Last
  <2>7. ListIsWhole(list, more)'
    BY <1>6, <2>5, <2>6 DEF ListIsWhole, NoGap, Descends
  <2>8. BellIsWhole'
    BY <1>7, <2>4, <2>7 DEF BellIsWhole
  <2> QED
    BY <2>2, <2>3, <2>8 DEF BellWhole
<1> QED
  BY <1>7, <1>8, <1>9 DEF BellInv

-----------------------------------------------------------------------------
(* A page is read: of the newest, or of what is older than the last in hand.  *)
LEMMA ReadRowsKeeps ==
  ASSUME BellInv, NEW p \in BellCalls, ReadRows(p)
  PROVE  BellInv'
<1>1. PICK asked : asked = IF bellCall[p].kind = "more" THEN Before(bellCall[p].from) ELSE Rows
  OBVIOUS
<1>2. PICK page, after : page = FirstOf(NewestNotes(asked), PageSize) /\ after = (Len(NewestNotes(asked)) > PageSize)
  OBVIOUS
<1>3. PICK row : row = [bellCall[p] EXCEPT !.page = page, !.more = after, !.step = "count"]
  OBVIOUS
<1>4. RowsInOrder /\ Rows \subseteq 1..Len(noticed) /\ Rows \subseteq Nat /\ Len(noticed) \in Nat
  <2>1. RowsInOrder /\ Rows \subseteq 1..Len(noticed) /\ Len(noticed) \in Nat
    BY NoticedLen DEF BellInv, BellTypes
  <2> QED
    BY <2>1
<1>5. asked \subseteq Rows
  BY <1>1 DEF Before
<1>6. IsPage(page, after, asked)
  BY <1>2, <1>4, <1>5, BellAssumption, PageIsRead DEF BellAssumption
<1>7. Listed(page)
  <2>1. page \in Seq(Nat) /\ ToSet(page) \subseteq 1..Len(noticed)
    BY <1>4, <1>5, <1>6 DEF IsPage
  <2>2. \A i \in 1..Len(page) : page[i] \in ToSet(page)
    BY <2>1, SetOfList
  <2> QED
    BY <2>1, <2>2 DEF Listed
<1>8. bellCall[p] \in BellCallRow /\ bellCall[p].step = "rows" /\ ReadingRow(bellCall[p]) /\ CallTypes
  BY DEF ReadRows, BellInv, BellTypes, CallTypes
<1>9. after \in BOOLEAN
  BY <1>2
<1>10. /\ row \in BellCallRow /\ row.page = page /\ row.more = after /\ row.step = "count"
       /\ row.kind = bellCall[p].kind /\ row.from = bellCall[p].from /\ ReadingRow(row)
  BY <1>3, <1>7, <1>8, <1>9 DEF BellCallRow, ReadingRow, Listed
<1>11. /\ bellCall' = [bellCall EXCEPT ![p] = row] /\ noticed' = noticed /\ bell' = bell
       /\ staleDot' = staleDot /\ bellCrossed' = bellCrossed
  BY <1>1, <1>2, <1>3 DEF ReadRows
<1>12. RowsInOrder' /\ Rows' = Rows /\ Len(noticed') = Len(noticed)
  BY <1>4, <1>11, OrderStays
<1>13. Listed(row.page)
  BY <1>7, <1>10
<1>14. /\ CallTypes' /\ bellCall'[p] = row
       /\ \A q \in BellCalls : q # p => bellCall'[q] = bellCall[q]
  BY <1>8, <1>10, <1>11, <1>12, <1>13, CallMoves
<1>15. BellTypes'
  BY <1>11, <1>12, <1>14 DEF BellInv, BellTypes, OwnTypes, Listed
<1>16. ASSUME ~bellCrossed' PROVE BellWhole' /\ DotFollows'
  <2>1. BellWhole
    BY <1>11, <1>16 DEF BellInv
  <2>2. \A q \in BellCalls : q # p => ~ReadingRow(bellCall'[q]) /\ bellCall'[q].step \notin {"rows", "count", "answer"}
    BY <1>8, <1>14, <2>1 DEF BellWhole, OneReads, CallTypes
  <2>3. OneReads'
    BY <1>8, <1>14, <2>1, AloneReads DEF BellWhole
  <2>4. GoesOn'
    BY <1>10, <1>11, <1>14, <2>1 DEF BellWhole, GoesOn
  <2>5. BellIsWhole'
    <3>1. PICK list, more : list = bell.list /\ more = bell.hasMore
      OBVIOUS
    <3>2. ListIsWhole(list, more)'
      BY <1>12, <2>1, <3>1, StaysWhole DEF BellWhole, BellIsWhole
    <3> QED
      BY <1>11, <3>1, <3>2 DEF BellIsWhole
  <2>6. ListIsWhole(WillList(row), after) /\ Offers(WillList(row), after)
    <3>1. CASE row.kind # "more"
      <4>1. asked = Rows
        BY <1>1, <1>10, <3>1
      <4>2. ListIsWhole(page, after) /\ Offers(page, after)
        BY <1>6, <4>1, FirstPageIsWhole
      <4> QED
        BY <1>10, <3>1, <4>2 DEF WillList
    <3>2. CASE row.kind = "more"
      <4>1. PICK list, more : list = bell.list /\ more = bell.hasMore
        OBVIOUS
      <4>2. list \in Seq(Nat) /\ list # << >> /\ bellCall[p].from = list[Len(list)] /\ ListIsWhole(list, more)
        BY <1>10, <2>1, <3>2, <4>1 DEF BellWhole, GoesOn, BellIsWhole, BellInv, BellTypes, OwnTypes
      <4>3. PICK last : last = list[Len(list)]
        OBVIOUS
      <4>4. last \in Rows
        BY <4>2, <4>3 DEF ListIsWhole, NoGap
      <4>5. asked = {n \in Rows : Older(n, last)}
        BY <1>1, <1>10, <3>2, <4>2, <4>3, <4>4 DEF Before
      <4>6. \A n \in Rows : Older(n, last) <=> n < last
        BY <1>4, <4>4, OlderIsLess
      <4>7. asked = {n \in Rows : n < list[Len(list)]}
        BY <4>3, <4>5, <4>6
      <4>8. IsPage(page, after, {n \in Rows : n < list[Len(list)]})
        BY <1>6, <4>7
      <4>9. ListIsWhole(list \o page, after) /\ Offers(list \o page, after)
        BY <1>4, <4>2, <4>8, NextPageIsWhole
      <4> QED
        BY <1>10, <3>2, <4>1, <4>9 DEF WillList
    <3> QED
      BY <3>1, <3>2
  <2>7. ReadsWhole'
    <3>1. PICK list : list = WillList(row)
      OBVIOUS
    <3>2. ListIsWhole(list, after)'
      BY <1>12, <2>6, <3>1, StaysWhole
    <3>3. WillList(row)' = list
      BY <1>11, <3>1 DEF WillList
    <3>4. ListIsWhole(WillList(bellCall[p]), bellCall[p].more)'
      BY <1>10, <1>14, <3>2, <3>3 DEF WillList
    <3> QED
      BY <2>2, <3>4 DEF ReadsWhole
  <2>8. OffersAhead'
    <3>1. Offers(WillList(row), after)'
      BY <1>11, <1>12, <2>6 DEF Offers, WillList
    <3>2. Offers(WillList(bellCall[p]), bellCall[p].more)'
      BY <1>10, <1>14, <3>1 DEF WillList
    <3> QED
      BY <2>2, <3>2 DEF OffersAhead
  <2>9. DotFollows'
    BY <1>10, <1>14, <2>2, <2>8 DEF DotFollows, CountIsRight, ReadingRow
  <2> QED
    BY <2>3, <2>4, <2>5, <2>7, <2>9 DEF BellWhole
<1> QED
  BY <1>15, <1>16 DEF BellInv

LEMMA CountUnreadKeeps ==
  ASSUME BellInv, NEW p \in BellCalls, CountUnread(p)
  PROVE  BellInv'
<1>1. PICK count : count = Cardinality(Unread)
  OBVIOUS
<1>2. PICK row : row = [bellCall[p] EXCEPT !.unread = count, !.step = "answer"]
  OBVIOUS
<1>3. RowsInOrder /\ count \in Nat
  BY <1>1, NoticedLen DEF BellInv, BellTypes
<1>4. /\ bellCall[p] \in BellCallRow /\ bellCall[p].step = "count" /\ ReadingRow(bellCall[p]) /\ CallTypes
      /\ Listed(bellCall[p].page)
  BY DEF CountUnread, BellInv, BellTypes, CallTypes
<1>5. /\ row \in BellCallRow /\ row.page = bellCall[p].page /\ row.more = bellCall[p].more /\ row.step = "answer"
      /\ row.kind = bellCall[p].kind /\ row.from = bellCall[p].from /\ row.unread = count /\ ReadingRow(row)
  BY <1>2, <1>3, <1>4 DEF BellCallRow, ReadingRow
<1>6. /\ bellCall' = [bellCall EXCEPT ![p] = row] /\ noticed' = noticed /\ bell' = bell
      /\ staleDot' = staleDot /\ bellCrossed' = bellCrossed
  BY <1>1, <1>2 DEF CountUnread
<1>7. RowsInOrder' /\ Rows' = Rows /\ Unread' = Unread /\ Len(noticed') = Len(noticed)
  BY <1>3, <1>6, OrderStays
<1>8. Listed(row.page)
  BY <1>4, <1>5
<1>9. /\ CallTypes' /\ bellCall'[p] = row
      /\ \A q \in BellCalls : q # p => bellCall'[q] = bellCall[q]
  BY <1>4, <1>5, <1>6, <1>7, <1>8, CallMoves
<1>10. BellTypes'
  BY <1>6, <1>7, <1>9 DEF BellInv, BellTypes, OwnTypes, Listed
<1>11. ASSUME ~bellCrossed' PROVE BellWhole' /\ (~staleDot' => DotFollows')
  <2>1. BellWhole
    BY <1>6, <1>11 DEF BellInv
  <2>2. \A q \in BellCalls : q # p => ~ReadingRow(bellCall'[q]) /\ bellCall'[q].step \notin {"rows", "count", "answer"}
    BY <1>4, <1>9, <2>1 DEF BellWhole, OneReads, CallTypes
  <2>3. OneReads'
    BY <1>4, <1>9, <2>1, AloneReads DEF BellWhole
  <2>4. GoesOn'
    BY <1>5, <1>6, <1>9, <2>1 DEF BellWhole, GoesOn
  <2>5. BellIsWhole'
    <3>1. PICK list, more : list = bell.list /\ more = bell.hasMore
      OBVIOUS
    <3>2. ListIsWhole(list, more)'
      BY <1>7, <2>1, <3>1, StaysWhole DEF BellWhole, BellIsWhole
    <3> QED
      BY <1>6, <3>1, <3>2 DEF BellIsWhole
  <2>6. ReadsWhole'
    <3>1. PICK list, more : list = WillList(bellCall[p]) /\ more = bellCall[p].more
      OBVIOUS
    <3>2. ListIsWhole(list, more)
      BY <1>4, <2>1, <3>1 DEF BellWhole, ReadsWhole
    <3>3. ListIsWhole(list, more)'
      BY <1>7, <3>2, StaysWhole
    <3>4. WillList(bellCall[p])' = list /\ bellCall'[p].more = more
      BY <1>5, <1>6, <1>9, <3>1 DEF WillList
    <3>5. ListIsWhole(WillList(bellCall[p]), bellCall[p].more)'
      BY <3>3, <3>4
    <3> QED
      BY <2>2, <3>5 DEF ReadsWhole
  <2>7. CountIsRight'
    BY <1>1, <1>5, <1>7, <1>9, <2>2 DEF CountIsRight
  <2>8. ASSUME ~staleDot' PROVE OffersAhead'
    <3>1. Offers(WillList(bellCall[p]), bellCall[p].more)
      BY <1>4, <1>6, <1>11, <2>8 DEF BellInv, DotFollows, OffersAhead
    <3>2. Offers(WillList(bellCall[p]), bellCall[p].more)'
      BY <1>5, <1>6, <1>7, <1>9, <3>1 DEF Offers, WillList
    <3> QED
      BY <2>2, <3>2 DEF OffersAhead
  <2>9. ~staleDot' => DotFollows'
    BY <1>5, <1>9, <2>7, <2>8 DEF DotFollows, ReadingRow
  <2> QED
    BY <2>3, <2>4, <2>5, <2>6, <2>9 DEF BellWhole
<1> QED
  BY <1>10, <1>11 DEF BellInv

(* What a further page adds is all of it, in its order: nothing of it is in   *)
(* the list yet.                                                              *)
LEMMA PageIsAdded ==
  ASSUME RowsInOrder, NEW list, Listed(list), NEW page, Listed(page), Descends(list \o page)
  PROVE  NewestNotes(ToSet(page) \ ToSet(list)) = page
<1>1. PICK m \in Nat, k \in Nat : m = Len(list) /\ k = Len(page)
  BY DEF Listed
<1>2. PICK all : all = list \o page
  OBVIOUS
<1>3. /\ list \in Seq(Nat) /\ page \in Seq(Nat)
      /\ ToSet(list) = {list[i] : i \in 1..m} /\ ToSet(page) = {page[i] : i \in 1..k}
  BY <1>1, SetOfList DEF Listed
<1>4. /\ Len(all) = m + k
      /\ \A i \in 1..m : all[i] = list[i]
      /\ \A i \in 1..k : all[m + i] = page[i]
  <2>1. /\ all \in Seq(Nat) /\ Len(all) = m + k
        /\ \A i \in 1..m + k : all[i] = IF i <= m THEN list[i] ELSE page[i - m]
    BY <1>1, <1>2, <1>3, ConcatProperties
  <2>2. \A i \in 1..m : i \in 1..m + k /\ i <= m
    BY <1>1
  <2>3. \A i \in 1..k : m + i \in 1..m + k /\ ~(m + i <= m) /\ (m + i) - m = i
    BY <1>1
  <2> QED
    BY <2>1, <2>2, <2>3
<1>5. ASSUME NEW i \in 1..m, NEW j \in 1..k PROVE page[j] < list[i]
  <2>1. i \in 1..(m + k) /\ m + j \in 1..(m + k) /\ i < m + j
    OBVIOUS
  <2>2. all[m + j] < all[i]
    BY <1>2, <1>4, <2>1 DEF Descends
  <2> QED
    BY <1>4, <2>2
<1>6. Descends(page)
  <2> SUFFICES ASSUME NEW i \in 1..k, NEW j \in 1..k, i < j PROVE page[j] < page[i]
    BY <1>1 DEF Descends
  <2>1. m + i \in 1..(m + k) /\ m + j \in 1..(m + k) /\ m + i < m + j
    OBVIOUS
  <2>2. all[m + j] < all[m + i]
    BY <1>2, <1>4, <2>1 DEF Descends
  <2> QED
    BY <1>4, <2>2
<1>7. ToSet(page) \ ToSet(list) = ToSet(page)
  <2>1. ASSUME NEW i \in 1..m, NEW j \in 1..k PROVE page[j] # list[i]
    <3>1. page[j] < list[i] /\ page[j] \in Nat /\ list[i] \in Nat
      BY <1>1, <1>3, <1>5
    <3> QED
      BY <3>1
  <2> QED
    BY <1>3, <2>1
<1>8. ToSet(page) \subseteq 1..Len(noticed)
  BY <1>1, <1>3 DEF Listed
<1> QED
  BY <1>3, <1>6, <1>7, <1>8, NewestFirst

(* What the bell lists is from then on what the call had read.                *)
LEMMA BellAnsweredKeeps ==
  ASSUME BellInv, NEW p \in BellCalls, BellAnswered(p)
  PROVE  BellInv'
<1>1. PICK got : got = bellCall[p]
  OBVIOUS
<1>2. PICK added : added = NewestNotes(ToSet(got.page) \ ToSet(bell.list))
  OBVIOUS
<1>3. /\ got \in BellCallRow /\ got.step = "answer" /\ ReadingRow(got) /\ Listed(got.page) /\ CallTypes
      /\ RowsInOrder /\ Listed(bell.list)
      /\ bell \in [list : Seq(Nat), unread : Nat, hasMore : BOOLEAN, loadingMore : BOOLEAN]
  BY <1>1 DEF BellAnswered, BellInv, BellTypes, OwnTypes, CallTypes
<1>4. /\ bellCall' = [bellCall EXCEPT ![p] = NoBellCall] /\ noticed' = noticed
      /\ staleDot' = staleDot /\ bellCrossed' = bellCrossed
      /\ bell' = IF got.kind = "refresh"
                 THEN [bell EXCEPT !.list = got.page, !.hasMore = got.more, !.unread = got.unread]
                 ELSE [list |-> bell.list \o added, hasMore |-> got.more, unread |-> got.unread, loadingMore |-> FALSE]
  BY <1>1, <1>2 DEF BellAnswered
<1>5. RowsInOrder' /\ Rows' = Rows /\ Unread' = Unread /\ Len(noticed') = Len(noticed)
  BY <1>3, <1>4, OrderStays
<1>6. Listed(NoBellCall.page)
  BY NoCallIsRow, EmptyList
<1>7. /\ CallTypes' /\ bellCall'[p] = NoBellCall
      /\ \A q \in BellCalls : q # p => bellCall'[q] = bellCall[q]
  BY <1>3, <1>4, <1>5, <1>6, NoCallIsRow, CallMoves
<1>8. Listed(added)
  <2>1. PICK S : S = ToSet(got.page) \ ToSet(bell.list)
    OBVIOUS
  <2>2. S \subseteq 1..Len(noticed)
    <3>1. ToSet(got.page) = {got.page[i] : i \in 1..Len(got.page)}
      BY <1>3, SetOfList DEF Listed
    <3> QED
      BY <1>3, <2>1, <3>1 DEF Listed
  <2>3. added \in Seq(Nat) /\ ToSet(added) = S
    BY <1>2, <1>3, <2>1, <2>2, NewestFirst DEF Newest
  <2>4. \A i \in 1..Len(added) : added[i] \in ToSet(added)
    BY <2>3, SetOfList
  <2> QED
    BY <2>2, <2>3, <2>4 DEF Listed
<1>9. PICK all : all = bell.list \o added
  OBVIOUS
<1>10. Listed(all)
  BY <1>3, <1>8, <1>9, JoinedIsListed
<1>11. /\ bell' \in [list : Seq(Nat), unread : Nat, hasMore : BOOLEAN, loadingMore : BOOLEAN]
       /\ bell'.list = (IF got.kind = "refresh" THEN got.page ELSE all)
       /\ bell'.hasMore = got.more /\ bell'.unread = got.unread
  <2>1. got.page \in Seq(Nat) /\ all \in Seq(Nat) /\ got.more \in BOOLEAN /\ got.unread \in Nat
    BY <1>3, <1>10 DEF Listed, BellCallRow
  <2>2. CASE got.kind = "refresh"
    BY <1>3, <1>4, <2>1, <2>2
  <2>3. CASE got.kind # "refresh"
    BY <1>4, <1>9, <2>1, <2>3
  <2> QED
    BY <2>2, <2>3
<1>12. BellTypes'
  <2>1. Listed(bell.list)'
    BY <1>3, <1>5, <1>10, <1>11 DEF Listed
  <2>2. OwnTypes'
    BY <1>4, <1>11, <2>1 DEF BellInv, BellTypes, OwnTypes
  <2> QED
    BY <1>5, <1>7, <2>2 DEF BellTypes
<1>13. ASSUME ~bellCrossed' PROVE BellWhole' /\ bell'.list = WillList(got)
  <2>1. BellWhole
    BY <1>4, <1>13 DEF BellInv
  <2>2. \A q \in BellCalls : ~ReadingRow(bellCall'[q]) /\ bellCall'[q].step \notin {"rows", "count", "answer"}
    BY <1>1, <1>3, <1>7, <2>1, NoCallIsRow DEF BellWhole, OneReads, CallTypes
  <2>3. OneReads' /\ GoesOn' /\ ReadsWhole'
    BY <2>2 DEF OneReads, GoesOn, ReadsWhole, ReadingRow
  <2>4. PICK list, more : list = WillList(got) /\ more = got.more
    OBVIOUS
  <2>5. ListIsWhole(list, more)
    BY <1>1, <1>3, <2>1, <2>4 DEF BellWhole, ReadsWhole
  <2>6. bell'.list = list
    <3>1. CASE got.kind = "refresh"
      BY <1>11, <2>4, <3>1 DEF WillList
    <3>2. CASE got.kind = "more"
      <4>1. Descends(bell.list \o got.page)
        BY <2>4, <2>5, <3>2 DEF WillList, ListIsWhole
      <4>2. added = got.page
        BY <1>2, <1>3, <4>1, PageIsAdded
      <4> QED
        BY <1>9, <1>11, <2>4, <3>2, <4>2 DEF WillList
    <3> QED
      BY <1>3, <3>1, <3>2 DEF ReadingRow
  <2>7. ListIsWhole(list, more)'
    BY <1>5, <2>5, StaysWhole
  <2>8. BellIsWhole'
    BY <1>11, <2>4, <2>6, <2>7 DEF BellIsWhole
  <2> QED
    BY <2>3, <2>4, <2>6, <2>8 DEF BellWhole
<1>14. ASSUME ~bellCrossed', ~staleDot' PROVE DotFollows'
  <2>1. BellWhole /\ CountIsRight /\ OffersAhead
    BY <1>4, <1>14 DEF BellInv, DotFollows
  <2>2. \A q \in BellCalls : bellCall'[q].step \notin {"count", "answer"}
    BY <1>1, <1>3, <1>7, <2>1, NoCallIsRow DEF BellWhole, OneReads, CallTypes
  <2>3. bell'.unread = Cardinality(Unread')
    BY <1>1, <1>3, <1>5, <1>11, <2>1 DEF CountIsRight
  <2>4. Offers(WillList(got), got.more)
    BY <1>1, <1>3, <2>1 DEF OffersAhead
  <2>5. bell'.list = WillList(got)
    BY <1>13, <1>14
  <2>6. Offers(bell.list, bell.hasMore)'
    BY <1>5, <1>11, <2>4, <2>5 DEF Offers
  <2> QED
    BY <2>2, <2>3, <2>6 DEF DotFollows, CountIsRight, OffersAhead
<1> QED
  BY <1>12, <1>13, <1>14 DEF BellInv

-----------------------------------------------------------------------------
LEMMA BellInitInv == (\E made \in FirstRows : BellInit(made)) => BellInv
<1> SUFFICES ASSUME NEW made \in FirstRows, BellInit(made) PROVE BellInv
  OBVIOUS
<1>1. RowsInOrder
  BY DEF BellInit, FirstRows, RowsInOrder, BellRow
<1>2. bell = [list |-> << >>, unread |-> 0, hasMore |-> FALSE, loadingMore |-> FALSE]
  BY DEF BellInit
<1>3. bell.list = << >> /\ << >> \in Seq(Nat) /\ Len(<< >>) = 0
  BY <1>2
<1>4. OwnTypes
  <2>1. bell \in [list : Seq(Nat), unread : Nat, hasMore : BOOLEAN, loadingMore : BOOLEAN]
    BY <1>2, <1>3
  <2>2. Listed(bell.list)
    BY <1>3, EmptyList
  <2>3. staleDot = (made # << >>) /\ bellCrossed = FALSE
    BY DEF BellInit
  <2>4. staleDot \in BOOLEAN
    BY <2>3
  <2>5. bellCrossed \in BOOLEAN
    BY <2>3
  <2> QED
    BY <2>1, <2>2, <2>4, <2>5 DEF OwnTypes
<1>5. \A p \in BellCalls : bellCall[p] = NoBellCall
  BY DEF BellInit
<1>6. CallTypes
  BY <1>5, NoCallIsRow, EmptyList DEF CallTypes, BellInit
<1>7. OneReads /\ GoesOn /\ ReadsWhole
  BY <1>5, NoCallIsRow DEF OneReads, GoesOn, ReadsWhole
<1>8. BellIsWhole
  BY <1>3 DEF BellIsWhole, ListIsWhole, NoGap, Descends
<1>9. ASSUME ~staleDot PROVE DotFollows
  <2>1. made = << >>
    <3>1. staleDot = (made # << >>)
      BY DEF BellInit
    <3> QED
      BY <1>9, <3>1
  <2>2. Unread = {}
    <3>1. noticed = << >>
      BY <2>1 DEF BellInit
    <3>2. Len(noticed) = 0 /\ Unread \subseteq Rows
      BY <1>3, <3>1 DEF Unread
    <3> QED
      BY <1>1, <3>2, NoticedLen
  <2>3. bell.unread = Cardinality(Unread)
    BY <1>2, <2>2, FS_EmptySet
  <2> QED
    BY <1>2, <1>5, <2>3, NoCallIsRow DEF DotFollows, CountIsRight, OffersAhead, Offers
<1> QED
  BY <1>1, <1>4, <1>6, <1>7, <1>8, <1>9 DEF BellInv, BellTypes, BellWhole

LEMMA BellStep == BellInv /\ [BellNext]_bellVars => BellInv'
<1> SUFFICES ASSUME BellInv, [BellNext]_bellVars PROVE BellInv'
  OBVIOUS
<1>1. CASE \E card \in BellCards \cup {TheBoard} : Notice(card) \/ Forget(card)
  BY <1>1, NoticeKeeps, ForgetKeeps
<1>2. ASSUME NEW p \in BellCalls,
             \/ Refresh(p) \/ MarkRead(p) \/ RefreshAfter(p) \/ LoadMore(p)
             \/ ReadRows(p) \/ CountUnread(p) \/ BellAnswered(p) \/ BellFails(p)
      PROVE  BellInv'
  BY <1>2, RefreshKeeps, MarkReadKeeps, LoadMoreKeeps, ReadRowsKeeps, CountUnreadKeeps, BellAnsweredKeeps, BellFailsKeeps
<1>3. ASSUME NEW p \in BellCalls, NEW card \in BellCards \cup {TheBoard}, OpenAbout(p, card) PROVE BellInv'
  BY <1>3, OpenAboutKeeps
<1>4. CASE UNCHANGED bellVars
  <2>1. noticed' = noticed /\ bell' = bell /\ bellCall' = bellCall /\ staleDot' = staleDot /\ bellCrossed' = bellCrossed
    BY <1>4 DEF bellVars
  <2>2. Rows' = Rows /\ Unread' = Unread
    BY <2>1 DEF Rows, Unread
  <2> QED
    BY <2>1, <2>2 DEF BellInv, BellTypes, RowsInOrder, OwnTypes, CallTypes, Listed, ReadingRow, BellWhole, BellIsWhole,
         ListIsWhole, NoGap, Descends, OneReads, GoesOn, ReadsWhole, WillList, DotFollows, CountIsRight,
         OffersAhead, Offers
<1> QED
  BY <1>1, <1>2, <1>3, <1>4 DEF BellNext

LEMMA BellTells == BellInv => BellIsRight
<1> SUFFICES ASSUME BellInv PROVE BellIsRight
  OBVIOUS
<1>1. RowsInOrder /\ Rows \subseteq 1..Len(noticed) /\ Listed(bell.list)
  BY NoticedLen DEF BellInv, BellTypes, OwnTypes
<1>2. ASSUME ~bellCrossed, bell.list # << >>
      PROVE  LET newest == Head(bell.list)  oldest == Last(bell.list)
                 between == {n \in Rows : ~Older(newest, n) /\ ~Older(n, oldest)}
             IN /\ ToSet(bell.list) \intersect Rows = between
                /\ \A i, j \in DOMAIN bell.list : i < j => Older(bell.list[j], bell.list[i])
                /\ {n \in Rows : Older(n, oldest)} # {} => bell.hasMore
  <2>1. PICK list : list = bell.list
    OBVIOUS
  <2>2. PICK size \in Nat : size = Len(list) /\ size > 0
    BY <1>1, <1>2, <2>1 DEF Listed
  <2>3. PICK first \in 1..Len(noticed), last \in 1..Len(noticed) : first = list[1] /\ last = list[size]
    BY <1>1, <2>1, <2>2 DEF Listed
  <2>4. Head(list) = first /\ Last(list) = last /\ DOMAIN list = 1..size
    BY <1>1, <2>1, <2>2, <2>3 DEF Listed, Last
  <2>5. Descends(list) /\ NoGap(list, bell.hasMore)
    BY <1>2, <2>1 DEF BellInv, BellWhole, BellIsWhole, ListIsWhole
  <2>6. \A i \in 1..size : list[i] \in 1..Len(noticed) /\ list[i] <= first /\ last <= list[i]
    <3> TAKE i \in 1..size
    <3>1. list[i] \in 1..Len(noticed) /\ 1 \in 1..size /\ size \in 1..size
      BY <1>1, <2>1, <2>2 DEF Listed
    <3>2. (1 < i => list[i] < list[1]) /\ (i < size => list[size] < list[i])
      BY <2>2, <2>5, <3>1 DEF Descends
    <3>3. list[i] \in Nat /\ first \in Nat /\ last \in Nat
      BY <3>1
    <3> QED
      BY <2>2, <2>3, <3>1, <3>2, <3>3
  <2>7. \A n \in Rows : /\ Older(first, n) <=> first < n
                        /\ Older(n, last) <=> n < last
    BY <1>1, OlderIsLess
  <2>8. PICK between : between = {n \in Rows : ~Older(first, n) /\ ~Older(n, last)}
    OBVIOUS
  <2>9. between = {n \in Rows : ~(first < n) /\ ~(n < last)}
    BY <2>7, <2>8
  <2>10. ToSet(list) = {list[i] : i \in 1..size}
    BY <1>1, <2>1, <2>2, SetOfList DEF Listed
  <2>11. ToSet(list) \intersect Rows \subseteq between
    <3>1. ASSUME NEW i \in 1..size, list[i] \in Rows PROVE ~(first < list[i]) /\ ~(list[i] < last)
      <4>1. list[i] \in Nat /\ first \in Nat /\ last \in Nat /\ list[i] <= first /\ last <= list[i]
        BY <2>6
      <4> QED
        BY <4>1
    <3> QED
      BY <2>9, <2>10, <3>1
  <2>12. between \subseteq ToSet(list) \intersect Rows
    <3> SUFFICES ASSUME NEW n \in Rows, ~(first < n), ~(n < last) PROVE n \in ToSet(list)
      BY <2>9
    <3>1. n \in Nat /\ first \in Nat /\ last \in Nat
      BY <1>1
    <3>2. n <= first /\ last <= n
      BY <3>1
    <3> QED
      BY <1>2, <2>1, <2>2, <2>3, <2>5, <3>2 DEF NoGap
  <2>13. \A i, j \in 1..size : i < j => Older(list[j], list[i])
    BY <1>1, <2>2, <2>5, <2>6, OlderIsLess DEF Descends
  <2>14. {n \in Rows : Older(n, last)} # {} => bell.hasMore
    BY <1>2, <2>1, <2>2, <2>3, <2>5, <2>7 DEF NoGap
  <2> QED
    BY <2>1, <2>4, <2>8, <2>11, <2>12, <2>13, <2>14
<1>3. BellHasNoGap
  BY <1>2 DEF BellHasNoGap
<1>4. DotIsRight
  BY DEF DotIsRight, BellInv, BellTypes, CallTypes, DotFollows
<1>5. OfferIsReal
  <2> SUFFICES ASSUME ~staleDot, ~bellCrossed, bell.hasMore, \A p \in BellCalls : ~ReadsBell(p)
               PROVE  bell.list # << >> /\ \E n \in Rows : Older(n, Last(bell.list))
    BY DEF OfferIsReal
  <2>1. Offers(bell.list, bell.hasMore)
    BY ReadsIsReading DEF BellInv, DotFollows
  <2>2. PICK n \in Rows : bell.list # << >> /\ n < bell.list[Len(bell.list)]
    BY <2>1 DEF Offers
  <2>3. PICK last : last = bell.list[Len(bell.list)]
    OBVIOUS
  <2>4. last \in 1..Len(noticed) /\ Last(bell.list) = last
    BY <1>1, <2>2, <2>3 DEF Listed, Last
  <2>5. Older(n, last)
    BY <1>1, <2>2, <2>3, <2>4, OlderIsLess
  <2> QED
    BY <2>2, <2>4, <2>5
<1> QED
  BY <1>3, <1>4, <1>5 DEF BellIsRight

(* For every size of page, every number of notifications and of requests      *)
(* under way: the bell lists what is there from its newest row to its oldest  *)
(* and offers more if there is an older one; when it has read since anything  *)
(* changed, only then, and its dot counts what is unread (useNotifications,   *)
(* notifications GET).                                                        *)
THEOREM BellTellsWhatThereIs == BellSpec => []BellIsRight
<1>1. BellInv /\ [BellNext]_bellVars => BellInv'
  BY BellStep
<1> QED
  BY <1>1, BellInitInv, BellTells, PTL DEF BellSpec
===============================================================================
