---------------------------- MODULE MCNumbers_proofs ----------------------------
(***************************************************************************)
(* Theorems about the numbers of an outgoing book and their reservations,  *)
(* for any number of documents and of requests in flight: what setNumber   *)
(* keeps as long as numbers are given in turn, whatever is reserved beside *)
(* it, and what a reservation keeps as long as nothing overlaps.           *)
(***************************************************************************)
EXTENDS MCNumbers, TLAPS

numbersVars == <<vars, overlapped, raced, freed>>

TaskRecord == [op : {"none", "setNumber", "reserve", "save"},
               at : {"idle", "check", "write", "commit", "save", "use"},
               docs : SUBSET Document, number : WithZero,
               seen : WithZero, typed : WithZero]

----------------------------------------------------------------------------
(* The inductive invariant.                                                *)

\* Which statements belong to which operation; setNumber is about one document.
Shape(t) ==
    /\ t.op = "none" <=> t.at = "idle"
    /\ t.at \in {"write", "commit"} => t.op = "setNumber"
    /\ t.at = "save" => t.op = "reserve"
    /\ t.at = "use" => t.op = "save"
    /\ t.op = "setNumber" => \E d \in Document : t.docs = {d}

IInv == TypeOK /\ \A r \in Request : Shape(task[r])

OthersOf(num, del, d) == {num[e] : e \in Document \ (del \cup {d})} \ {0}
OwnOf(t, del, d) == IF d \in del THEN {} ELSE {t.number}

\* What setNumber found still holds: the number is no other document's, and the
\* count to be written is free beside it, with nothing skipped.
Checked(t, num, del, fr) ==
    /\ t.at \in {"write", "commit"} => \A d \in t.docs : t.number \notin OthersOf(num, del, d)
    /\ (t.at = "commit" /\ t.number # 0) => \A d \in t.docs :
          /\ t.seen \notin OthersOf(num, del, d) \cup OwnOf(t, del, d)
          /\ \A m \in Numbers : m < t.seen => m \in OthersOf(num, del, d) \cup OwnOf(t, del, d) \cup fr

CountFits ==
    /\ count \notin Given
    /\ \A n \in Numbers : n < count => n \in Given \cup freed

SetInv ==
    ~raced => /\ ~Together({"setNumber"})
              /\ UniqueNumber /\ CountFits
              /\ \A r \in Request : Checked(task[r], number, deleted, freed)

\* A number about to be reserved is on no document.
ReserveInv ==
    ~overlapped => /\ ~Together(AnyOp)
                   /\ \A r \in Request : task[r].at = "save" => task[r].number \notin Written

----------------------------------------------------------------------------
(* What a step does to the tasks.                                          *)

LEMMA Constants == 0 \in WithZero /\ 1 \in WithZero /\ Numbers = WithZero \ {0}
BY OutgoingBookAssumption DEF WithZero, Numbers

LEMMA IdleType == Idle \in TaskRecord /\ Shape(Idle) /\ Idle.op = "none" /\ Idle.at = "idle"
<1>1. Idle \in TaskRecord
  BY Constants DEF Idle, TaskRecord
<1> QED
  BY <1>1 DEF Idle, Shape

\* A request becomes t, and the rest of the invariant is kept.
LEMMA TaskStep ==
    ASSUME IInv, NEW r \in Request, NEW t \in TaskRecord, Shape(t),
           task' = [task EXCEPT ![r] = t]
    PROVE  /\ task' \in [Request -> TaskRecord] /\ \A q \in Request : Shape(task'[q])
           /\ task'[r] = t /\ \A q \in Request \ {r} : task'[q] = task[q]
<1>1. task \in [Request -> TaskRecord] /\ \A q \in Request : Shape(task[q])
  BY DEF IInv, TypeOK, TaskRecord
<1>2. task'[r] = t /\ \A q \in Request \ {r} : task'[q] = task[q]
  BY <1>1
<1> QED
  BY <1>1, <1>2

\* Requests change what they are at; a reservation about to be saved was
\* looked up among the numbers given.
Becomes(r, t) ==
    /\ t \in TaskRecord /\ Shape(t) /\ task' = [task EXCEPT ![r] = t]
    /\ t.at = "save" => t.number \notin Written

\* The form of setNumber as it comes.
Form(d, n) == [Idle EXCEPT !.op = "setNumber", !.at = "check", !.docs = {d}, !.number = n]

\* A document is deleted, unless its row is locked.
Deletes == \E d \in Document \ deleted : ~Locked(d) /\ deleted' = deleted \cup {d}

\* A request that arrives gives no number and changes no count.
LEMMA ArrivalShape ==
    ASSUME IInv, NEW r \in Request, Arrival(r)
    PROVE  /\ UNCHANGED <<number, count>> /\ requests' = requests + 1
           /\ reservation' \in [WithZero -> {"free", "reserved", "used"}]
           /\ \A n \in WithZero : reservation[n] = "free" => reservation'[n] = "free"
           /\ \/ UNCHANGED <<task, deleted>>
              \/ UNCHANGED <<task, reservation>> /\ Deletes
              \/ task[r].at = "idle" /\ UNCHANGED deleted /\ \E t \in TaskRecord :
                    Becomes(r, t) /\ t.at \in {"check", "save", "use"}
<1>t. /\ number \in [Document -> WithZero] /\ count \in WithZero
      /\ reservation \in [WithZero -> {"free", "reserved", "used"}]
  BY DEF IInv, TypeOK
<1>1. CASE OpenForm(r)
  <2>1. PICK d \in Document, n \in Numbers :
          \/ Begin(r, Form(d, n)) \/ Begin(r, [Form(d, n) EXCEPT !.typed = n])
          \/ Begin(r, [Form(d, n) EXCEPT !.number = 0])
    BY <1>1 DEF OpenForm, Form
  <2>2. PICK t \in {Form(d, n), [Form(d, n) EXCEPT !.typed = n],
                    [Form(d, n) EXCEPT !.number = 0]} : Begin(r, t)
    BY <2>1
  <2>3. t \in TaskRecord /\ t.op = "setNumber" /\ t.at = "check" /\ t.docs = {d}
    <3>1. n \in WithZero
      BY Constants
    <3>2. /\ Form(d, n) \in TaskRecord /\ Form(d, n).op = "setNumber"
          /\ Form(d, n).at = "check" /\ Form(d, n).docs = {d}
      BY <3>1, IdleType DEF Form, TaskRecord
    <3> QED
      BY <2>2, <3>1, <3>2, Constants DEF TaskRecord
  <2>4. Becomes(r, t)
    BY <2>2, <2>3, Constants DEF Begin, Becomes, Shape
  <2>5. UNCHANGED <<number, deleted, count, reservation>> /\ requests' = requests + 1
    BY <1>1, <2>2 DEF OpenForm, Begin
  <2> QED
    BY <1>t, <2>2, <2>3, <2>4, <2>5 DEF Begin, At
<1>2. CASE Reserve(r)
  <2>1. PICK n \in Numbers : Begin(r, [Idle EXCEPT !.op = "reserve", !.at = "check",
                                                   !.number = n, !.seen = count])
    BY <1>2 DEF Reserve
  <2> DEFINE t == [Idle EXCEPT !.op = "reserve", !.at = "check",
                               !.number = n, !.seen = count]
  <2>2. t \in TaskRecord /\ t.op = "reserve" /\ t.at = "check"
    BY <1>t, Constants, IdleType DEF TaskRecord
  <2>3. Becomes(r, t)
    BY <2>1, <2>2 DEF Begin, Becomes, Shape
  <2>4. UNCHANGED <<number, deleted, count, reservation>> /\ requests' = requests + 1
    BY <1>2, <2>1 DEF Reserve, Begin
  <2> QED
    BY <1>t, <2>1, <2>2, <2>3, <2>4 DEF Begin, At
<1>3. CASE ReserveNext(r)
  <2>1. PICK n \in WithZero : /\ n \notin Written
                              /\ Begin(r, [Idle EXCEPT !.op = "reserve", !.at = "save",
                                                       !.number = n])
    BY <1>3 DEF ReserveNext, FirstFree
  <2> DEFINE t == [Idle EXCEPT !.op = "reserve", !.at = "save", !.number = n]
  <2>2. t \in TaskRecord /\ t.op = "reserve" /\ t.at = "save" /\ t.number = n
    BY IdleType DEF TaskRecord
  <2>3. Becomes(r, t)
    BY <2>1, <2>2 DEF Begin, Becomes, Shape
  <2>4. UNCHANGED <<number, deleted, count, reservation>> /\ requests' = requests + 1
    BY <1>3, <2>1 DEF ReserveNext, Begin
  <2> QED
    BY <1>t, <2>1, <2>2, <2>3, <2>4 DEF Begin, At
<1>4. CASE Save(r)
  <2>1. PICK d \in Document : Begin(r, [Idle EXCEPT !.op = "save", !.at = "use",
                                                    !.number = number[d]])
    BY <1>4 DEF Save
  <2> DEFINE t == [Idle EXCEPT !.op = "save", !.at = "use", !.number = number[d]]
  <2>2. t \in TaskRecord /\ t.op = "save" /\ t.at = "use"
    BY <1>t, IdleType DEF TaskRecord
  <2>3. Becomes(r, t)
    BY <2>1, <2>2 DEF Begin, Becomes, Shape
  <2>4. UNCHANGED <<number, deleted, count, reservation>> /\ requests' = requests + 1
    BY <1>4, <2>1 DEF Save, Begin
  <2> QED
    BY <1>t, <2>1, <2>2, <2>3, <2>4 DEF Begin, At
<1>5. CASE SetReservation(r)
  BY <1>t, <1>5 DEF SetReservation, Held
<1>6. CASE Delete(r)
  BY <1>t, <1>6 DEF Delete, Deletes
<1> QED
  BY <1>1, <1>2, <1>3, <1>4, <1>5, <1>6 DEF Arrival

\* What the statement of a request in progress does.
LEMMA ProgressShape ==
    ASSUME IInv, NEW r \in Request, Progress(r) \/ Fail(r)
    PROVE  /\ task[r].at # "idle" /\ UNCHANGED <<requests, deleted>>
           /\ reservation' \in [WithZero -> {"free", "reserved", "used"}]
           /\ \A n \in WithZero : (reservation[n] = "free" /\ reservation'[n] # "free")
                                    => task[r].at = "save" /\ n = task[r].number
           /\ \E t \in TaskRecord :
                 /\ Becomes(r, t) /\ (t.at = "idle" \/ t.op = task[r].op)
                 /\ \/ /\ UNCHANGED <<number, count>>
                       /\ Checked(task[r], number, deleted, freed) => Checked(t, number, deleted, freed)
                    \/ Commit(r) /\ t = Idle
<1>t. /\ number \in [Document -> WithZero] /\ count \in WithZero
      /\ reservation \in [WithZero -> {"free", "reserved", "used"}]
      /\ task[r] \in TaskRecord /\ Shape(task[r])
  BY DEF IInv, TypeOK, TaskRecord
<1>e. End(r) => Becomes(r, Idle) /\ Checked(Idle, number, deleted, freed)
  BY IdleType DEF End, Becomes, Checked
<1>1. CASE CheckDuplicate(r)
  <2>1. PICK d \in task[r].docs, n \in WithZero :
          /\ n \notin GivenToOthers(d)
          /\ task' = [task EXCEPT ![r].at = "write", ![r].number = n]
    <3>1. PICK d \in task[r].docs :
            \/ task[r].number \notin GivenToOthers(d) /\ Goto(r, "write")
            \/ \E n \in Numbers :
                   /\ FirstFree(n, task[r].number + 1, Given)
                   /\ task' = [task EXCEPT ![r].at = "write", ![r].number = n]
      BY <1>1 DEF CheckDuplicate
    <3>2. CASE task[r].number \notin GivenToOthers(d) /\ Goto(r, "write")
      <4>1. task[r].number \in WithZero
        BY <1>t DEF TaskRecord
      <4>2. [task[r] EXCEPT !.at = "write", !.number = task[r].number] = [task[r] EXCEPT !.at = "write"]
        BY <1>t DEF TaskRecord
      <4>3. task' = [task EXCEPT ![r].at = "write", ![r].number = task[r].number]
        BY <3>2, <4>2 DEF Goto
      <4> QED
        BY <3>2, <4>1, <4>3
    <3>3. CASE \E n \in Numbers :
                   /\ FirstFree(n, task[r].number + 1, Given)
                   /\ task' = [task EXCEPT ![r].at = "write", ![r].number = n]
      <4>1. PICK n \in Numbers :
                   /\ FirstFree(n, task[r].number + 1, Given)
                   /\ task' = [task EXCEPT ![r].at = "write", ![r].number = n]
        BY <3>3
      <4>2. n \notin GivenToOthers(d)
        BY <1>t, <4>1 DEF FirstFree, Given, GivenToOthers
      <4> QED
        BY <4>1, <4>2, Constants
    <3> QED
      BY <3>1, <3>2, <3>3
  <2> DEFINE t == [task[r] EXCEPT !.at = "write", !.number = n]
  <2>2. /\ t \in TaskRecord /\ t.at = "write" /\ t.number = n
        /\ t.docs = task[r].docs /\ t.op = task[r].op
    BY <1>t DEF TaskRecord
  <2>3. At(r, "check") /\ task[r].op = "setNumber"
    BY <1>1 DEF CheckDuplicate
  <2>4. Shape(t) /\ task[r].docs = {d}
    BY <1>t, <2>1, <2>2, <2>3 DEF Shape
  <2>5. Checked(t, number, deleted, freed)
    BY <2>1, <2>2, <2>4 DEF Checked, GivenToOthers, OthersOf
  <2>6. Becomes(r, t)
    BY <2>1, <2>2, <2>4 DEF Becomes
  <2> QED
    BY <1>1, <1>t, <2>2, <2>3, <2>5, <2>6 DEF CheckDuplicate, At
<1>2. CASE Write(r)
  <2>1. PICK d \in task[r].docs, n \in WithZero :
          /\ task[r].number # 0 =>
                FirstFree(n, 1, GivenToOthers(d) \cup OwnNumber(r, d))
          /\ task' = [task EXCEPT ![r].at = "commit", ![r].seen = n]
    <3>1. PICK d \in task[r].docs :
            \/ task[r].number = 0 /\ Goto(r, "commit")
            \/ \E n \in Numbers :
                  /\ FirstFree(n, 1, GivenToOthers(d) \cup OwnNumber(r, d))
                  /\ task' = [task EXCEPT ![r].at = "commit", ![r].seen = n]
      BY <1>2 DEF Write, FirstNumber
    <3>2. CASE task[r].number = 0 /\ Goto(r, "commit")
      <4>1. task[r].seen \in WithZero
            /\ [task[r] EXCEPT !.at = "commit", !.seen = task[r].seen] = [task[r] EXCEPT !.at = "commit"]
        BY <1>t DEF TaskRecord
      <4>2. task' = [task EXCEPT ![r].at = "commit", ![r].seen = task[r].seen]
        BY <3>2, <4>1 DEF Goto
      <4> QED
        BY <3>2, <4>1, <4>2
    <3> QED
      BY <3>1, <3>2, Constants
  <2> DEFINE t == [task[r] EXCEPT !.at = "commit", !.seen = n]
  <2>2. /\ t \in TaskRecord /\ t.at = "commit" /\ t.number = task[r].number
        /\ t.docs = task[r].docs /\ t.op = task[r].op /\ t.seen = n
    BY <1>t DEF TaskRecord
  <2>3. At(r, "write")
    BY <1>2 DEF Write
  <2>4. Shape(t) /\ task[r].docs = {d}
    BY <1>t, <2>1, <2>2, <2>3 DEF Shape, At
  <2>6. Becomes(r, t)
    BY <2>1, <2>2, <2>4 DEF Becomes
  <2> HIDE DEF t
  <2>7. GivenToOthers(d) = OthersOf(number, deleted, d) /\ OwnNumber(r, d) = OwnOf(t, deleted, d)
    BY <2>2 DEF GivenToOthers, OthersOf, OwnNumber, OwnOf
  <2>8. \A m \in Numbers : m \in WithZero /\ 1 <= m
    BY DEF Numbers, WithZero
  <2>5. Checked(task[r], number, deleted, freed) => Checked(t, number, deleted, freed)
    BY <2>1, <2>2, <2>3, <2>4, <2>7, <2>8 DEF Checked, FirstFree, At
  <2> QED
    BY <1>2, <1>t, <2>2, <2>3, <2>5, <2>6 DEF Write, At
<1>3. CASE Commit(r)
  <2>1. End(r) /\ UNCHANGED <<deleted, reservation, requests>> /\ At(r, "commit")
    BY <1>3 DEF Commit
  <2> QED
    BY <1>3, <1>t, <1>e, <2>1, IdleType DEF At
<1>4. CASE CheckReservation(r)
  <2>1. /\ At(r, "check") /\ task[r].op = "reserve"
        /\ UNCHANGED <<number, deleted, reservation, count, requests>>
        /\ IF CanReserve(task[r].number, task[r].seen) THEN Goto(r, "save") ELSE End(r)
    BY <1>4 DEF CheckReservation
  <2>2. CASE End(r)
    BY <1>t, <1>e, <2>1, <2>2, IdleType DEF At
  <2>3. CASE task[r].number \notin Written /\ Goto(r, "save")
    <3> DEFINE t == [task[r] EXCEPT !.at = "save"]
    <3>1. /\ t \in TaskRecord /\ t.at = "save" /\ t.number = task[r].number
          /\ t.op = task[r].op
      BY <1>t DEF TaskRecord
    <3>2. Becomes(r, t) /\ Checked(t, number, deleted, freed)
      BY <2>1, <2>3, <3>1 DEF Becomes, Shape, Goto, Checked
    <3> QED
      BY <1>t, <2>1, <3>1, <3>2 DEF At
  <2> QED
    BY <2>1, <2>2, <2>3 DEF CanReserve
<1>5. CASE SaveReservation(r)
  <2>1. /\ At(r, "save") /\ End(r) /\ UNCHANGED <<number, deleted, count, requests>>
        /\ IF reservation[task[r].number] = "free"
           THEN reservation' = [reservation EXCEPT ![task[r].number] = "reserved"]
           ELSE UNCHANGED reservation
    BY <1>5 DEF SaveReservation
  <2> QED
    BY <1>t, <1>e, <2>1, IdleType DEF At
<1>6. CASE Use(r)
  <2>1. /\ At(r, "use") /\ End(r) /\ UNCHANGED <<number, deleted, count, requests>>
        /\ reservation' = [reservation EXCEPT ![task[r].number] =
                              IF @ = "reserved" THEN "used" ELSE @]
    BY <1>6 DEF Use
  <2>2. task[r].number \in WithZero
    BY <1>t DEF TaskRecord
  <2>3. /\ reservation' \in [WithZero -> {"free", "reserved", "used"}]
        /\ \A n \in WithZero : reservation[n] = "free" => reservation'[n] = "free"
    BY <1>t, <2>1, <2>2
  <2> QED
    BY <1>t, <1>e, <2>1, <2>3, IdleType DEF At
<1>7. CASE Fail(r)
  BY <1>7, <1>t, <1>e, IdleType DEF Fail, At
<1> QED
  BY <1>1, <1>2, <1>3, <1>4, <1>5, <1>6, <1>7 DEF Progress

----------------------------------------------------------------------------
(* Steps.                                                                  *)

LEMMA InitInv == MCInit => IInv /\ SetInv /\ ReserveInv
<1> SUFFICES ASSUME MCInit PROVE IInv /\ SetInv /\ ReserveInv
  OBVIOUS
<1>1. /\ \A r \in Request : task[r] = Idle
      /\ \A d \in Document : number[d] = 0
      /\ count \in {0, 1} /\ freed = {}
  BY DEF MCInit, Init
<1>2. IInv
  BY <1>1, IdleType, Constants, OutgoingBookAssumption
  DEF MCInit, Init, IInv, TypeOK, TaskRecord, WithZero
<1>3. SetInv
  BY <1>1, IdleType DEF SetInv, Together, UniqueNumber, CountFits, Given, Checked, Numbers
<1>4. ReserveInv
  BY <1>1, IdleType DEF ReserveInv, Together, AnyOp
<1> QED
  BY <1>2, <1>3, <1>4

LEMMA NextIInv == IInv /\ [Next]_vars => IInv'
<1> SUFFICES ASSUME IInv, [Next]_vars PROVE IInv'
  OBVIOUS
<1>1. ASSUME NEW r \in Request, Arrival(r) PROVE IInv'
  <2>1. /\ UNCHANGED <<number, count>> /\ requests' = requests + 1
        /\ reservation' \in [WithZero -> {"free", "reserved", "used"}]
    BY <1>1, ArrivalShape
  <2>3. deleted' \subseteq Document
    BY <1>1, ArrivalShape DEF IInv, TypeOK, Deletes
  <2>2. task' \in [Request -> TaskRecord] /\ \A q \in Request : Shape(task'[q])
    <3>1. CASE UNCHANGED task
      BY <3>1 DEF IInv, TypeOK, TaskRecord
    <3>2. CASE \E t \in TaskRecord : Becomes(r, t)
      BY <3>2, TaskStep DEF Becomes
    <3> QED
      BY <1>1, <3>1, <3>2, ArrivalShape
  <2> QED
    BY <2>1, <2>2, <2>3 DEF IInv, TypeOK, TaskRecord
<1>2. ASSUME NEW r \in Request, Progress(r) \/ Fail(r) PROVE IInv'
  <2>1. /\ UNCHANGED <<requests, deleted>>
        /\ reservation' \in [WithZero -> {"free", "reserved", "used"}]
    BY <1>2, ProgressShape
  <2>2. task' \in [Request -> TaskRecord] /\ \A q \in Request : Shape(task'[q])
    BY <1>2, ProgressShape, TaskStep DEF Becomes
  <2>3. number' \in [Document -> WithZero] /\ count' \in WithZero
    <3>1. CASE UNCHANGED <<number, count>>
      BY <3>1 DEF IInv, TypeOK
    <3>2. CASE Commit(r)
      <4>1. task[r].number \in WithZero /\ task[r].seen \in WithZero
        BY DEF IInv, TypeOK
      <4> QED
        BY <3>2, <4>1 DEF Commit, IInv, TypeOK
    <3> QED
      BY <1>2, <3>1, <3>2, ProgressShape
  <2> QED
    BY <2>1, <2>2, <2>3 DEF IInv, TypeOK, TaskRecord
<1>3. CASE UNCHANGED vars
  BY <1>3 DEF vars, IInv, TypeOK
<1> QED
  BY <1>1, <1>2, <1>3 DEF Next, Quiescent

\* The step of one request among the others, none of which gives a number
\* beside it.
LEMMA AloneSet ==
    ASSUME IInv, ~Together({"setNumber"}), ~Together({"setNumber"})',
           NEW r \in Request, NEW t, Becomes(r, t),
           UNCHANGED <<number, deleted, freed>> \/ task[r].op = "setNumber",
           \A q \in Request : Checked(task[q], number, deleted, freed),
           Checked(t, number', deleted', freed')
    PROVE  \A q \in Request : Checked(task'[q], number', deleted', freed')
<1> SUFFICES ASSUME NEW q \in Request PROVE Checked(task'[q], number', deleted', freed')
  OBVIOUS
<1>1. /\ task'[r] = t /\ \A p \in Request \ {r} : task'[p] = task[p]
      /\ \A p \in Request : Shape(task[p])
  BY TaskStep DEF Becomes, IInv
<1>2. CASE q = r
  BY <1>1, <1>2
<1>3. CASE q # r /\ UNCHANGED <<number, deleted, freed>>
  BY <1>1, <1>3
<1>4. CASE q # r /\ task[r].op = "setNumber"
  <2>1. task[q].op # "setNumber"
    BY <1>4 DEF Together
  <2> QED
    BY <1>1, <1>4, <2>1 DEF Checked, Shape
<1> QED
  BY <1>2, <1>3, <1>4

\* The commit of setNumber: the number was free, and so is the count.
LEMMA CommitKeeps ==
    ASSUME IInv, UniqueNumber, CountFits, freed' = freed \cup (Given \ Given'),
           NEW r \in Request, Checked(task[r], number, deleted, freed), Commit(r)
    PROVE  UniqueNumber' /\ CountFits'
<1>1. At(r, "commit") /\ task[r].op = "setNumber" /\ Shape(task[r])
  BY DEF Commit, IInv, Shape, At
<1>2. PICK d \in Document : task[r].docs = {d}
  BY <1>1 DEF Shape
<1> DEFINE n == task[r].number
           O == OthersOf(number, deleted, d)
           W == OwnOf(task[r], deleted, d)
<1>3. /\ n \notin O /\ UNCHANGED deleted
      /\ number'[d] = n /\ \A e \in Document \ {d} : number'[e] = number[e]
      /\ n = 0 => UNCHANGED count
      /\ n # 0 => /\ count' = task[r].seen /\ count' \notin O \cup W
                  /\ \A m \in Numbers : m < count' => m \in O \cup W \cup freed
  BY <1>1, <1>2 DEF Commit, Checked, At, IInv, TypeOK
<1>4. UniqueNumber'
  BY <1>3 DEF UniqueNumber, OthersOf
<1>5. Given' = (O \cup W) \ {0} /\ 0 \notin O /\ O \subseteq Given
  BY <1>3 DEF Given, OthersOf, OwnOf
<1>6. CASE n = 0
  <2>1. W \subseteq {0}
    BY <1>6 DEF OwnOf
  <2>2. Given' \subseteq Given /\ UNCHANGED count
    BY <1>3, <1>5, <1>6, <2>1
  <2> QED
    BY <1>4, <2>2 DEF CountFits
<1>7. CASE n # 0
  <2> HIDE DEF O, W
  <2>1. 0 \notin Numbers
    BY Constants
  <2> QED
    BY <1>3, <1>4, <1>5, <1>7, <2>1 DEF CountFits
<1> QED
  BY <1>6, <1>7

\* A deletion frees the number of its document; the counts that setNumber has
\* looked up remain free.
LEMMA DeleteKeeps ==
    ASSUME IInv, UniqueNumber, CountFits, UNCHANGED <<number, count, task>>, Deletes,
           freed' = freed \cup (Given \ Given'),
           \A q \in Request : Checked(task[q], number, deleted, freed)
    PROVE  /\ UniqueNumber' /\ CountFits'
           /\ \A q \in Request : Checked(task'[q], number', deleted', freed')
<1>1. PICK x \in Document \ deleted : ~Locked(x) /\ deleted' = deleted \cup {x}
  BY DEF Deletes
<1>2. UniqueNumber'
  BY <1>1 DEF UniqueNumber
<1>3. Given' \subseteq Given
  BY <1>1 DEF Given
<1>4. CountFits'
  BY <1>3 DEF CountFits
<1>5. ASSUME NEW q \in Request PROVE Checked(task'[q], number', deleted', freed')
  <2> DEFINE t == task[q]
             O(d) == OthersOf(number, deleted, d)
             P(d) == OthersOf(number, deleted', d)
  <2>1. \A d \in Document : P(d) \subseteq O(d)
    BY <1>1 DEF OthersOf
  <2>2. /\ Checked(t, number, deleted, freed) /\ t.docs \subseteq Document
        /\ t.at = "commit" => x \notin t.docs
    BY <1>1 DEF Locked, At, IInv, TypeOK
  <2>3. ASSUME NEW d \in Document, d # x PROVE O(d) \subseteq P(d) \cup freed'
    <3> SUFFICES ASSUME NEW m \in O(d), m \notin P(d) PROVE m \in freed'
      OBVIOUS
    <3>1. m = number[x] /\ m # 0
      BY <1>1 DEF OthersOf
    <3>2. m \in Given
      BY <1>1, <3>1 DEF Given
    <3>3. m \notin Given'
      BY <1>1, <3>1 DEF Given, UniqueNumber
    <3> QED
      BY <3>2, <3>3
  <2>4. \A d \in Document : d # x => OwnOf(t, deleted', d) = OwnOf(t, deleted, d)
    BY <1>1 DEF OwnOf
  <2>5. t.at \in {"write", "commit"} => \A d \in t.docs : t.number \notin P(d)
    BY <2>1, <2>2 DEF Checked
  <2>6. ASSUME t.at = "commit", t.number # 0, NEW d \in t.docs
        PROVE  /\ t.seen \notin P(d) \cup OwnOf(t, deleted', d)
               /\ \A m \in Numbers : m < t.seen => m \in P(d) \cup OwnOf(t, deleted', d) \cup freed'
    <3>1. d \in Document /\ d # x /\ freed \subseteq freed'
      BY <2>2, <2>6
    <3>2. /\ t.seen \notin O(d) \cup OwnOf(t, deleted, d)
          /\ \A m \in Numbers : m < t.seen => m \in O(d) \cup OwnOf(t, deleted, d) \cup freed
      BY <2>2, <2>6 DEF Checked
    <3>3. P(d) \subseteq O(d) /\ O(d) \subseteq P(d) \cup freed'
          /\ OwnOf(t, deleted', d) = OwnOf(t, deleted, d)
      BY <2>1, <2>3, <2>4, <3>1
    <3> HIDE DEF O, P
    <3> QED
      BY <3>1, <3>2, <3>3
  <2> QED
    BY <2>5, <2>6 DEF Checked
<1> QED
  BY <1>2, <1>4, <1>5

\* What a step in turn starts from.
LEMMA StillSetting ==
    ASSUME MCNext, ~raced', SetInv
    PROVE  /\ ~raced /\ Next
           /\ ~Together({"setNumber"}) /\ ~Together({"setNumber"})'
           /\ UniqueNumber /\ CountFits /\ freed' = freed \cup (Given \ Given')
           /\ \A r \in Request : Checked(task[r], number, deleted, freed)
<1>1. /\ Next /\ raced' = (raced \/ Together({"setNumber"})')
      /\ freed' = freed \cup (Given \ Given')
  BY DEF MCNext
<1>2. ~raced /\ ~Together({"setNumber"})'
  BY <1>1, Zenon
<1> QED
  BY <1>1, <1>2 DEF SetInv

LEMMA StillAlone ==
    ASSUME MCNext, ~overlapped', ReserveInv
    PROVE  /\ ~overlapped /\ Next /\ ~Together(AnyOp) /\ ~Together(AnyOp)'
           /\ \A r \in Request : task[r].at = "save" => task[r].number \notin Written
<1>1. Next /\ overlapped' = (overlapped \/ Together(AnyOp)')
  BY DEF MCNext
<1>2. ~overlapped /\ ~Together(AnyOp)'
  BY <1>1, Zenon
<1> QED
  BY <1>1, <1>2 DEF ReserveInv

LEMMA NextSetInv == IInv /\ SetInv /\ [MCNext]_numbersVars => SetInv'
<1> SUFFICES ASSUME IInv, SetInv, [MCNext]_numbersVars PROVE SetInv'
  OBVIOUS
<1>1. CASE UNCHANGED numbersVars
  BY <1>1 DEF numbersVars, vars, SetInv, Together, UniqueNumber, CountFits, Given
<1>2. CASE raced'
  BY <1>2 DEF SetInv
<1>3. CASE MCNext /\ ~raced'
  <2>i. /\ Next /\ ~Together({"setNumber"}) /\ ~Together({"setNumber"})'
        /\ UniqueNumber /\ CountFits /\ freed' = freed \cup (Given \ Given')
        /\ \A r \in Request : Checked(task[r], number, deleted, freed)
    BY <1>3, StillSetting
  <2>u. UNCHANGED <<number, deleted, count>>
          => UniqueNumber' /\ CountFits' /\ UNCHANGED freed
    <3> SUFFICES ASSUME UNCHANGED <<number, deleted, count>>
                 PROVE  UniqueNumber' /\ CountFits' /\ UNCHANGED freed
      OBVIOUS
    <3>1. Given' = Given
      BY DEF Given
    <3> QED
      BY <2>i, <3>1 DEF UniqueNumber, CountFits
  <2>1. ASSUME NEW r \in Request, Arrival(r) PROVE SetInv'
    <3>1. UNCHANGED <<number, count>>
      BY <2>1, ArrivalShape
    <3>2. \A q \in Request : Checked(task'[q], number', deleted', freed')
      <4>1. CASE UNCHANGED <<task, deleted>>
        BY <2>i, <2>u, <3>1, <4>1
      <4>2. CASE UNCHANGED deleted /\ \E t \in TaskRecord :
                    Becomes(r, t) /\ t.at \in {"check", "save", "use"}
        <5>1. PICK t \in TaskRecord : Becomes(r, t) /\ t.at \in {"check", "save", "use"}
          BY <4>2
        <5>2. Checked(t, number', deleted', freed')
          BY <5>1 DEF Checked
        <5> QED
          BY <2>i, <2>u, <3>1, <4>2, <5>1, <5>2, AloneSet
      <4>3. CASE UNCHANGED task /\ Deletes
        BY <2>i, <3>1, <4>3, DeleteKeeps
      <4> QED
        BY <2>1, <4>1, <4>2, <4>3, ArrivalShape
    <3>3. UniqueNumber' /\ CountFits'
      <4>1. CASE UNCHANGED deleted
        BY <2>u, <3>1, <4>1
      <4>2. CASE UNCHANGED task /\ Deletes
        BY <2>i, <3>1, <4>2, DeleteKeeps
      <4> QED
        BY <2>1, <4>1, <4>2, ArrivalShape
    <3> QED
      BY <2>i, <3>2, <3>3 DEF SetInv
  <2>2. ASSUME NEW r \in Request, Progress(r) \/ Fail(r) PROVE SetInv'
    <3>d. UNCHANGED deleted
      BY <2>2, ProgressShape
    <3>1. PICK t \in TaskRecord :
            /\ Becomes(r, t) /\ (t.at = "idle" \/ t.op = task[r].op)
            /\ \/ /\ UNCHANGED <<number, count>>
                  /\ Checked(task[r], number, deleted, freed) => Checked(t, number, deleted, freed)
               \/ Commit(r) /\ t = Idle
      BY <2>2, ProgressShape
    <3>2. CASE UNCHANGED <<number, count>> /\ Checked(t, number, deleted, freed)
      BY <2>i, <2>u, <3>d, <3>1, <3>2, AloneSet DEF SetInv
    <3>3. CASE Commit(r) /\ t = Idle
      <4>1. task[r].op = "setNumber" /\ Checked(t, number', deleted', freed')
        BY <3>3, IdleType DEF Commit, IInv, Shape, At, Checked
      <4>2. \A q \in Request : Checked(task'[q], number', deleted', freed')
        BY <2>i, <3>1, <4>1, AloneSet
      <4> QED
        BY <2>i, <3>3, <4>2, CommitKeeps DEF SetInv
    <3> QED
      BY <2>i, <3>1, <3>2, <3>3
  <2>3. CASE Quiescent
    <3>1. UNCHANGED <<number, deleted, count, task>>
      BY <2>3 DEF Quiescent, vars
    <3> QED
      BY <2>i, <2>u, <3>1 DEF SetInv
  <2> QED
    BY <2>i, <2>1, <2>2, <2>3 DEF Next
<1> QED
  BY <1>1, <1>2, <1>3

LEMMA NextReserveInv == IInv /\ ReserveInv /\ [MCNext]_numbersVars => ReserveInv'
<1> SUFFICES ASSUME IInv, ReserveInv, [MCNext]_numbersVars PROVE ReserveInv'
  OBVIOUS
<1>1. CASE UNCHANGED numbersVars
  BY <1>1 DEF numbersVars, vars, ReserveInv, Together, Written
<1>2. CASE overlapped'
  BY <1>2 DEF ReserveInv
<1>3. CASE MCNext /\ ~overlapped'
  <2>i. /\ Next /\ ~Together(AnyOp) /\ ~Together(AnyOp)'
        /\ \A r \in Request : task[r].at = "save" => task[r].number \notin Written
    BY <1>3, StillAlone
  <2>s. \A q \in Request : Shape(task[q]) /\ (task[q].op \in AnyOp <=> task[q].at # "idle")
    BY DEF IInv, TypeOK, Shape, AnyOp
  <2>1. ASSUME NEW r \in Request, NEW t \in TaskRecord, Becomes(r, t),
               UNCHANGED number \/ (task[r].op = "setNumber" /\ t.at = "idle")
        PROVE  ReserveInv'
    <3>1. task'[r] = t /\ \A q \in Request \ {r} : task'[q] = task[q]
      BY <2>1, TaskStep DEF Becomes
    <3>2. CASE UNCHANGED number
      <4>1. Written' = Written
        BY <3>2 DEF Written
      <4> QED
        BY <2>i, <2>1, <3>1, <4>1 DEF ReserveInv, Becomes
    <3>3. CASE task[r].op = "setNumber" /\ t.at = "idle"
      <4>1. \A q \in Request : task'[q].at # "save"
        BY <2>i, <2>s, <3>1, <3>3 DEF Together, AnyOp, Shape
      <4> QED
        BY <2>i, <4>1 DEF ReserveInv
    <3> QED
      BY <2>1, <3>2, <3>3
  <2>2. ASSUME UNCHANGED <<number, task>> PROVE ReserveInv'
    <3>1. Written' = Written
      BY <2>2 DEF Written
    <3> QED
      BY <2>i, <2>2, <3>1 DEF ReserveInv
  <2>3. ASSUME NEW r \in Request, Arrival(r) PROVE ReserveInv'
    BY <2>1, <2>2, <2>3, ArrivalShape
  <2>4. ASSUME NEW r \in Request, Progress(r) \/ Fail(r) PROVE ReserveInv'
    <3>1. Commit(r) => task[r].op = "setNumber"
      BY <2>s DEF Commit, Shape, At
    <3> QED
      BY <2>1, <2>4, <3>1, ProgressShape, IdleType
  <2> QED
    BY <2>i, <2>2, <2>3, <2>4 DEF Next, Quiescent, vars
<1> QED
  BY <1>1, <1>2, <1>3

----------------------------------------------------------------------------
(* The theorems.                                                           *)

LEMMA Invariants == MCSpec => [](IInv /\ SetInv /\ ReserveInv)
<1>1. IInv /\ SetInv /\ ReserveInv /\ [MCNext]_numbersVars => (IInv /\ SetInv /\ ReserveInv)'
  <2>1. [MCNext]_numbersVars => [Next]_vars
    BY DEF MCNext, numbersVars
  <2> QED
    BY <2>1, NextIInv, NextSetInv, NextReserveInv
<1> QED
  BY <1>1, InitInv, PTL DEF MCSpec, numbersVars

\* The columns of the book and what a request keeps of them, with any number of
\* requests at work together.
THEOREM TypeCorrect == Spec => []TypeOK
<1>1. Init => IInv
  <2> SUFFICES ASSUME Init PROVE IInv
    OBVIOUS
  <2> QED
    BY IdleType, Constants, OutgoingBookAssumption DEF Init, IInv, TypeOK, TaskRecord, WithZero
<1>2. IInv => TypeOK
  BY DEF IInv
<1> QED
  BY <1>1, <1>2, NextIInv, PTL DEF Spec

\* setNumber, given in turn, whatever is reserved, saved or renumbered beside it:
\* no two documents of the book have the same number.
THEOREM NumbersAreUnique == MCSpec => []UniqueInTurn
<1>1. SetInv => UniqueInTurn
  BY DEF SetInv, UniqueInTurn
<1> QED
  BY <1>1, Invariants, PTL

\* setNumber, likewise: the count that is shown next is no document's number, and
\* below it no number is left out that was never given.
THEOREM CountIsNext == MCSpec => []CountInTurn
<1>1. SetInv => CountInTurn
  BY DEF SetInv, CountInTurn, CountFits
<1> QED
  BY <1>1, Invariants, PTL

\* createReservation, one request at a time: a number that becomes reserved is on
\* no document, deleted ones included.
THEOREM ReservationIsFree == MCSpec => ReservationInTurn
<1>1. IInv /\ ReserveInv /\ [MCNext]_numbersVars
        => [ \A n \in WithZero :
               (~overlapped' /\ reservation[n] = "free" /\ reservation'[n] # "free")
                   => n \notin Written ]_vars
  <2> SUFFICES ASSUME IInv, ReserveInv, MCNext, NEW n \in WithZero,
                      ~overlapped', reservation[n] = "free", reservation'[n] # "free"
               PROVE  n \notin Written
    BY DEF numbersVars
  <2>1. Next /\ \A r \in Request : task[r].at = "save" => task[r].number \notin Written
    BY StillAlone
  <2>2. ~Quiescent
    BY DEF Quiescent, vars
  <2> QED
    BY <2>1, <2>2, ArrivalShape, ProgressShape DEF Next
<1> QED
  BY <1>1, Invariants, PTL DEF MCSpec, ReservationInTurn, numbersVars
=============================================================================
