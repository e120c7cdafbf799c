-------------------------- MODULE IncomingBook_proofs --------------------------
(***************************************************************************)
(* Theorems about the numbers of incoming documents, for any number of     *)
(* documents, books and requests in flight.  What is kept when requests    *)
(* come one after the other is kept by the handlers that lock the book     *)
(* first (Locking) in any interleaving: both cases have one proof.         *)
(***************************************************************************)
EXTENDS IncomingBook, TLAPS

\* The handlers that hold the lock of the book while they look for a number,
\* and that of the document while they write.
Locking == {"assign", "change", "refile", "generate", "withdraw"}

\* One request at a time.
Alone == \A r, q \in Request : r = q

OpName == {"none", "assign", "change", "refile", "keep", "edit", "create", "enter", "generate"}

TaskRecord == [op : OpName,
               pc : 0..5, docs : SUBSET Document, book : Book \cup {None},
               code : {0} \cup Numbers, from : 1..(MaxNumber + 1),
               codes : SUBSET (Document \X Numbers)]

DocRecord == [state : {"absent", "active", "deleted"}, book : Book \cup {None},
              code : {0} \cup Numbers, lookedUp : BOOLEAN]

----------------------------------------------------------------------------
(* The inductive invariant.                                                *)

Last(op) ==
    CASE op = "none" -> 0 [] op \in {"assign", "change", "keep", "edit"} -> 4
      [] op = "refile" -> 5 [] op \in {"create", "enter", "generate"} -> 3

Looking == {"assign", "change", "refile"}
Sending == {"keep", "edit", "create", "enter"}

\* What a request is at, and the numbers it has given so far: one for each
\* document, each of them another, from 1 on.
Shape(t) ==
    /\ t.op \in Operations \cup {"none"}
    /\ t.op = "none" <=> t.pc = 0
    /\ t.pc <= Last(t.op)
    /\ t.op \notin {"none", "edit"} => t.book \in Book
    /\ t.op \in {"change", "refile"} \cup Sending => \E d \in Document : t.docs = {d}
    /\ t.op \in Sending => t.code # 0
    /\ t.op = "generate" => t.docs = {}
    /\ t.op \notin Looking => t.codes = {}
    /\ t.pc <= 2 => t.codes = {}
    /\ t.codes = {} => t.from = 1
    /\ \A w \in t.codes : w[1] \in t.docs /\ w[2] < t.from
    /\ \A w, v \in t.codes : w[1] = v[1] \/ w[2] = v[2] => w = v
    /\ t.op \in Looking /\ t.pc >= 4 => {w[1] : w \in t.codes} = t.docs
    /\ t.op = "refile" => \A w \in t.codes : w[2] = t.code

\* The locks a request has at each of its statements.
HasBook(t) ==
    \/ t.op \in {"assign", "refile", "generate"} /\ t.pc >= 2
    \/ t.op = "change" /\ t.pc >= 3

HasDocs(t) ==
    \/ t.op = "assign" /\ t.pc >= 3
    \/ t.op = "change" /\ t.pc >= 2
    \/ t.op \in {"keep", "edit"} /\ t.pc = 4
    \/ t.op = "refile" /\ t.pc = 5

Holds(r, t, own) ==
    /\ HasBook(t) => own[t.book] = r
    /\ HasDocs(t) => \A d \in t.docs : own[d] = r

IInv ==
    /\ TypeOK
    /\ \A r \in Request : Shape(task[r]) /\ Holds(r, task[r], owner)

\* The numbers of the active documents of D in b, and those looked up.
Codes(b, D, rows) ==
    {rows[d].code : d \in {e \in D : /\ rows[e].state = "active" /\ rows[e].book = b
                                    /\ rows[e].code # 0}}

Found(b, D, rows) == Codes(b, {d \in D : rows[d].lookedUp}, rows)

\* What a request found still holds: the numbers it gives are nobody's, and the
\* documents are as it saw them.
Good(t, rows, cnt) ==
    /\ \A w \in t.codes : w[2] \notin Codes(t.book, Document \ t.docs, rows)
    /\ t.op = "assign" /\ t.codes # {} => \A d \in t.docs : rows[d].book = None
    /\ t.op = "change" /\ t.pc = 4 => \A d \in t.docs : rows[d].state = "active"
    /\ t.op = "keep" => \A d \in t.docs : rows[d].book = t.book /\ rows[d].code = t.code
    /\ t.op \in {"create", "enter"} => \A d \in t.docs : rows[d].state = "absent"
    /\ t.op = "create" => /\ t.code \notin Found(t.book, Document, rows)
                          /\ IF t.pc = 3 THEN cnt[t.book] # t.code
                                         ELSE cnt[t.book] = t.code

Safe == Alone \/ Operations \subseteq Locking

BookInv == UniqueCode /\ CountIsFree /\ \A r \in Request : Good(task[r], docs, count)

\* What a request gave so far leaves no hole.
Filled(t, rows) ==
    /\ 1..(t.from - 1) \subseteq Codes(t.book, Document \ t.docs, rows) \cup {w[2] : w \in t.codes}
    /\ t.op = "refile" => \A d \in t.docs : rows[d].book # t.book \/ rows[d].code = 0

FilledInv == \A r \in Request : Filled(task[r], docs)

----------------------------------------------------------------------------
(* What the operators return.                                              *)

LEMMA NumberTypes ==
    /\ Numbers \subseteq Nat \ {0} /\ 1 \in Numbers
    /\ None \notin Request /\ None \notin Book /\ \A b \in Book, n \in Nat : <<b, n>> # None
<1>1. Numbers \subseteq Nat \ {0} /\ 1 \in Numbers
  BY BookAssumption DEF Numbers
<1>2. None \notin Request /\ None \notin Book /\ None \notin Book \X Nat
  BY BookAssumption
<1> QED
  BY <1>1, <1>2

\* The start of a search and every number are natural numbers.
LEMMA NumbersAreNat == {0} \cup Numbers \subseteq Nat
BY BookAssumption DEF Numbers

LEMMA IdleType ==
    /\ Idle \in TaskRecord /\ Shape(Idle) /\ Idle.op = "none" /\ Idle.pc = 0
    /\ Idle.codes = {} /\ Idle.from = 1
<1>1. Idle \in TaskRecord
  BY NumberTypes, BookAssumption DEF Idle, TaskRecord, OpName
<1> QED
  BY <1>1 DEF Idle, Shape, Last, Looking, Sending

LEMMA IdleHolds == \A r, own : Holds(r, Idle, own)
BY DEF Holds, HasBook, HasDocs, Idle

LEMMA IdleGood == \A rows, cnt : Good(Idle, rows, cnt) /\ Filled(Idle, rows)
BY DEF Good, Filled, Idle

LEMMA TaskFields ==
    ASSUME NEW t \in TaskRecord
    PROVE  /\ t.op \in OpName
           /\ t.pc \in 0..5 /\ t.docs \in SUBSET Document /\ t.book \in Book \cup {None}
           /\ t.code \in {0} \cup Numbers /\ t.from \in 1..(MaxNumber + 1)
           /\ t.codes \in SUBSET (Document \X Numbers)
BY DEF TaskRecord

\* Which statement a request is at.
LEMMA Labels ==
    ASSUME NEW r \in Request, task[r] \in TaskRecord, Shape(task[r])
    PROVE  /\ Label(r) = "book" <=>
                 \/ task[r].op \in {"assign", "refile", "create", "enter", "generate"} /\ task[r].pc = 1
                 \/ task[r].op \in {"change", "keep", "edit"} /\ task[r].pc = 2
           /\ Label(r) = "docs" <=> \/ task[r].op = "assign" /\ task[r].pc = 2
                                    \/ task[r].op = "change" /\ task[r].pc = 1
                                    \/ task[r].op \in {"keep", "edit"} /\ task[r].pc = 3
                                    \/ task[r].op = "refile" /\ task[r].pc = 4
           /\ Label(r) = "codes" <=> task[r].op \in {"refile", "generate"} /\ task[r].pc = 2
           /\ Label(r) = "code" <=> task[r].op \in {"keep", "edit"} /\ task[r].pc = 1
           /\ Label(r) = "number" <=> task[r].op \in Looking /\ task[r].pc = 3
           /\ Label(r) = "commit" <=> \/ task[r].op \in {"assign", "change", "keep", "edit"} /\ task[r].pc = 4
                                      \/ task[r].op = "refile" /\ task[r].pc = 5
                                      \/ task[r].op = "generate" /\ task[r].pc = 3
           /\ Label(r) = "increase" <=> task[r].op \in {"create", "enter"} /\ task[r].pc = 2
           /\ Label(r) = "insert" <=> task[r].op \in {"create", "enter"} /\ task[r].pc = 3
<1> DEFINE t == task[r]
<1>t. /\ t.op \in OpName
      /\ t.pc \in 0..5 /\ (t.op = "none" <=> t.pc = 0) /\ t.pc <= Last(t.op)
  BY TaskFields DEF Shape
<1>1. CASE t.op = "none"
  BY <1>t, <1>1 DEF Label, Looking
<1>2. CASE t.op = "assign"
  <2>1. t.pc \in {1, 2, 3, 4}
    BY <1>t, <1>2 DEF Last
  <2> QED
    BY <1>2, <2>1 DEF Label, Path, Looking
<1>3. CASE t.op = "change"
  <2>1. t.pc \in {1, 2, 3, 4}
    BY <1>t, <1>3 DEF Last
  <2> QED
    BY <1>3, <2>1 DEF Label, Path, Looking
<1>4. CASE t.op = "refile"
  <2>1. t.pc \in {1, 2, 3, 4, 5}
    BY <1>t, <1>4 DEF Last
  <2> QED
    BY <1>4, <2>1 DEF Label, Path, Looking
<1>5. CASE t.op \in {"keep", "edit"}
  <2>1. t.pc \in {1, 2, 3, 4}
    BY <1>t, <1>5 DEF Last
  <2> QED
    BY <1>5, <2>1 DEF Label, Path, Looking
<1>6. CASE t.op \in {"create", "enter"}
  <2>1. t.pc \in {1, 2, 3}
    BY <1>t, <1>6 DEF Last
  <2> QED
    BY <1>6, <2>1 DEF Label, Path, Looking
<1>7. CASE t.op = "generate"
  <2>1. t.pc \in {1, 2, 3}
    BY <1>t, <1>7 DEF Last
  <2> QED
    BY <1>7, <2>1 DEF Label, Path, Looking
<1> QED
  BY <1>t, <1>1, <1>2, <1>3, <1>4, <1>5, <1>6, <1>7 DEF OpName

----------------------------------------------------------------------------
(* What the steps of a request do.                                         *)

Becomes(r, t) == t \in TaskRecord /\ Shape(t) /\ task' = [task EXCEPT ![r] = t]

\* A request becomes t; the other requests are not touched.
LEMMA TaskStep ==
    ASSUME IInv, NEW r \in Request, NEW t, Becomes(r, t)
    PROVE  /\ task' \in [Request -> TaskRecord] /\ \A q \in Request : Shape(task'[q])
           /\ task'[r] = t /\ \A q \in Request \ {r} : task'[q] = task[q]
<1>1. task \in [Request -> TaskRecord] /\ \A q \in Request : Shape(task[q])
  BY DEF IInv, TypeOK, TaskRecord, OpName
<1>2. task'[r] = t /\ \A q \in Request \ {r} : task'[q] = task[q]
  BY <1>1 DEF Becomes
<1> QED
  BY <1>1, <1>2 DEF Becomes

\* A request as it begins.
New(op, D, b, c) == [Idle EXCEPT !.op = op, !.pc = 1, !.docs = D, !.book = b, !.code = c]

IsNew(t, op, D, b, c) ==
    /\ t \in TaskRecord /\ Shape(t) /\ t.op = op /\ t.pc = 1 /\ t.docs = D
    /\ t.book = b /\ t.code = c /\ t.codes = {} /\ t.from = 1

LEMMA NewType ==
    ASSUME NEW op \in Operations, op \in OpName \ {"none"},
           NEW D, D \subseteq Document, NEW b \in Book \cup {None}, NEW c \in {0} \cup Numbers,
           op # "edit" => b \in Book,
           op \notin {"assign", "generate"} => \E d \in Document : D = {d},
           op = "generate" => D = {},
           op \in Sending => c # 0
    PROVE  IsNew(New(op, D, b, c), op, D, b, c)
<1> DEFINE t == New(op, D, b, c)
<1>0. op \in OpName /\ 1 \in 0..5
  OBVIOUS
<1>1. t \in TaskRecord
  BY <1>0, IdleType DEF New, TaskRecord
<1>2. /\ t.op = op /\ t.pc = 1 /\ t.docs = D /\ t.book = b /\ t.code = c
      /\ t.codes = {} /\ t.from = 1
  BY IdleType DEF New, TaskRecord
<1>3. 1 <= Last(op)
  BY DEF Last, OpName
<1>4. Shape(t)
  BY <1>2, <1>3 DEF Shape, Looking, Sending, OpName
<1> QED
  BY <1>1, <1>2, <1>4 DEF IsNew

\* What is known of a request that begins: t has given no number, and what it
\* read is there.
Begins(r, t) ==
    /\ task[r] = Idle /\ requests' = requests + 1 /\ UNCHANGED <<docs, count, owner>>
    /\ Becomes(r, t) /\ t.pc = 1 /\ t.codes = {} /\ t.from = 1
    /\ t.op = "keep" => \A d \in t.docs : docs[d].book = t.book /\ docs[d].code = t.code
    /\ t.op \in {"create", "enter"} => \A d \in t.docs : docs[d].state = "absent"
    /\ t.op = "create" => t.code = count[t.book]
    /\ t.op = "refile" => \A d \in t.docs : docs[d].book # t.book \/ docs[d].code = 0

\* Requests of a single statement.
Single(r) == File(r) \/ Copy(r) \/ Withdraw(r)

LEMMA ArrivalShape ==
    ASSUME IInv, NEW r \in Request, Arrival(r)
    PROVE  Single(r) \/ \E t : Begins(r, t)
<1>t. /\ \A d \in Document : docs[d] \in DocRecord
      /\ \A b \in Book : count[b] \in {0} \cup Numbers
      /\ Active \subseteq Document /\ Existing \subseteq Document
      /\ Typed \subseteq Numbers /\ 0 \notin Typed
  <2>1. Typed \subseteq Numbers /\ 0 \notin Typed
    BY BookAssumption DEF Typed, Numbers
  <2> QED
    BY <2>1 DEF IInv, TypeOK, DocRecord, Active, Existing
<1>b. ASSUME NEW op \in OpName \ {"none"},
             NEW D \in SUBSET Document, NEW b \in Book \cup {None}, NEW c \in {0} \cup Numbers,
             op # "edit" => b \in Book,
             op \notin {"assign", "generate"} => \E d \in Document : D = {d},
             op = "generate" => D = {},
             op \in Sending => c # 0,
             Begin(r, op, D, b, c),
             op = "keep" => \A d \in D : docs[d].book = b /\ docs[d].code = c,
             op \in {"create", "enter"} => \A d \in D : docs[d].state = "absent",
             op = "create" => c = count[b],
             op = "refile" => \A d \in D : docs[d].book # b \/ docs[d].code = 0
      PROVE  Begins(r, New(op, D, b, c))
  <2>1. /\ task[r] = Idle /\ op \in Operations /\ requests' = requests + 1
        /\ task' = [task EXCEPT ![r] = New(op, D, b, c)] /\ UNCHANGED <<docs, count, owner>>
    BY <1>b DEF Begin, New
  <2>2. IsNew(New(op, D, b, c), op, D, b, c)
    BY <1>b, <2>1, NewType
  <2>3. PICK t : t = New(op, D, b, c) /\ IsNew(t, op, D, b, c)
    BY <2>2
  <2>4. task' = [task EXCEPT ![r] = t]
    BY <2>1, <2>3
  <2>5. Begins(r, t)
    BY <1>b, <2>1, <2>3, <2>4 DEF Begins, Becomes, IsNew
  <2> QED
    BY <2>3, <2>5
<1> USE DEF OpName, Sending
<1>1. CASE Assign(r)
  <2>1. PICK D \in SUBSET Document, b \in Book : Begin(r, "assign", D, b, 0)
    BY <1>1, <1>t DEF Assign
  <2> QED
    BY <2>1, <1>b
<1>2. CASE Change(r)
  <2>1. PICK d \in Document, b \in Book : Begin(r, "change", {d}, b, 0)
    BY <1>2, <1>t DEF Change
  <2> QED
    BY <2>1, <1>b
<1>3. CASE Refile(r)
  <2>1. PICK d \in Document, b \in Book :
          (docs[d].book # b \/ docs[d].code = 0) /\ Begin(r, "refile", {d}, b, 0)
    BY <1>3, <1>t DEF Refile
  <2> QED
    BY <2>1, <1>b
<1>4. CASE Keep(r)
  <2>1. PICK d \in Document : /\ docs[d].book # None /\ docs[d].code # 0
                              /\ Begin(r, "keep", {d}, docs[d].book, docs[d].code)
    BY <1>4, <1>t DEF Keep
  <2>2. docs[d].book \in Book /\ docs[d].code \in {0} \cup Numbers
    BY <2>1, <1>t DEF DocRecord
  <2> DEFINE b == docs[d].book
             c == docs[d].code
  <2>3. /\ b \in Book /\ c \in {0} \cup Numbers /\ c # 0 /\ Begin(r, "keep", {d}, b, c)
        /\ \A x \in {d} : docs[x].book = b /\ docs[x].code = c
        /\ {d} \in SUBSET Document /\ \E x \in Document : {d} = {x}
    BY <2>1, <2>2
  <2> HIDE DEF b, c
  <2> QED
    BY <2>3, <1>b
<1>5. CASE Edit(r)
  <2>1. PICK d \in Document, b \in Book \cup {None}, c \in Typed : Begin(r, "edit", {d}, b, c)
    BY <1>5, <1>t DEF Edit
  <2>2. c \in {0} \cup Numbers /\ c # 0
    BY <2>1, <1>t
  <2> QED
    BY <2>1, <2>2, <1>b
<1>6. CASE OpenForm(r)
  <2>1. PICK d \in Document \ Existing, b \in Book :
          count[b] # 0 /\ Begin(r, "create", {d}, b, count[b])
    BY <1>6 DEF OpenForm, Fresh
  <2>2. docs[d].state = "absent"
    BY <2>1 DEF Existing
  <2> DEFINE c == count[b]
  <2>3. c \in {0} \cup Numbers /\ c # 0 /\ Begin(r, "create", {d}, b, c)
    BY <2>1, <1>t
  <2> HIDE DEF c
  <2>4. c = count[b]
    BY DEF c
  <2>5. \A x \in {d} : docs[x].state = "absent"
    BY <2>2
  <2>6. Begins(r, New("create", {d}, b, c))
    BY <2>1, <2>3, <2>4, <2>5, <1>b
  <2> QED
    BY <2>6
<1>7. CASE Enter(r)
  <2>1. PICK d \in Document \ Existing, b \in Book, c \in Typed : Begin(r, "enter", {d}, b, c)
    BY <1>7 DEF Enter, Fresh
  <2>2. docs[d].state = "absent" /\ c \in {0} \cup Numbers /\ c # 0
    BY <2>1, <1>t DEF Existing
  <2> QED
    BY <2>1, <2>2, <1>b
<1>8. CASE Generate(r)
  <2>1. PICK b \in Book : Begin(r, "generate", {}, b, 0)
    BY <1>8 DEF Generate
  <2> QED
    BY <2>1, <1>b
<1> QED
  BY <1>1, <1>2, <1>3, <1>4, <1>5, <1>6, <1>7, <1>8 DEF Arrival, Single

LEMMA LastValues ==
    /\ Last("none") = 0 /\ Last("assign") = 4 /\ Last("change") = 4 /\ Last("refile") = 5
    /\ Last("keep") = 4 /\ Last("edit") = 4
    /\ Last("create") = 3 /\ Last("enter") = 3 /\ Last("generate") = 3
BY DEF Last

\* A request takes locks that nobody else has, or gives back its own: the
\* others keep theirs.
KeepsOthers(r) ==
    /\ owner' \in [Lockable -> Request \cup {None}]
    /\ \A l \in Lockable, q \in Request \ {r} : owner[l] = q => owner'[l] = q

LEMMA OthersHold ==
    ASSUME IInv, NEW r \in Request, KeepsOthers(r), NEW q \in Request \ {r}
    PROVE  Holds(q, task[q], owner')
<1>1. task[q] \in TaskRecord /\ Shape(task[q]) /\ Holds(q, task[q], owner)
  BY DEF IInv, TypeOK, TaskRecord, OpName
<1>2. /\ task[q].docs \subseteq Lockable
      /\ task[q].op \notin {"none", "edit"} => task[q].book \in Lockable
  BY <1>1, TaskFields DEF Shape, Lockable
<1> QED
  BY <1>1, <1>2 DEF Holds, HasBook, HasDocs, KeepsOthers

LEMMA ReleaseShape ==
    ASSUME IInv, NEW r \in Request, Release(r)
    PROVE  KeepsOthers(r)
BY DEF IInv, TypeOK, Release, KeepsOthers

LEMMA EndShape ==
    ASSUME IInv, NEW r \in Request, End(r)
    PROVE  Becomes(r, Idle) /\ KeepsOthers(r)
BY IdleType, ReleaseShape DEF End, Becomes

\* u is t after its next statement, which gives no number.
Advances(t, u) ==
    /\ u.pc = t.pc + 1 /\ u.op = t.op /\ u.docs = t.docs /\ u.book = t.book
    /\ u.code = t.code /\ u.from = t.from /\ u.codes = t.codes

LEMMA AdvanceType ==
    ASSUME NEW t \in TaskRecord, Shape(t), t.pc # 0, t.op \in Looking => t.pc # 3,
           t.pc < Last(t.op)
    PROVE  \E u \in TaskRecord : u = [t EXCEPT !.pc = @ + 1] /\ Shape(u) /\ Advances(t, u)
<1> DEFINE u == [t EXCEPT !.pc = @ + 1]
<1>1. t.pc \in 0..5 /\ t.op \in OpName
  BY TaskFields
<1>2. Last(t.op) \in 0..5
  BY <1>1, LastValues DEF OpName
<1>3. t.pc + 1 \in 0..5 /\ t.pc + 1 <= Last(t.op)
  BY <1>1, <1>2
<1>4. u \in TaskRecord
  BY <1>3 DEF TaskRecord
<1>5. Advances(t, u)
  BY <1>4 DEF TaskRecord, Advances
<1> HIDE DEF u
<1>6. Shape(u)
  <2>1. u.op \in Looking /\ u.pc >= 4 => {w[1] : w \in u.codes} = u.docs
    BY <1>1, <1>5 DEF Shape, Advances
  <2> QED
    BY <1>1, <1>3, <1>5, <2>1 DEF Shape, Advances
<1> QED
  BY <1>4, <1>5, <1>6 DEF u

\* SELECT ... WITH (UPDLOCK), or an UPDATE.
LEMMA LockShape ==
    ASSUME IInv, NEW r \in Request, Lock(r)
    PROVE  /\ UNCHANGED <<docs, count, requests>> /\ KeepsOthers(r)
           /\ \E u : /\ Becomes(r, u) /\ Advances(task[r], u) /\ Holds(r, u, owner')
                     /\ u.op \in {"create", "enter"} => u.pc = 2
                     /\ u.op = "change" => u.pc <= 3
<1> DEFINE t == task[r]
<1>t. /\ t \in TaskRecord /\ Shape(t) /\ Holds(r, t, owner)
      /\ owner \in [Lockable -> Request \cup {None}]
  BY DEF IInv, TypeOK, TaskRecord, OpName
<1>1. /\ UNCHANGED <<docs, count, requests>> /\ task' = [task EXCEPT ![r] = [t EXCEPT !.pc = @ + 1]]
      /\ owner' = [l \in Lockable |-> IF l \in Needs(r) THEN r ELSE owner[l]]
      /\ WaitsFor(r) = {}
      /\ Label(r) \in {"book", "docs", "codes", "code"}
  BY DEF Lock, At, Step
<1>2. /\ t.op \in OpName \ {"none"} /\ t.pc \in {1, 2, 3, 4} /\ t.pc < Last(t.op)
      /\ t.op \in Looking => t.pc # 3
      /\ t.op \in {"create", "enter"} => t.pc = 1
      /\ t.op = "change" => t.pc <= 2
  BY <1>1, <1>t, Labels, LastValues DEF Looking, OpName
<1>3. PICK u \in TaskRecord : u = [t EXCEPT !.pc = @ + 1] /\ Shape(u) /\ Advances(t, u)
  BY <1>t, <1>2, AdvanceType
<1>4. Becomes(r, u)
  BY <1>1, <1>3 DEF Becomes
<1>5. \A l \in Lockable : l \in Needs(r) => owner[l] \in {None, r}
  BY <1>1 DEF WaitsFor
<1>6. KeepsOthers(r)
  BY <1>t, <1>1, <1>5, NumberTypes DEF KeepsOthers
<1>7. Holds(r, u, owner')
  <2>1. /\ t.docs \subseteq Lockable
        /\ t.op # "edit" => t.book \in Book /\ t.book \in Lockable
    BY <1>t, <1>2, TaskFields DEF Shape, Lockable
  <2>2. \A l \in Lockable : owner[l] = r \/ l \in Needs(r) => owner'[l] = r
    BY <1>1
  <2>3. Label(r) = "book" /\ t.op \notin {"keep", "edit"} => t.book \in Needs(r)
    BY <2>1 DEF Needs, BookNeeded, Sends, BookOf
  <2>4. Label(r) = "docs" => t.docs \subseteq Needs(r)
    BY DEF Needs, RowsNeeded
  <2>5. CASE t.op = "assign"
    BY <1>t, <1>1, <1>2, <1>3, <2>1, <2>2, <2>3, <2>4, <2>5, Labels DEF Holds, HasBook, HasDocs, Advances
  <2>6. CASE t.op = "change"
    BY <1>t, <1>1, <1>2, <1>3, <2>1, <2>2, <2>3, <2>4, <2>6, Labels DEF Holds, HasBook, HasDocs, Advances
  <2>7. CASE t.op = "refile"
    BY <1>t, <1>1, <1>2, <1>3, <2>1, <2>2, <2>3, <2>4, <2>7, Labels DEF Holds, HasBook, HasDocs, Advances
  <2>8. CASE t.op = "generate"
    BY <1>t, <1>1, <1>2, <1>3, <2>1, <2>2, <2>3, <2>4, <2>8, Labels DEF Holds, HasBook, HasDocs, Advances
  <2>9. CASE t.op \in {"keep", "edit"}
    BY <1>t, <1>1, <1>2, <1>3, <2>1, <2>2, <2>4, <2>9, Labels DEF Holds, HasBook, HasDocs, Advances
  <2>10. CASE t.op \in {"create", "enter"}
    BY <1>3, <2>10 DEF Holds, HasBook, HasDocs, Advances
  <2> QED
    BY <1>2, <2>5, <2>6, <2>7, <2>8, <2>9, <2>10 DEF OpName
<1>8. (u.op \in {"create", "enter"} => u.pc = 2) /\ (u.op = "change" => u.pc <= 3)
  BY <1>2, <1>3 DEF Advances
<1> QED
  BY <1>1, <1>3, <1>4, <1>6, <1>7, <1>8, Zenon

\* u is t with one more number.
Gives(t, u, d, n) ==
    /\ u.op = t.op /\ u.docs = t.docs /\ u.book = t.book /\ u.pc \in {3, 4}
    /\ u.codes = t.codes \cup {<<d, n>>} /\ u.from = n + 1 /\ u.code = n

Gave(t, d, n) == [t EXCEPT !.codes = @ \cup {<<d, n>>}, !.from = n + 1, !.code = n]

LEMMA GaveType ==
    ASSUME NEW t \in TaskRecord, Shape(t), t.pc = 3, t.op \in Looking,
           NEW d \in t.docs, d \notin {w[1] : w \in t.codes},
           NEW n \in Numbers, n >= t.from, NEW pc \in {3, 4},
           pc = 4 => {w[1] : w \in t.codes} \cup {d} = t.docs
    PROVE  /\ Gave(t, d, n) \in TaskRecord /\ Gave(t, d, n).pc = 3
           /\ \E u \in TaskRecord :
                 u = [Gave(t, d, n) EXCEPT !.pc = pc] /\ Shape(u) /\ Gives(t, u, d, n)
<1>1. /\ t.codes \in SUBSET (Document \X Numbers) /\ d \in Document
      /\ t.from \in 1..(MaxNumber + 1)
  BY TaskFields
<1>2. n + 1 \in 1..(MaxNumber + 1) /\ n \in Nat
  BY BookAssumption DEF Numbers
<1>3. <<d, n>> \in Document \X Numbers
  BY <1>1
<1>4. /\ Gave(t, d, n) \in TaskRecord /\ Gave(t, d, n).pc = 3
      /\ Gave(t, d, n).op = t.op /\ Gave(t, d, n).docs = t.docs
      /\ Gave(t, d, n).book = t.book /\ Gave(t, d, n).codes = t.codes \cup {<<d, n>>}
      /\ Gave(t, d, n).from = n + 1 /\ Gave(t, d, n).code = n
  BY <1>1, <1>2, <1>3 DEF Gave, TaskRecord
<1> DEFINE u == [Gave(t, d, n) EXCEPT !.pc = pc]
<1>5. u \in TaskRecord /\ u.pc = pc /\ Gives(t, u, d, n)
  BY <1>4 DEF TaskRecord, Gives
<1> HIDE DEF u
<1>6. \A w \in t.codes : w[1] \in t.docs /\ w[1] # d /\ w[2] < t.from /\ w[2] \in Nat
  <2>1. \A w \in t.codes : w[2] \in Nat
    BY <1>1, NumberTypes
  <2> QED
    BY <2>1 DEF Shape
<1>7. \A w \in t.codes : w[2] < n + 1 /\ w[2] # n
  BY <1>1, <1>2, <1>6
<1>8. \A w, v \in u.codes : w[1] = v[1] \/ w[2] = v[2] => w = v
  <2>1. \A w, v \in t.codes : w[1] = v[1] \/ w[2] = v[2] => w = v
    BY DEF Shape
  <2>2. ASSUME NEW w \in u.codes, NEW v \in u.codes, w[1] = v[1] \/ w[2] = v[2]
        PROVE  w = v
    <3>1. /\ w \in t.codes \/ w = <<d, n>>
          /\ v \in t.codes \/ v = <<d, n>>
      BY <1>5 DEF Gives
    <3>2. <<d, n>>[1] = d /\ <<d, n>>[2] = n
      OBVIOUS
    <3>3. CASE w \in t.codes /\ v \in t.codes
      BY <2>1, <2>2, <3>3
    <3>4. CASE w = <<d, n>> /\ v \in t.codes
      BY <1>6, <1>7, <2>2, <3>2, <3>4
    <3>5. CASE w \in t.codes /\ v = <<d, n>>
      BY <1>6, <1>7, <2>2, <3>2, <3>5
    <3> QED
      BY <3>1, <3>3, <3>4, <3>5
  <2> QED
    BY <2>2
<1>9. \A w \in u.codes : w[1] \in u.docs /\ w[2] < u.from
  BY <1>2, <1>5, <1>6, <1>7 DEF Gives
<1>10. u.pc >= 4 => {w[1] : w \in u.codes} = u.docs
  <2>1. ASSUME NEW x
        PROVE  x \in {w[1] : w \in u.codes} <=> x \in {w[1] : w \in t.codes} \cup {d}
    <3>1. (\E w \in u.codes : x = w[1]) <=> (\E w \in t.codes : x = w[1]) \/ x = <<d, n>>[1]
      BY <1>5 DEF Gives
    <3>2. <<d, n>>[1] = d
      OBVIOUS
    <3> QED
      BY <3>1, <3>2
  <2> QED
    BY <1>5, <2>1 DEF Gives
<1>11. u.op = "refile" => \A w \in u.codes : w[2] = u.code
  <2>1. t.op = "refile" => t.codes = {}
    BY <1>6 DEF Shape
  <2> QED
    BY <1>5, <2>1 DEF Gives
<1>12. Shape(u)
  <2>1. u.pc <= Last(u.op) /\ u.pc # 0 /\ ~(u.pc <= 2)
    BY <1>5, LastValues DEF Gives, Looking
  <2>2. u.codes # {} /\ u.op \in Looking /\ u.op \notin {"none", "generate"} \cup Sending
    BY <1>5 DEF Gives, Looking, Sending
  <2>3. /\ u.op \in Operations \cup {"none"} /\ u.book \in Book
        /\ u.op \in {"change", "refile"} => \E x \in Document : u.docs = {x}
    BY <1>5 DEF Gives, Shape, Looking
  <2> QED
    BY <1>8, <1>9, <1>10, <1>11, <2>1, <2>2, <2>3 DEF Shape
<1> QED
  BY <1>4, <1>5, <1>12 DEF u

\* One document gets a number.
LEMMA GiveShape ==
    ASSUME IInv, NEW r \in Request, GiveNumber(r)
    PROVE  /\ UNCHANGED <<docs, count, owner, requests>>
           /\ task[r].pc = 3 /\ task[r].op \in Looking
           /\ ~Refused(r)
           /\ \E u : \E d \in Document, n \in Numbers :
                 /\ Becomes(r, u) /\ Gives(task[r], u, d, n) /\ n >= task[r].from
                 /\ n \notin Taken(r)
                 /\ \A m \in Numbers : (task[r].from <= m /\ m < n) => m \in Taken(r)
<1> DEFINE t == task[r]
<1>t. t \in TaskRecord /\ Shape(t)
  BY DEF IInv, TypeOK, TaskRecord, OpName
<1>1. UNCHANGED <<docs, count, owner, requests>> /\ Label(r) = "number" /\ ~Refused(r)
  BY DEF GiveNumber, At
<1>2. t.pc = 3 /\ t.op \in Looking
  BY <1>t, <1>1, Labels
<1>3. PICK d \in t.docs \ Written(r), n \in Numbers :
        /\ FirstFree(n, t.from, Taken(r))
        /\ IF Written(r) \cup {d} = t.docs THEN Step(r, Gave(t, d, n))
           ELSE task' = [task EXCEPT ![r] = Gave(t, d, n)]
  BY DEF GiveNumber, Gave
<1>4. /\ n >= t.from /\ n \notin Taken(r)
      /\ \A m \in Numbers : (t.from <= m /\ m < n) => m \in Taken(r)
  BY <1>3 DEF FirstFree
<1>5. d \in t.docs /\ d \notin {w[1] : w \in t.codes} /\ d \in Document
  BY <1>3, <1>t, TaskFields DEF Written
<1>6. \E u : Becomes(r, u) /\ Gives(t, u, d, n)
  <2>1. CASE Written(r) \cup {d} = t.docs
    <3>1. /\ Gave(t, d, n).pc = 3
          /\ \E u \in TaskRecord :
                u = [Gave(t, d, n) EXCEPT !.pc = 4] /\ Shape(u) /\ Gives(t, u, d, n)
      BY <1>t, <1>2, <1>4, <1>5, <2>1, GaveType DEF Written
    <3>2. task' = [task EXCEPT ![r] = [Gave(t, d, n) EXCEPT !.pc = 4]]
      BY <1>3, <2>1, <3>1 DEF Step
    <3> QED
      BY <3>1, <3>2 DEF Becomes
  <2>2. CASE Written(r) \cup {d} # t.docs
    <3>1. /\ Gave(t, d, n) \in TaskRecord /\ Gave(t, d, n).pc = 3
          /\ \E u \in TaskRecord :
                u = [Gave(t, d, n) EXCEPT !.pc = 3] /\ Shape(u) /\ Gives(t, u, d, n)
      BY <1>t, <1>2, <1>4, <1>5, GaveType
    <3>2. [Gave(t, d, n) EXCEPT !.pc = 3] = Gave(t, d, n)
      BY <3>1 DEF TaskRecord
    <3> QED
      BY <1>3, <2>2, <3>1, <3>2 DEF Becomes
  <2> QED
    BY <2>1, <2>2
<1>7. PICK u : Becomes(r, u) /\ Gives(t, u, d, n)
  BY <1>6
<1> QED
  BY <1>1, <1>2, <1>4, <1>5, <1>7

\* The rows a commit writes.
Writes(t) ==
    /\ \A d \in t.docs :
          /\ docs'[d] \in DocRecord /\ docs'[d].state = docs[d].state
          /\ docs'[d].book = t.book /\ docs'[d].code \in Numbers
          /\ t.op \in Looking => <<d, docs'[d].code>> \in t.codes /\ docs'[d].lookedUp
          /\ t.op \notin Looking => docs'[d].code = t.code
          /\ t.op # "edit" => t.book \in Book
          /\ t.op = "keep" => docs'[d].lookedUp = docs[d].lookedUp
          /\ t.op = "edit" => ~docs'[d].lookedUp
    /\ \A d \in Document \ t.docs : docs'[d] = docs[d]

\* The count a commit writes, if it counts at all.
CountsTo(r) ==
    \/ /\ task[r].book \in Book
       /\ \E n \in Numbers : NextCount(r, n) /\ count' = [count EXCEPT ![task[r].book] = n]
    \/ Sends(r) /\ UNCHANGED count

LEMMA CommitShape ==
    ASSUME IInv, NEW r \in Request, Commit(r)
    PROVE  /\ task[r].op \in Looking \cup {"keep", "edit", "generate"} /\ task[r].pc # 0
           /\ task[r].op = "change" => task[r].pc = 4
           /\ task[r].op \in Looking => task[r].pc >= 4
           /\ task[r].op \notin {"keep", "edit"} => owner[task[r].book] = r
           /\ task[r].op # "edit" => task[r].book \in Book
           /\ task[r].docs \subseteq Document /\ \A d \in task[r].docs : owner[d] = r
           /\ End(r) /\ UNCHANGED requests
           /\ docs' \in [Document -> DocRecord] /\ Writes(task[r]) /\ CountsTo(r)
<1> DEFINE t == task[r]
<1>t. /\ t \in TaskRecord /\ Shape(t) /\ Holds(r, t, owner) /\ docs \in [Document -> DocRecord]
      /\ t.book \in Book \cup {None}
  BY TaskFields DEF IInv, TypeOK, TaskRecord, OpName, DocRecord
<1>1. /\ Label(r) = "commit" /\ End(r) /\ UNCHANGED requests
      /\ docs' = [d \in Document |-> IF d \in t.docs THEN Numbered(r, d) ELSE docs[d]]
      /\ IF Counts(r)
         THEN \E n \in Numbers : NextCount(r, n) /\ count' = [count EXCEPT ![t.book] = n]
         ELSE UNCHANGED count
  BY DEF Commit, At, BookOf
<1>2. \/ t.op \in {"assign", "change", "keep", "edit"} /\ t.pc = 4
      \/ t.op = "refile" /\ t.pc = 5
      \/ t.op = "generate" /\ t.pc = 3
  BY <1>1, <1>t, Labels
<1>3. /\ t.op \notin {"keep", "edit"} => owner[t.book] = r
      /\ t.op # "edit" => t.book \in Book
      /\ t.docs \subseteq Document
      /\ \A d \in t.docs : owner[d] = r
  BY <1>t, <1>2, TaskFields DEF Shape, Holds, HasBook, HasDocs
<1>4. ASSUME NEW d \in t.docs
      PROVE  /\ Numbered(r, d) \in DocRecord /\ Numbered(r, d).state = docs[d].state
             /\ Numbered(r, d).book = t.book /\ Numbered(r, d).code \in Numbers
             /\ t.op \in Looking => <<d, Numbered(r, d).code>> \in t.codes /\ Numbered(r, d).lookedUp
             /\ t.op \notin Looking => Numbered(r, d).code = t.code
             /\ t.op = "keep" => Numbered(r, d).lookedUp = docs[d].lookedUp
             /\ t.op = "edit" => ~Numbered(r, d).lookedUp
  <2>1. d \in Document /\ docs[d] \in DocRecord
    BY <1>t, <1>3, <1>4
  <2>2. CASE t.op \in {"keep", "edit"}
    <3>1. t.code \in Numbers /\ t.op \notin Looking
      BY <1>t, <2>2, TaskFields DEF Shape, Looking, Sending
    <3>2. Numbered(r, d) = [docs[d] EXCEPT !.book = t.book, !.code = t.code,
                                           !.lookedUp = @ /\ t.op = "keep"]
      BY <2>2 DEF Numbered, BookOf, Sends
    <3>3. (docs[d].lookedUp /\ t.op = "keep") \in BOOLEAN
      BY Zenon
    <3> DEFINE l == docs[d].lookedUp /\ t.op = "keep"
    <3>4. Numbered(r, d) = [docs[d] EXCEPT !.book = t.book, !.code = t.code, !.lookedUp = l]
      BY <3>2, Zenon
    <3>5. l \in BOOLEAN /\ (t.op = "keep" => l = docs[d].lookedUp) /\ (t.op = "edit" => ~l)
      BY <2>1, <3>3 DEF DocRecord
    <3> HIDE DEF l
    <3> QED
      BY <1>t, <2>1, <2>2, <3>1, <3>4, <3>5 DEF DocRecord
  <2>3. CASE t.op \in Looking
    <3> DEFINE c == CHOOSE n \in OwnCodes(r) : <<d, n>> \in t.codes
    <3>1. \E n \in OwnCodes(r) : <<d, n>> \in t.codes
      <4>1. {w[1] : w \in t.codes} = t.docs
        BY <1>t, <1>2, <2>3 DEF Shape, Looking
      <4>2. PICK w \in t.codes : w[1] = d
        BY <1>4, <4>1
      <4>3. w = <<d, w[2]>>
        BY <1>t, <4>2, TaskFields
      <4> QED
        BY <4>2, <4>3 DEF OwnCodes
    <3>2. c \in OwnCodes(r) /\ <<d, c>> \in t.codes
      BY <3>1
    <3> HIDE DEF c
    <3>3. c \in Numbers
      BY <1>t, <3>2, TaskFields
    <3>4. Numbered(r, d) = [docs[d] EXCEPT !.book = t.book, !.lookedUp = TRUE, !.code = c]
      BY <2>3 DEF Numbered, BookOf, c, Sends, Looking
    <3>5. /\ Numbered(r, d) \in DocRecord /\ Numbered(r, d).state = docs[d].state
          /\ Numbered(r, d).book = t.book /\ Numbered(r, d).code = c /\ Numbered(r, d).lookedUp
      BY <1>t, <2>1, <3>3, <3>4 DEF DocRecord
    <3> QED
      BY <2>3, <3>2, <3>3, <3>5 DEF Looking
  <2>4. t.op # "generate"
    BY <1>t, <1>4 DEF Shape
  <2> QED
    BY <1>2, <2>2, <2>3, <2>4 DEF Looking
<1>5. docs' \in [Document -> DocRecord] /\ Writes(t)
  <2>1. \A d \in Document : docs'[d] = IF d \in t.docs THEN Numbered(r, d) ELSE docs[d]
    BY <1>1
  <2>2. \A d \in Document : docs'[d] \in DocRecord
    BY <1>t, <1>4, <2>1
  <2>3. docs' \in [Document -> DocRecord]
    BY <1>1, <2>2
  <2> QED
    BY <1>3, <1>4, <2>1, <2>3 DEF Writes
<1>6. /\ t.op \in Looking \cup {"keep", "edit", "generate"} /\ t.pc # 0
      /\ t.op = "change" => t.pc = 4
      /\ t.op \in Looking => t.pc >= 4
  BY <1>2 DEF Looking
<1>7. CountsTo(r)
  <2>1. CASE Counts(r)
    <3>1. t.book \in Book
      BY <1>3, <2>1 DEF Counts, Sends, BookOf
    <3> QED
      BY <1>1, <2>1, <3>1 DEF CountsTo
  <2>2. CASE ~Counts(r)
    BY <1>1, <2>2 DEF CountsTo, Counts
  <2> QED
    BY <2>1, <2>2
<1> QED
  BY <1>1, <1>3, <1>5, <1>6, <1>7, Zenon

\* createDocument counts first.
LEMMA IncreaseShape ==
    ASSUME IInv, NEW r \in Request, IncreaseCount(r)
    PROVE  /\ task[r].op \in {"create", "enter"} /\ task[r].pc = 2 /\ task[r].book \in Book
           /\ KeepsOthers(r) /\ UNCHANGED <<docs, requests>>
           /\ \E u : Becomes(r, u) /\ Advances(task[r], u)
           /\ \E n \in Numbers : /\ FirstFree(n, count[task[r].book] + 1, Recorded(task[r].book))
                                 /\ count' = [count EXCEPT ![task[r].book] = n]
<1> DEFINE t == task[r]
<1>t. t \in TaskRecord /\ Shape(t)
  BY DEF IInv, TypeOK, TaskRecord, OpName
<1>1. /\ Label(r) = "increase" /\ Release(r) /\ UNCHANGED <<docs, requests>>
      /\ task' = [task EXCEPT ![r] = [t EXCEPT !.pc = @ + 1]]
      /\ \E n \in Numbers : /\ FirstFree(n, count[t.book] + 1, Recorded(t.book))
                            /\ count' = [count EXCEPT ![t.book] = n]
  BY DEF IncreaseCount, At, BookOf, Step
<1>2. t.op \in {"create", "enter"} /\ t.pc = 2 /\ t.book \in Book
  BY <1>1, <1>t, Labels DEF Shape
<1>3. t.pc # 0 /\ t.pc # 3 /\ t.pc < Last(t.op)
  BY <1>2, LastValues
<1>4. PICK u \in TaskRecord : u = [t EXCEPT !.pc = @ + 1] /\ Shape(u) /\ Advances(t, u)
  BY <1>t, <1>3, AdvanceType
<1>5. Becomes(r, u)
  BY <1>1, <1>4 DEF Becomes
<1> QED
  BY <1>1, <1>2, <1>4, <1>5, ReleaseShape

\* createDocument inserts one document.
LEMMA InsertShape ==
    ASSUME IInv, NEW r \in Request, Insert(r)
    PROVE  /\ task[r].op \in {"create", "enter"} /\ task[r].pc = 3 /\ task[r].book \in Book
           /\ task[r].code \in Numbers
           /\ End(r) /\ UNCHANGED <<count, requests>>
           /\ docs' \in [Document -> DocRecord]
           /\ \E d \in Document :
                 /\ task[r].docs = {d}
                 /\ docs'[d].state = "active" /\ docs'[d].book = task[r].book
                 /\ docs'[d].code = task[r].code
                 /\ docs'[d].lookedUp = (task[r].op = "create")
                 /\ \A e \in Document \ {d} : docs'[e] = docs[e]
<1> DEFINE t == task[r]
           l == t.op = "create"
<1>t. t \in TaskRecord /\ Shape(t) /\ docs \in [Document -> DocRecord]
  BY DEF IInv, TypeOK, TaskRecord, OpName, DocRecord
<1>1. /\ Label(r) = "insert" /\ End(r) /\ UNCHANGED <<count, requests>>
      /\ docs' = [d \in Document |->
                    IF d \in t.docs
                    THEN [NewDocument EXCEPT !.book = t.book, !.code = t.code, !.lookedUp = l]
                    ELSE docs[d]]
  BY DEF Insert, At, BookOf
<1>2. /\ t.op \in {"create", "enter"} /\ t.pc = 3 /\ t.book \in Book /\ t.code \in Numbers
      /\ l \in BOOLEAN
  BY <1>1, <1>t, Labels, TaskFields DEF Shape, Sending
<1>3. PICK d \in Document : t.docs = {d}
  BY <1>t, <1>2 DEF Shape, Sending
<1> DEFINE new == [NewDocument EXCEPT !.book = t.book, !.code = t.code, !.lookedUp = l]
<1> HIDE DEF l
<1>4. /\ new \in DocRecord /\ new.state = "active" /\ new.book = t.book /\ new.code = t.code
      /\ new.lookedUp = l
  BY <1>2 DEF NewDocument, DocRecord
<1> HIDE DEF new
<1>5. docs' = [x \in Document |-> IF x \in t.docs THEN new ELSE docs[x]]
  BY <1>1 DEF new
<1>6. docs' \in [Document -> DocRecord] /\ docs'[d] = new /\ \A e \in Document \ {d} : docs'[e] = docs[e]
  BY <1>t, <1>3, <1>4, <1>5
<1>7. docs'[d].lookedUp = (t.op = "create")
  BY <1>4, <1>6 DEF l
<1> QED
  BY <1>1, <1>2, <1>3, <1>4, <1>6, <1>7, Zenon

\* An insertion that does not count, a copy, and deleteDocument.
Inserted(d) ==
    /\ docs[d].state = "absent"
    /\ docs'[d].lookedUp => docs'[d].code = 0

Withdrawn(d) ==
    /\ docs[d].state = "active" /\ owner[d] = None
    /\ docs'[d].state = "deleted" /\ docs'[d].book = docs[d].book
    /\ docs'[d].code = docs[d].code /\ docs'[d].lookedUp = docs[d].lookedUp

LEMMA SingleShape ==
    ASSUME IInv, NEW r \in Request, Single(r)
    PROVE  /\ task[r] = Idle /\ requests' = requests + 1 /\ UNCHANGED <<count, owner, task>>
           /\ docs' \in [Document -> DocRecord]
           /\ \E d \in Document :
                 /\ \A e \in Document \ {d} : docs'[e] = docs[e]
                 /\ \/ Inserted(d) /\ Copy(r)
                    \/ Inserted(d) /\ File(r) /\ (docs'[d].book = None \/ docs'[d].lookedUp)
                    \/ Withdrawn(d) /\ Withdraw(r)
<1>t. docs \in [Document -> DocRecord]
  BY DEF IInv, TypeOK, DocRecord
<1>0. /\ task[r] = Idle /\ requests' = requests + 1 /\ UNCHANGED <<count, owner, task>>
  BY DEF Single, File, Copy, Withdraw, AtOnce
<1>s. ASSUME NEW d \in Document, NEW row \in DocRecord, docs' = [docs EXCEPT ![d] = row]
      PROVE  /\ docs' \in [Document -> DocRecord] /\ docs'[d] = row
             /\ \A e \in Document \ {d} : docs'[e] = docs[e]
  BY <1>t, <1>s
<1>1. CASE File(r)
  <2>1. PICK d \in Fresh, b \in Book \cup {None}, c \in {0} \cup Typed :
          /\ b = None \/ c = 0
          /\ docs' = [docs EXCEPT ![d] =
                        [NewDocument EXCEPT !.book = b, !.code = c, !.lookedUp = (c = 0)]]
    BY <1>1, Zenon DEF File
  <2>2. d \in Document /\ docs[d].state = "absent" /\ c \in {0} \cup Numbers
    BY BookAssumption DEF Fresh, Existing, Typed, Numbers
  <2> DEFINE l == c = 0
             row == [NewDocument EXCEPT !.book = b, !.code = c, !.lookedUp = l]
  <2>3. l \in BOOLEAN /\ (l => c = 0)
    OBVIOUS
  <2>4. docs' = [docs EXCEPT ![d] = row]
    BY <2>1
  <2> HIDE DEF l
  <2>5. /\ row \in DocRecord /\ row.lookedUp = l /\ row.code = c
        /\ row.book = None \/ row.lookedUp
    <3>1. b = None \/ l
      BY <2>1 DEF l
    <3> QED
      BY <2>2, <2>3, <3>1 DEF NewDocument, DocRecord
  <2> HIDE DEF row
  <2>6. /\ docs' \in [Document -> DocRecord] /\ docs'[d] = row
        /\ \A e \in Document \ {d} : docs'[e] = docs[e]
    BY <1>s, <2>2, <2>4, <2>5
  <2> QED
    BY <1>0, <1>1, <2>2, <2>3, <2>5, <2>6 DEF Inserted
<1>2. CASE Copy(r)
  <2>1. PICK d \in Fresh, e \in Existing :
          docs' = [docs EXCEPT ![d] = [docs[e] EXCEPT !.lookedUp = FALSE]]
    BY <1>2 DEF Copy
  <2>2. d \in Document /\ docs[d].state = "absent" /\ e \in Document
    BY DEF Fresh, Existing
  <2> DEFINE row == [docs[e] EXCEPT !.lookedUp = FALSE]
  <2>3. row \in DocRecord /\ ~row.lookedUp
    BY <1>t, <2>2 DEF DocRecord
  <2>4. docs' = [docs EXCEPT ![d] = row]
    BY <2>1
  <2> HIDE DEF row
  <2>5. /\ docs' \in [Document -> DocRecord] /\ docs'[d] = row
        /\ \A x \in Document \ {d} : docs'[x] = docs[x]
    BY <1>s, <2>2, <2>3, <2>4
  <2> QED
    BY <1>0, <1>2, <2>2, <2>3, <2>5 DEF Inserted
<1>3. CASE Withdraw(r)
  <2>1. PICK d \in Active : owner[d] = None /\ docs' = [docs EXCEPT ![d].state = "deleted"]
    BY <1>3 DEF Withdraw
  <2>2. d \in Document /\ docs[d].state = "active"
    BY DEF Active
  <2> DEFINE row == [docs[d] EXCEPT !.state = "deleted"]
  <2>3. /\ row \in DocRecord /\ row.state = "deleted" /\ row.book = docs[d].book
        /\ row.code = docs[d].code /\ row.lookedUp = docs[d].lookedUp
    BY <1>t, <2>2 DEF DocRecord
  <2>4. docs' = [docs EXCEPT ![d] = row]
    BY <2>1
  <2> HIDE DEF row
  <2>5. /\ docs' \in [Document -> DocRecord] /\ docs'[d] = row
        /\ \A x \in Document \ {d} : docs'[x] = docs[x]
    BY <1>s, <2>2, <2>3, <2>4
  <2> QED
    BY <1>0, <1>3, <2>1, <2>2, <2>3, <2>5 DEF Withdrawn
<1> QED
  BY <1>1, <1>2, <1>3 DEF Single

\* A request that is refused, fails or is the victim of a deadlock.
Ends(r) == Refuse(r) \/ DeadlockVictim(r) \/ Fail(r)

LEMMA EndsShape ==
    ASSUME NEW r \in Request, Ends(r)
    PROVE  End(r) /\ UNCHANGED <<docs, count, requests>>
BY DEF Ends, Refuse, DeadlockVictim, Fail, Rollback

----------------------------------------------------------------------------
(* Types, shapes and locks, for all handlers.                              *)

\* The documents and books are what they should be.
RowsOK ==
    /\ docs \in [Document -> DocRecord]
    /\ \A d \in Document : docs[d].lookedUp /\ docs[d].code # 0 => docs[d].book # None

RequestsOK ==
    /\ task \in [Request -> TaskRecord]
    /\ \A r \in Request : Shape(task[r]) /\ Holds(r, task[r], owner)

LEMMA IInvParts ==
    IInv <=> /\ RowsOK /\ RequestsOK /\ requests \in Nat
             /\ count \in [Book -> {0} \cup Numbers]
             /\ owner \in [Lockable -> Request \cup {None}]
BY DEF IInv, TypeOK, RowsOK, RequestsOK, DocRecord, TaskRecord, OpName

LEMMA RequestsStep ==
    ASSUME IInv, NEW r \in Request, NEW u, Becomes(r, u), KeepsOthers(r), Holds(r, u, owner')
    PROVE  RequestsOK' /\ owner' \in [Lockable -> Request \cup {None}]
<1>1. /\ task' \in [Request -> TaskRecord] /\ \A q \in Request : Shape(task'[q])
      /\ task'[r] = u /\ \A q \in Request \ {r} : task'[q] = task[q]
  BY TaskStep
<1>2. \A q \in Request : Holds(q, task'[q], owner')
  BY <1>1, OthersHold
<1> QED
  BY <1>1, <1>2 DEF RequestsOK, KeepsOthers

LEMMA EndStep ==
    ASSUME IInv, NEW r \in Request, End(r)
    PROVE  RequestsOK' /\ owner' \in [Lockable -> Request \cup {None}]
BY EndShape, RequestsStep, IdleHolds

LEMMA InitIInv == Init => IInv
<1> SUFFICES ASSUME Init PROVE IInv
  OBVIOUS
<1>1. RowsOK
  <2>1. /\ docs \in [Document -> {NewDocument, [NewDocument EXCEPT !.state = "absent"]}]
        /\ NewDocument \in DocRecord /\ [NewDocument EXCEPT !.state = "absent"] \in DocRecord
    BY DEF Init, NewDocument, DocRecord
  <2>2. docs \in [Document -> DocRecord]
    BY <2>1
  <2>3. \A d \in Document : docs[d].code = 0
    BY <2>1 DEF NewDocument
  <2> QED
    BY <2>2, <2>3 DEF RowsOK
<1>2. RequestsOK
  BY IdleType, IdleHolds DEF Init, RequestsOK
<1>3. count \in [Book -> {0} \cup Numbers]
  BY NumberTypes DEF Init
<1>4. requests \in Nat /\ owner \in [Lockable -> Request \cup {None}]
  BY DEF Init
<1> QED
  BY <1>1, <1>2, <1>3, <1>4, IInvParts

LEMMA NextIInv == IInv /\ [Next]_vars => IInv'
<1> SUFFICES ASSUME IInv, [Next]_vars PROVE IInv'
  OBVIOUS
<1>t. /\ RowsOK /\ RequestsOK /\ requests \in Nat
      /\ count \in [Book -> {0} \cup Numbers]
      /\ owner \in [Lockable -> Request \cup {None}]
  BY IInvParts
<1>r. ASSUME UNCHANGED docs PROVE RowsOK'
  BY <1>t, <1>r DEF RowsOK
<1>q. ASSUME RowsOK', RequestsOK', requests' \in Nat, count' \in [Book -> {0} \cup Numbers],
             owner' \in [Lockable -> Request \cup {None}]
      PROVE  IInv'
  BY <1>q, IInvParts DEF IInv, TypeOK, RowsOK, RequestsOK, DocRecord, TaskRecord, OpName
<1>1. ASSUME NEW r \in Request, NEW t, Begins(r, t) PROVE IInv'
  <2>1. Becomes(r, t) /\ t.pc = 1 /\ UNCHANGED <<docs, count, owner>> /\ requests' = requests + 1
    BY <1>1 DEF Begins
  <2>2. Holds(r, t, owner')
    BY <2>1 DEF Holds, HasBook, HasDocs
  <2>3. KeepsOthers(r)
    BY <1>t, <2>1 DEF KeepsOthers
  <2> QED
    BY <1>t, <1>r, <1>q, <2>1, <2>2, <2>3, RequestsStep
<1>2. ASSUME NEW r \in Request, Single(r) PROVE IInv'
  <2>1. /\ requests' = requests + 1 /\ UNCHANGED <<count, owner, task>>
        /\ docs' \in [Document -> DocRecord]
    BY <1>2, SingleShape
  <2>2. PICK d \in Document : /\ \A e \in Document \ {d} : docs'[e] = docs[e]
                              /\ Inserted(d) \/ Withdrawn(d)
    BY <1>2, SingleShape
  <2>3. RowsOK'
    BY <1>t, <2>1, <2>2 DEF RowsOK, Inserted, Withdrawn
  <2>4. RequestsOK'
    BY <1>t, <2>1 DEF RequestsOK
  <2> QED
    BY <1>t, <1>q, <2>1, <2>3, <2>4
<1>3. ASSUME NEW r \in Request, Lock(r) PROVE IInv'
  BY <1>t, <1>r, <1>q, <1>3, LockShape, RequestsStep
<1>4. ASSUME NEW r \in Request, Ends(r) PROVE IInv'
  BY <1>t, <1>r, <1>q, <1>4, EndsShape, EndStep
<1>5. ASSUME NEW r \in Request, GiveNumber(r) PROVE IInv'
  <2>1. PICK u : \E d \in Document, n \in Numbers : Becomes(r, u) /\ Gives(task[r], u, d, n)
    BY <1>5, GiveShape
  <2>2. /\ UNCHANGED <<docs, count, owner, requests>>
        /\ task[r].pc = 3 /\ task[r].op \in Looking
    BY <1>5, GiveShape
  <2>3. Holds(r, u, owner')
    <3>1. Holds(r, task[r], owner)
      BY <1>t DEF RequestsOK
    <3>2. u.op = task[r].op /\ u.book = task[r].book /\ u.docs = task[r].docs /\ u.pc \in {3, 4}
      BY <2>1 DEF Gives
    <3> QED
      BY <2>2, <3>1, <3>2 DEF Holds, HasBook, HasDocs, Looking
  <2>4. KeepsOthers(r)
    BY <1>t, <2>2 DEF KeepsOthers
  <2> QED
    BY <1>t, <1>r, <1>q, <2>1, <2>2, <2>3, <2>4, RequestsStep
<1>6. ASSUME NEW r \in Request, Commit(r) PROVE IInv'
  <2>1. /\ End(r) /\ UNCHANGED requests /\ docs' \in [Document -> DocRecord]
        /\ Writes(task[r]) /\ CountsTo(r)
    BY <1>6, CommitShape
  <2>2. RowsOK'
    <3>1. ASSUME NEW d \in Document
          PROVE  docs'[d].lookedUp /\ docs'[d].code # 0 => docs'[d].book # None
      <4>1. CASE d \in task[r].docs
        BY <2>1, <4>1, NumberTypes DEF Writes
      <4>2. CASE d \notin task[r].docs
        BY <1>t, <2>1, <4>2 DEF RowsOK, Writes
      <4> QED
        BY <4>1, <4>2
    <3> QED
      BY <2>1, <3>1 DEF RowsOK
  <2>3. count' \in [Book -> {0} \cup Numbers]
    BY <1>t, <2>1 DEF CountsTo
  <2> QED
    BY <1>t, <1>q, <2>1, <2>2, <2>3, EndStep
<1>7. ASSUME NEW r \in Request, IncreaseCount(r) PROVE IInv'
  <2>1. /\ task[r].op \in {"create", "enter"} /\ KeepsOthers(r) /\ UNCHANGED <<docs, requests>>
        /\ task[r].book \in Book
        /\ \E n \in Numbers : count' = [count EXCEPT ![task[r].book] = n]
    BY <1>7, IncreaseShape
  <2>2. PICK u : Becomes(r, u) /\ Advances(task[r], u)
    BY <1>7, IncreaseShape
  <2>3. Holds(r, u, owner')
    BY <2>1, <2>2 DEF Advances, Holds, HasBook, HasDocs
  <2>4. count' \in [Book -> {0} \cup Numbers]
    BY <1>t, <2>1
  <2> QED
    BY <1>t, <1>r, <1>q, <2>1, <2>2, <2>3, <2>4, RequestsStep
<1>8. ASSUME NEW r \in Request, Insert(r) PROVE IInv'
  <2>1. /\ End(r) /\ UNCHANGED <<count, requests>> /\ docs' \in [Document -> DocRecord]
        /\ task[r].book \in Book /\ task[r].code \in Numbers
    BY <1>8, InsertShape
  <2>2. PICK d \in Document : /\ docs'[d].state = "active" /\ docs'[d].book = task[r].book
                              /\ docs'[d].code = task[r].code
                              /\ \A e \in Document \ {d} : docs'[e] = docs[e]
    BY <1>8, InsertShape
  <2>3. RowsOK'
    BY <1>t, <2>1, <2>2, NumberTypes DEF RowsOK
  <2> QED
    BY <1>t, <1>q, <2>1, <2>3, EndStep
<1>9. CASE UNCHANGED vars
  BY <1>9 DEF vars, IInv, TypeOK
<1> QED
  BY <1>1, <1>2, <1>3, <1>4, <1>5, <1>6, <1>7, <1>8, <1>9, ArrivalShape
  DEF Next, Progress, Ends, Quiescent

\* The rows of documents and books, and what a request keeps of them, whatever
\* is at work together; a number that the server looked for is in a book.
THEOREM TypeCorrect == Spec => []TypeOK
<1>1. IInv => TypeOK
  BY DEF IInv
<1> QED
  BY <1>1, InitIInv, NextIInv, PTL DEF Spec

----------------------------------------------------------------------------
(* The numbers of the books, under Safe.                                   *)

LEMMA CodesDef ==
    \A b, D, rows, x :
        /\ x \in Codes(b, D, rows) <=>
              \E e \in D : /\ rows[e].state = "active" /\ rows[e].book = b
                           /\ rows[e].code = x /\ x # 0
        /\ x \in Found(b, D, rows) <=>
              \E e \in D : /\ rows[e].state = "active" /\ rows[e].book = b
                           /\ rows[e].code = x /\ x # 0 /\ rows[e].lookedUp
BY DEF Codes, Found

LEMMA LookedUpDef ==
    \A b, d :
        /\ d \in LookedUp(b) <=>
              /\ d \in Document /\ docs[d].state = "active" /\ docs[d].book = b
              /\ docs[d].code # 0 /\ docs[d].lookedUp
        /\ d \in LookedUp(b)' <=>
              /\ d \in Document /\ docs'[d].state = "active" /\ docs'[d].book = b
              /\ docs'[d].code # 0 /\ docs'[d].lookedUp
BY DEF LookedUp, InBook, Active

\* What a request in progress sees of its book.
LEMMA TakenShape ==
    ASSUME NEW r \in Request
    PROVE  /\ Codes(task[r].book, Document \ task[r].docs, docs) \subseteq Taken(r)
           /\ \A w \in task[r].codes : w[2] \in Taken(r)
           /\ Codes(task[r].book, Document, docs) \subseteq Recorded(task[r].book)
           /\ Taken(r) \subseteq Codes(task[r].book, Document \ Hidden(r), docs)
                                   \cup {w[2] : w \in task[r].codes}
<1> DEFINE b == task[r].book
<1>1. Hidden(r) \subseteq task[r].docs
  BY DEF Hidden
<1>2. \A x : x \in Taken(r) <=>
        \/ \E d \in Document : /\ d \notin Hidden(r) /\ docs[d].state = "active"
                               /\ docs[d].book = b /\ docs[d].code = x /\ x # 0
        \/ \E w \in task[r].codes : w[2] = x
  BY DEF Taken, InBook, Active, BookOf, OwnCodes
<1>3. \A x : x \in Recorded(b) <=>
        \E d \in Document : docs[d].book = b /\ docs[d].code = x /\ x # 0
  BY DEF Recorded, InBook
<1> HIDE DEF b
<1>4. \A x \in Codes(b, Document \ task[r].docs, docs) : x \in Taken(r)
  BY <1>1, <1>2, CodesDef
<1>5. \A x \in Codes(b, Document, docs) : x \in Recorded(b)
  BY <1>3, CodesDef
<1>6. \A x \in Taken(r) : x \in Codes(b, Document \ Hidden(r), docs) \/ \E w \in task[r].codes : w[2] = x
  BY <1>2, CodesDef
<1> QED
  BY <1>2, <1>4, <1>5, <1>6 DEF b

\* The count that a commit writes is none of the numbers there will be.
LEMMA NextCountFree ==
    ASSUME IInv, NEW r \in Request, Commit(r), NEW n \in Numbers, NextCount(r, n)
    PROVE  /\ n \notin Codes(task[r].book, Document \ task[r].docs, docs)
           /\ \A w \in task[r].codes : w[2] # n
           /\ task[r].op \in {"keep", "edit"} => n # task[r].code
<1> DEFINE t == task[r]
<1>t. /\ t \in TaskRecord /\ Shape(t) /\ t.op \in Looking \cup {"keep", "edit", "generate"}
      /\ t.code \in Nat
  BY CommitShape, IInvParts, TaskFields, NumbersAreNat DEF RequestsOK
<1>1. /\ Codes(t.book, Document \ t.docs, docs) \subseteq Taken(r)
      /\ \A w \in t.codes : w[2] \in Taken(r)
      /\ Codes(t.book, Document \ t.docs, docs) \subseteq Recorded(t.book)
  <2>1. \A x \in Codes(t.book, Document \ t.docs, docs) : x \in Codes(t.book, Document, docs)
    BY CodesDef
  <2> QED
    BY <2>1, TakenShape
<1>2. ASSUME n \notin Taken(r), t.op \notin {"keep", "edit"}
      PROVE  /\ n \notin Codes(t.book, Document \ t.docs, docs)
             /\ \A w \in t.codes : w[2] # n
  BY <1>1, <1>2
<1>3. \A S : AfterLargest(n, S) => n \notin S
  BY NumberTypes DEF AfterLargest
<1>4. CASE t.op = "assign"
  BY <1>2, <1>4 DEF NextCount, FirstFree
<1>5. CASE t.op = "change"
  BY <1>2, <1>3, <1>5 DEF NextCount
<1>6. CASE t.op = "generate"
  <2>1. PICK m \in Numbers : AfterLargest(n, Taken(r) \cup {m})
    BY <1>6 DEF NextCount
  <2>2. n \notin Taken(r) \cup {m}
    BY <1>3, <2>1
  <2> QED
    BY <1>2, <1>6, <2>2
<1>7. CASE t.op \in {"refile", "keep", "edit"}
  <2>1. CASE t.op = "refile" /\ AfterLargest(n, Taken(r))
    BY <1>2, <1>3, <2>1
  <2>2. CASE FirstFree(n, t.code + 1, Recorded(t.book))
    <3>1. n # t.code
      BY <1>t, <2>2, NumberTypes DEF FirstFree
    <3>2. \A w \in t.codes : w[2] = t.code
      BY <1>t, <1>7 DEF Shape, Looking
    <3> QED
      BY <1>1, <2>2, <3>1, <3>2 DEF FirstFree
  <2> QED
    BY <1>7, <2>1, <2>2 DEF NextCount, BookOf
<1> QED
  BY <1>t, <1>4, <1>5, <1>6, <1>7 DEF Looking

\* A commit keeps the numbers of the book apart, and its count free.
LEMMA CommitKeeps ==
    ASSUME IInv, UniqueCode, CountIsFree, NEW r \in Request, Commit(r),
           Good(task[r], docs, count)
    PROVE  UniqueCode' /\ CountIsFree'
<1> DEFINE t == task[r]
<1>t. /\ t \in TaskRecord /\ Shape(t) /\ t.docs \subseteq Document
      /\ t.op \in Looking \cup {"keep", "edit", "generate"} /\ Writes(t) /\ CountsTo(r)
      /\ count \in [Book -> {0} \cup Numbers]
  BY CommitShape, IInvParts DEF RequestsOK
\* A row that the commit wrote has a number of the request, or is as it was.
<1>1. ASSUME NEW b \in Book, NEW d \in t.docs, d \in LookedUp(b)'
      PROVE  /\ b = t.book
             /\ \/ t.op \in Looking /\ <<d, docs'[d].code>> \in t.codes
                \/ /\ t.op = "keep" /\ t.docs = {d} /\ d \in LookedUp(b)
                   /\ docs'[d].code = docs[d].code /\ docs'[d].code = t.code
  <2>1. /\ docs'[d].book = b /\ docs'[d].lookedUp /\ docs'[d].state = "active" /\ docs'[d].code # 0
        /\ d \in Document
    BY <1>1, LookedUpDef
  <2>2. b = t.book /\ t.op \notin {"edit", "generate"}
    BY <1>t, <1>1, <2>1 DEF Writes, Shape
  <2>3. CASE t.op \in Looking
    BY <1>t, <1>1, <2>2, <2>3 DEF Writes
  <2>4. CASE t.op = "keep"
    <3>1. t.docs = {d}
      BY <1>t, <1>1, <2>4 DEF Shape, Sending
    <3>2. /\ docs[d].book = b /\ docs[d].code = t.code /\ docs'[d].code = t.code
          /\ docs[d].state = "active" /\ docs[d].lookedUp
      BY <1>t, <1>1, <2>1, <2>2, <2>4 DEF Good, Writes, Looking
    <3>3. d \in LookedUp(b)
      BY <2>1, <3>2, LookedUpDef
    <3> QED
      BY <2>2, <2>4, <3>1, <3>2, <3>3
  <2> QED
    BY <1>t, <2>2, <2>3, <2>4
<1>2. ASSUME NEW b \in Book, NEW e \in Document \ t.docs, e \in LookedUp(b)'
      PROVE  /\ e \in LookedUp(b) /\ docs'[e].code = docs[e].code
             /\ b = t.book => docs[e].code \in Codes(t.book, Document \ t.docs, docs)
  <2>1. docs'[e] = docs[e]
    BY <1>t DEF Writes
  <2>2. e \in LookedUp(b) /\ docs[e].state = "active" /\ docs[e].book = b /\ docs[e].code # 0
    BY <1>2, <2>1, LookedUpDef
  <2> QED
    BY <2>1, <2>2, CodesDef
<1>3. ASSUME NEW b \in Book, NEW d \in t.docs, NEW e \in Document, d # e,
             d \in LookedUp(b)', e \in LookedUp(b)'
      PROVE  docs'[d].code # docs'[e].code
  <2>1. CASE t.op = "keep"
    <3>1. /\ d \in LookedUp(b) /\ docs'[d].code = docs[d].code /\ e \notin t.docs
      BY <1>1, <1>3, <2>1 DEF Looking
    <3>2. e \in LookedUp(b) /\ docs'[e].code = docs[e].code
      BY <1>2, <1>3, <3>1
    <3> QED
      BY <1>3, <3>1, <3>2 DEF UniqueCode
  <2>2. CASE t.op # "keep" /\ e \in t.docs
    <3>1. <<d, docs'[d].code>> \in t.codes /\ <<e, docs'[e].code>> \in t.codes
      BY <1>1, <1>3, <2>2
    <3>2. \A w, v \in t.codes : w[2] = v[2] => w = v
      BY <1>t DEF Shape
    <3> QED
      BY <1>3, <3>1, <3>2
  <2>3. CASE t.op # "keep" /\ e \notin t.docs
    <3>1. <<d, docs'[d].code>> \in t.codes /\ b = t.book
      BY <1>1, <1>3, <2>3
    <3>2. docs'[d].code \notin Codes(t.book, Document \ t.docs, docs)
      BY <3>1 DEF Good
    <3>3. docs'[e].code \in Codes(t.book, Document \ t.docs, docs)
      BY <1>2, <1>3, <2>3, <3>1
    <3> QED
      BY <3>2, <3>3
  <2> QED
    BY <2>1, <2>2, <2>3
<1>4. UniqueCode'
  <2>1. ASSUME NEW b \in Book, NEW d \in LookedUp(b)', NEW e \in LookedUp(b)', d # e
        PROVE  docs'[d].code # docs'[e].code
    <3>1. d \in Document /\ e \in Document
      BY <2>1, LookedUpDef
    <3>2. CASE d \in t.docs
      BY <1>3, <2>1, <3>1, <3>2
    <3>3. CASE e \in t.docs
      BY <1>3, <2>1, <3>1, <3>3
    <3>4. CASE d \notin t.docs /\ e \notin t.docs
      <4>1. /\ d \in LookedUp(b) /\ docs'[d].code = docs[d].code
            /\ e \in LookedUp(b) /\ docs'[e].code = docs[e].code
        BY <1>2, <2>1, <3>1, <3>4
      <4> QED
        BY <2>1, <4>1 DEF UniqueCode
    <3> QED
      BY <3>2, <3>3, <3>4
  <2> QED
    BY <2>1 DEF UniqueCode
<1>5. ASSUME NEW b \in Book, NEW e \in LookedUp(b)'
      PROVE  docs'[e].code # count'[b]
  <2>e. e \in Document
    BY <1>5, LookedUpDef
  <2>1. CASE e \in LookedUp(b) /\ docs'[e].code = docs[e].code /\ count'[b] = count[b]
    BY <1>5, <2>1 DEF CountIsFree
  <2>2. ASSUME count'[b] # count[b] PROVE docs'[e].code # count'[b]
    <3>1. PICK n \in Numbers : NextCount(r, n) /\ count' = [count EXCEPT ![t.book] = n]
      BY <1>t, <2>2 DEF CountsTo
    <3>2. b = t.book /\ count'[b] = n
      BY <1>t, <2>2, <3>1
    <3>3. /\ n \notin Codes(t.book, Document \ t.docs, docs)
          /\ \A w \in t.codes : w[2] # n
          /\ t.op = "keep" => n # t.code
      BY <3>1, NextCountFree
    <3>4. CASE e \in t.docs
      <4>1. <<e, docs'[e].code>>[2] = docs'[e].code
        OBVIOUS
      <4> QED
        BY <1>1, <1>5, <3>2, <3>3, <3>4, <4>1
    <3>5. CASE e \notin t.docs
      BY <1>2, <1>5, <2>e, <3>2, <3>3, <3>5
    <3> QED
      BY <3>4, <3>5
  <2>3. CASE e \in t.docs /\ t.op # "keep"
    <3>1. <<e, docs'[e].code>> \in t.codes /\ b = t.book /\ t.op \in Looking
      BY <1>1, <1>5, <2>3
    <3>2. PICK n \in Numbers : NextCount(r, n) /\ count' = [count EXCEPT ![t.book] = n]
      BY <1>t, <3>1 DEF CountsTo, Sends, Looking
    <3>3. \A w \in t.codes : w[2] # n
      BY <3>2, NextCountFree
    <3>4. count'[b] = n /\ <<e, docs'[e].code>>[2] = docs'[e].code
      BY <1>t, <3>1, <3>2
    <3> QED
      BY <3>1, <3>3, <3>4
  <2>4. CASE e \notin t.docs \/ t.op = "keep"
    <3>1. e \in LookedUp(b) /\ docs'[e].code = docs[e].code
      BY <1>1, <1>2, <1>5, <2>e, <2>4 DEF Looking
    <3> QED
      BY <2>1, <2>2, <3>1
  <2> QED
    BY <2>3, <2>4
<1>6. CountIsFree'
  BY <1>5 DEF CountIsFree
<1> QED
  BY <1>4, <1>6

LEMMA GoodStep ==
    ASSUME IInv, NEW r \in Request, NEW u, Becomes(r, u), Good(u, docs', count'),
           \A q \in Request \ {r} : Good(task[q], docs', count')
    PROVE  \A q \in Request : Good(task'[q], docs', count')
BY TaskStep

\* The handlers that keep a number or take one from the client, and the
\* insertions that do not count, only run alone.
LEMMA SafeOperation ==
    ASSUME Safe, IInv, NEW r \in Request,
           task[r].op \in Sending \/ File(r) \/ Copy(r)
    PROVE  Alone
<1>1. task[r].op # "none" => task[r].op \in Operations
  BY DEF IInv, Shape
<1>2. CASE task[r].op \in Sending
  BY <1>1, <1>2 DEF Safe, Locking, Sending
<1>3. CASE File(r) \/ Copy(r)
  <2>1. "file" \in Operations \/ "copy" \in Operations
    BY <1>3 DEF File, Copy, AtOnce
  <2> QED
    BY <2>1 DEF Safe, Locking
<1> QED
  BY <1>2, <1>3

\* A commit takes nothing from another request: it holds the lock of its book
\* and those of its documents.
LEMMA CommitOthers ==
    ASSUME Safe, IInv, NEW r \in Request, Commit(r), NEW q \in Request \ {r},
           Good(task[q], docs, count)
    PROVE  Good(task[q], docs', count')
<1>1. ~Alone
  BY DEF Alone
<1>2. task[r].op \notin Sending /\ task[q].op \notin Sending
  BY <1>1, SafeOperation
<1>3. /\ owner[task[r].book] = r /\ \A d \in task[r].docs : owner[d] = r
      /\ Writes(task[r])
  BY <1>2, CommitShape DEF Sending
<1> DEFINE t == task[q]
<1>4. /\ t \in TaskRecord /\ Shape(t) /\ Holds(q, t, owner) /\ t.docs \subseteq Document
      /\ t.pc \in 0..5 /\ t.op \in OpName
  BY IInvParts, TaskFields DEF RequestsOK
<1>5. ASSUME HasDocs(t)
      PROVE  \A d \in t.docs : docs'[d] = docs[d]
  <2>1. \A d \in t.docs : d \notin task[r].docs
    BY <1>3, <1>4, <1>5 DEF Holds
  <2> QED
    BY <1>3, <1>4, <2>1 DEF Writes
<1>6. t.codes # {} => t.op \in {"assign", "change", "refile"} /\ t.pc >= 3
  BY <1>4 DEF Shape, Looking
<1>7. ASSUME NEW w \in t.codes
      PROVE  w[2] \notin Codes(t.book, Document \ t.docs, docs')
  <2>1. HasBook(t)
    BY <1>4, <1>6, <1>7 DEF HasBook
  <2>2. t.book # task[r].book
    BY <1>3, <1>4, <2>1 DEF Holds
  <2>3. \A d \in Document : docs'[d].book = t.book => docs'[d] = docs[d]
    BY <1>3, <2>2 DEF Writes
  <2>4. \A x \in Codes(t.book, Document \ t.docs, docs') : x \in Codes(t.book, Document \ t.docs, docs)
    BY <2>3, CodesDef
  <2> QED
    BY <1>7, <2>4 DEF Good
<1>8. t.op = "assign" /\ t.codes # {} => \A d \in t.docs : docs'[d].book = None
  BY <1>5, <1>6 DEF HasDocs, Good
<1>9. t.op = "change" /\ t.pc = 4 => \A d \in t.docs : docs'[d].state = "active"
  BY <1>5 DEF HasDocs, Good
<1> QED
  BY <1>2, <1>7, <1>8, <1>9 DEF Good, Sending

\* A document that is withdrawn is locked by nobody.
LEMMA SingleOthers ==
    ASSUME Safe, IInv, NEW r \in Request, Single(r), NEW q \in Request,
           Good(task[q], docs, count)
    PROVE  Good(task[q], docs', count')
<1> DEFINE t == task[q]
<1>1. UNCHANGED count /\ task[r] = Idle
  BY SingleShape
<1>2. CASE Alone
  BY <1>1, <1>2, IdleGood DEF Alone
<1>3. CASE ~Alone
  <2>0. ~File(r) /\ ~Copy(r)
    BY <1>3, SafeOperation
  <2>1. PICK d \in Document : Withdrawn(d) /\ \A e \in Document \ {d} : docs'[e] = docs[e]
    BY <2>0, SingleShape
  <2>2. /\ t.op \notin Sending /\ Holds(q, t, owner) /\ t.docs \subseteq Document
    BY <1>3, SafeOperation, IInvParts, TaskFields DEF RequestsOK
  <2>3. \A x \in Codes(t.book, Document \ t.docs, docs') : x \in Codes(t.book, Document \ t.docs, docs)
    BY <2>1, CodesDef DEF Withdrawn
  <2>4. t.op = "change" /\ t.pc = 4 => \A x \in t.docs : docs'[x].state = "active"
    <3>1. t.op = "change" /\ t.pc = 4 => d \notin t.docs
      BY <2>1, <2>2, NumberTypes DEF Holds, HasDocs, Withdrawn
    <3> QED
      BY <2>1, <2>2, <3>1 DEF Good
  <2>5. \A x \in t.docs : docs'[x].book = docs[x].book
    BY <2>1, <2>2 DEF Withdrawn
  <2> QED
    BY <2>2, <2>3, <2>4, <2>5 DEF Good, Sending
<1> QED
  BY <1>2, <1>3

LEMMA NextBookInv == Safe /\ IInv /\ BookInv /\ [Next]_vars => BookInv'
<1> SUFFICES ASSUME Safe, IInv, BookInv, [Next]_vars PROVE BookInv'
  OBVIOUS
<1>i. UniqueCode /\ CountIsFree /\ \A q \in Request : Good(task[q], docs, count)
  BY DEF BookInv
\* What is looked up in a book is as it was, and the count of the book too.
<1>k. ASSUME \A b \in Book : \A d \in LookedUp(b)' : d \in LookedUp(b) /\ docs'[d].code = docs[d].code
      PROVE  UniqueCode' /\ (UNCHANGED count => CountIsFree')
  BY <1>i, <1>k DEF UniqueCode, CountIsFree
<1>u. ASSUME UNCHANGED <<docs, count>>
      PROVE  /\ UniqueCode' /\ CountIsFree'
             /\ \A q \in Request : Good(task[q], docs', count')
  <2>1. \A b \in Book : \A d \in LookedUp(b)' : d \in LookedUp(b) /\ docs'[d].code = docs[d].code
    BY <1>u, LookedUpDef
  <2> QED
    BY <1>i, <1>k, <1>u, <2>1
<1>e. ASSUME NEW r \in Request, End(r), \A q \in Request : Good(task[q], docs', count') \/ q = r
      PROVE  \A q \in Request : Good(task'[q], docs', count')
  BY <1>e, EndShape, GoodStep, IdleGood
<1>1. ASSUME NEW r \in Request, NEW t, Begins(r, t) PROVE BookInv'
  <2>1. UNCHANGED <<docs, count>> /\ Becomes(r, t)
    BY <1>1 DEF Begins
  <2>2. Good(t, docs, count)
    <3>1. t.codes = {} /\ t.pc = 1 /\ (t.op = "create" => t.book \in Book)
      BY <1>1, <2>1 DEF Begins, Becomes, Shape
    <3>2. t.op = "create" => t.code \notin Found(t.book, Document, docs)
      <4>1. t.op = "create" => t.code = count[t.book]
        BY <1>1 DEF Begins
      <4>2. t.op = "create" => \A d \in LookedUp(t.book) : docs[d].code # count[t.book]
        BY <1>i, <3>1 DEF CountIsFree
      <4> QED
        BY <4>1, <4>2, CodesDef, LookedUpDef
    <3> QED
      BY <1>1, <3>1, <3>2 DEF Begins, Good
  <2> QED
    BY <1>u, <2>1, <2>2, GoodStep DEF BookInv
<1>2. ASSUME NEW r \in Request, Single(r) PROVE BookInv'
  <2>1. UNCHANGED <<count, task>>
    BY <1>2, SingleShape
  <2>2. PICK d \in Document : /\ \A e \in Document \ {d} : docs'[e] = docs[e]
                              /\ Inserted(d) \/ Withdrawn(d)
    BY <1>2, SingleShape
  <2>3. \A b \in Book : \A e \in LookedUp(b)' : e \in LookedUp(b) /\ docs'[e].code = docs[e].code
    BY <2>2, LookedUpDef DEF Inserted, Withdrawn
  <2> QED
    BY <1>2, <1>i, <1>k, <2>1, <2>3, SingleOthers DEF BookInv
<1>3. ASSUME NEW r \in Request, Lock(r) PROVE BookInv'
  <2>1. UNCHANGED <<docs, count>>
    BY <1>3, LockShape
  <2>2. PICK u : /\ Becomes(r, u) /\ Advances(task[r], u)
                 /\ u.op \in {"create", "enter"} => u.pc = 2
                 /\ u.op = "change" => u.pc <= 3
    BY <1>3, LockShape
  <2>3. /\ u.pc # 4 \/ u.op # "change"
        /\ u.op = "create" => u.pc # 3 /\ task[r].pc # 3
    BY <2>2, IInvParts, TaskFields DEF RequestsOK, Advances
  <2>4. Good(u, docs, count)
    <3>1. Good(task[r], docs, count)
      BY <1>i
    <3>2. /\ u.op = task[r].op /\ u.docs = task[r].docs /\ u.book = task[r].book
          /\ u.code = task[r].code /\ u.codes = task[r].codes
      BY <2>2 DEF Advances
    <3>3. u.op = "create" => /\ u.code \notin Found(u.book, Document, docs)
                             /\ count[u.book] = u.code
      BY <2>3, <3>1, <3>2 DEF Good
    <3> QED
      BY <2>3, <3>1, <3>2, <3>3 DEF Good
  <2> QED
    BY <1>u, <2>1, <2>2, <2>4, GoodStep DEF BookInv
<1>4. ASSUME NEW r \in Request, Ends(r) PROVE BookInv'
  BY <1>4, <1>u, <1>e, EndsShape DEF BookInv
<1>5. ASSUME NEW r \in Request, GiveNumber(r) PROVE BookInv'
  <2>1. UNCHANGED <<docs, count>> /\ ~Refused(r) /\ task[r].op \in Looking
    BY <1>5, GiveShape
  <2>2. PICK u : \E d \in Document, n \in Numbers :
                   Becomes(r, u) /\ Gives(task[r], u, d, n) /\ n \notin Taken(r)
    BY <1>5, GiveShape
  <2>3. PICK d \in Document, n \in Numbers :
          Becomes(r, u) /\ Gives(task[r], u, d, n) /\ n \notin Taken(r)
    BY <2>2
  <2>4. /\ u.op = task[r].op /\ u.docs = task[r].docs /\ u.book = task[r].book
        /\ u.codes = task[r].codes \cup {<<d, n>>}
    BY <2>3 DEF Gives
  <2>5. \A w \in u.codes : w[2] \notin Codes(u.book, Document \ u.docs, docs)
    <3>1. n \notin Codes(u.book, Document \ u.docs, docs)
      BY <2>3, <2>4, TakenShape
    <3>2. \A w \in task[r].codes : w[2] \notin Codes(u.book, Document \ u.docs, docs)
      BY <1>i, <2>4 DEF Good
    <3> QED
      BY <2>4, <3>1, <3>2
  <2>6. Good(u, docs, count)
    BY <2>1, <2>4, <2>5 DEF Good, Refused, Looking
  <2> QED
    BY <1>u, <2>1, <2>3, <2>6, GoodStep DEF BookInv
<1>6. ASSUME NEW r \in Request, Commit(r) PROVE BookInv'
  BY <1>6, <1>i, <1>e, CommitShape, CommitKeeps, CommitOthers DEF BookInv
<1>7. ASSUME NEW r \in Request, IncreaseCount(r) PROVE BookInv'
  <2>1. /\ task[r].op \in {"create", "enter"} /\ task[r].pc = 2 /\ task[r].book \in Book
        /\ UNCHANGED docs
    BY <1>7, IncreaseShape
  <2>2. PICK u : Becomes(r, u) /\ Advances(task[r], u)
    BY <1>7, IncreaseShape
  <2>3. PICK n \in Numbers : /\ FirstFree(n, count[task[r].book] + 1, Recorded(task[r].book))
                             /\ count' = [count EXCEPT ![task[r].book] = n]
    BY <1>7, IncreaseShape
  <2>4. \A q \in Request : q = r
    BY <2>1, SafeOperation DEF Alone, Sending
  <2>t. count \in [Book -> {0} \cup Numbers] /\ \A x \in {0} \cup Numbers : x \in Nat
    BY IInvParts, NumberTypes
  <2>5. /\ count'[task[r].book] = n /\ n # count[task[r].book]
        /\ n \notin Codes(task[r].book, Document, docs)
        /\ \A b \in Book \ {task[r].book} : count'[b] = count[b]
    <3>1. Codes(task[r].book, Document, docs) \subseteq Recorded(task[r].book)
      BY TakenShape
    <3>2. count[task[r].book] \in {0} \cup Numbers
      BY <2>1, <2>t
    <3>3. count[task[r].book] \in Nat /\ n \in Nat
      BY <2>t, <3>2, Zenon
    <3>4. n # count[task[r].book] /\ n \notin Recorded(task[r].book)
      BY <2>3, <3>3 DEF FirstFree
    <3> QED
      BY <2>1, <2>3, <2>t, <3>1, <3>4
  <2>6. \A b \in Book : \A d \in LookedUp(b)' : d \in LookedUp(b) /\ docs'[d].code = docs[d].code
    BY <2>1, LookedUpDef
  <2>7. CountIsFree'
    <3>1. ASSUME NEW b \in Book, NEW d \in LookedUp(b)' PROVE docs'[d].code # count'[b]
      <4>1. d \in LookedUp(b) /\ docs'[d].code = docs[d].code
        BY <2>6, <3>1
      <4>2. docs[d].code \in Codes(b, Document, docs)
        BY <4>1, CodesDef, LookedUpDef
      <4> QED
        BY <1>i, <2>5, <4>1, <4>2 DEF CountIsFree
    <3> QED
      BY <3>1 DEF CountIsFree
  <2>8. Good(u, docs', count')
    <3>1. Good(task[r], docs, count)
      BY <1>i
    <3>2. /\ u.op = task[r].op /\ u.pc = 3 /\ u.book = task[r].book /\ u.code = task[r].code
          /\ u.docs = task[r].docs /\ u.codes = task[r].codes
      BY <2>1, <2>2 DEF Advances
    <3>3. u.op = "create" => count'[u.book] # u.code
      BY <2>1, <2>5, <3>1, <3>2 DEF Good
    <3> QED
      BY <2>1, <3>1, <3>2, <3>3 DEF Good
  <2> QED
    BY <1>k, <2>2, <2>4, <2>6, <2>7, <2>8, GoodStep DEF BookInv
<1>8. ASSUME NEW r \in Request, Insert(r) PROVE BookInv'
  <2>1. /\ task[r].op \in {"create", "enter"} /\ task[r].pc = 3 /\ End(r) /\ UNCHANGED count
        /\ task[r].book \in Book
    BY <1>8, InsertShape
  <2>2. PICK d \in Document :
          /\ docs'[d].state = "active" /\ docs'[d].book = task[r].book
          /\ docs'[d].code = task[r].code /\ docs'[d].lookedUp = (task[r].op = "create")
          /\ \A e \in Document \ {d} : docs'[e] = docs[e]
    BY <1>8, InsertShape
  <2>3. task[r].op = "create" => /\ task[r].code \notin Found(task[r].book, Document, docs)
                                 /\ count[task[r].book] # task[r].code
    BY <1>i, <2>1 DEF Good
  <2>4. \A q \in Request : q = r
    BY <2>1, SafeOperation DEF Alone, Sending
  <2>5. ASSUME NEW b \in Book, NEW e \in LookedUp(b)', e # d
        PROVE  /\ e \in LookedUp(b) /\ docs'[e].code = docs[e].code
               /\ b = task[r].book => docs'[e].code \in Found(task[r].book, Document, docs)
    <3>1. docs'[e] = docs[e] /\ e \in Document
      BY <2>2, <2>5, LookedUpDef
    <3>2. e \in LookedUp(b)
      BY <2>5, <3>1, LookedUpDef
    <3> QED
      BY <3>1, <3>2, CodesDef, LookedUpDef
  <2>6. ASSUME NEW b \in Book, d \in LookedUp(b)'
        PROVE  b = task[r].book /\ task[r].op = "create"
    BY <2>2, <2>6, LookedUpDef
  <2>7. UniqueCode'
    <3>1. ASSUME NEW b \in Book, NEW x \in LookedUp(b)', NEW e \in LookedUp(b)', x # e
          PROVE  docs'[x].code # docs'[e].code
      <4>1. CASE x = d
        BY <2>2, <2>3, <2>5, <2>6, <3>1, <4>1
      <4>2. CASE e = d
        BY <2>2, <2>3, <2>5, <2>6, <3>1, <4>2
      <4>3. CASE x # d /\ e # d
        BY <1>i, <2>5, <3>1, <4>3 DEF UniqueCode
      <4> QED
        BY <4>1, <4>2, <4>3
    <3> QED
      BY <3>1 DEF UniqueCode
  <2>8. CountIsFree'
    <3>1. ASSUME NEW b \in Book, NEW e \in LookedUp(b)' PROVE docs'[e].code # count'[b]
      <4>1. CASE e = d
        BY <2>1, <2>2, <2>3, <2>6, <3>1, <4>1
      <4>2. CASE e # d
        BY <1>i, <2>1, <2>5, <3>1, <4>2 DEF CountIsFree
      <4> QED
        BY <4>1, <4>2
    <3> QED
      BY <3>1 DEF CountIsFree
  <2> QED
    BY <1>e, <2>1, <2>4, <2>7, <2>8 DEF BookInv
<1>9. CASE UNCHANGED vars
  BY <1>9, <1>u DEF vars, BookInv
<1> QED
  BY <1>1, <1>2, <1>3, <1>4, <1>5, <1>6, <1>7, <1>8, <1>9, ArrivalShape
  DEF Next, Progress, Ends, Quiescent

LEMMA InitBookInv == Init => BookInv
<1> SUFFICES ASSUME Init PROVE BookInv
  OBVIOUS
<1>1. \A d \in Document : docs[d].code = 0
  BY DEF Init, NewDocument
<1>2. \A r \in Request : Good(task[r], docs, count)
  BY IdleGood DEF Init
<1>3. \A b : LookedUp(b) = {}
  BY <1>1, LookedUpDef
<1> QED
  BY <1>2, <1>3 DEF BookInv, UniqueCode, CountIsFree

LEMMA Invariants == Safe => (Spec => [](IInv /\ BookInv))
<1> SUFFICES ASSUME Safe PROVE Spec => [](IInv /\ BookInv)
  OBVIOUS
<1>1. IInv /\ BookInv /\ [Next]_vars => (IInv /\ BookInv)'
  BY NextIInv, NextBookInv
<1>2. Init => IInv /\ BookInv
  BY InitIInv, InitBookInv
<1> QED
  BY <1>1, <1>2, PTL DEF Spec

\* assign, change, refile and generate beside each other and beside withdrawals,
\* or all handlers one request at a time, clients' numbers and copies included:
\* two active documents of a book never have a number that was looked up for both.
THEOREM CodesAreUnique == Safe => (Spec => []UniqueCode)
<1> SUFFICES ASSUME Safe PROVE Spec => []UniqueCode
  OBVIOUS
<1>1. BookInv => UniqueCode
  BY DEF BookInv
<1> QED
  BY <1>1, Invariants, PTL

\* Likewise: the number that the next form of a book will show was looked up for
\* no other active document.
THEOREM CountStaysFree == Safe => (Spec => []CountIsFree)
<1> SUFFICES ASSUME Safe PROVE Spec => []CountIsFree
  OBVIOUS
<1>1. BookInv => CountIsFree
  BY DEF BookInv
<1> QED
  BY <1>1, Invariants, PTL

----------------------------------------------------------------------------
(* The refinement of NumberBook.                                           *)

PlaceOf(row) ==
    IF row.state = "active" /\ row.book # None /\ row.code # 0 THEN <<row.book, row.code>> ELSE None

LEMMA PlaceShape == \A d \in Document : Place[d] = PlaceOf(docs[d])
BY DEF Place, PlaceOf

LEMMA PlaceShapeNext == \A d \in Document : Place'[d] = PlaceOf(docs'[d])
BY DEF Place, PlaceOf

LEMMA PlaceStays ==
    ASSUME \A d \in Document : PlaceOf(docs'[d]) = PlaceOf(docs[d])
    PROVE  Place' = Place
BY DEF Place, PlaceOf

\* Without numbers of clients and without copies, every document of a book has a
\* number that was looked up.
PlainOperations == Operations \cap {"edit", "enter", "copy"} = {}

Plain == \A d \in Document : docs[d].book # None => docs[d].lookedUp

LEMMA NextPlain == PlainOperations /\ IInv /\ BookInv /\ Plain /\ [Next]_vars => Plain'
<1> SUFFICES ASSUME PlainOperations, IInv, BookInv, Plain, [Next]_vars PROVE Plain'
  OBVIOUS
<1>o. \A r \in Request : task[r].op \notin {"edit", "enter"} /\ ~Copy(r)
  BY DEF PlainOperations, IInv, Shape, Copy, AtOnce
<1>u. UNCHANGED docs => Plain'
  BY DEF Plain
<1>1. ASSUME NEW r \in Request, Single(r) PROVE Plain'
  <2>1. PICK d \in Document : /\ \A e \in Document \ {d} : docs'[e] = docs[e]
                              /\ docs'[d].book = None \/ docs'[d].lookedUp \/ Withdrawn(d)
    BY <1>1, <1>o, SingleShape
  <2> QED
    BY <2>1 DEF Plain, Withdrawn
<1>2. ASSUME NEW r \in Request, Insert(r) PROVE Plain'
  <2>1. PICK d \in Document : /\ \A e \in Document \ {d} : docs'[e] = docs[e]
                              /\ docs'[d].lookedUp
    BY <1>2, <1>o, InsertShape
  <2> QED
    BY <2>1 DEF Plain
<1>3. ASSUME NEW r \in Request, Commit(r) PROVE Plain'
  <2> DEFINE t == task[r]
  <2>1. /\ Writes(t) /\ t.op \in Looking \cup {"keep", "generate"} /\ t.docs \subseteq Document
        /\ Good(t, docs, count) /\ Shape(t)
        /\ t.book \in Book
    BY <1>3, <1>o, CommitShape DEF BookInv, IInv
  <2>2. ASSUME NEW d \in t.docs PROVE docs'[d].lookedUp
    <3>1. CASE t.op \in Looking
      BY <2>1, <2>2, <3>1 DEF Writes
    <3>2. CASE t.op = "keep"
      BY <2>1, <2>2, <3>2, NumberTypes DEF Writes, Good, Plain
    <3>3. t.op # "generate"
      BY <2>1, <2>2 DEF Shape
    <3> QED
      BY <2>1, <3>1, <3>2, <3>3
  <2> QED
    BY <2>1, <2>2 DEF Plain, Writes
<1>4. ASSUME NEW r \in Request, NEW t, Begins(r, t) PROVE UNCHANGED docs
  BY <1>4 DEF Begins
<1>5. ASSUME NEW r \in Request, Lock(r) \/ Ends(r) \/ GiveNumber(r) \/ IncreaseCount(r)
      PROVE  UNCHANGED docs
  BY <1>5, LockShape, EndsShape, GiveShape, IncreaseShape
<1>6. UNCHANGED vars => UNCHANGED docs
  BY DEF vars
<1> QED
  BY <1>u, <1>1, <1>2, <1>3, <1>4, <1>5, <1>6, ArrivalShape DEF Next, Progress, Ends, Quiescent

\* A document that is active in a book with a number has a place of its own there.
LEMMA HasPlace ==
    ASSUME RowsOK', UniqueCode', Plain', NEW b \in Book, NEW d \in Document,
           docs'[d].state = "active", docs'[d].book = b, docs'[d].code # 0
    PROVE  Abstract!Entered(d, b)
<1>1. b # None /\ docs'[d].code \in Nat \ {0} /\ <<b, docs'[d].code>> # None
  <2>1. docs'[d].code \in Numbers
    BY DEF RowsOK, DocRecord
  <2> QED
    BY <2>1, NumberTypes
<1>2. Place'[d] = <<b, docs'[d].code>> /\ d \in LookedUp(b)'
  BY <1>1, PlaceShapeNext, LookedUpDef DEF PlaceOf, Plain
<1>3. ASSUME NEW e \in Document \ {d} PROVE Place'[e] # Place'[d]
  <2>1. CASE docs'[e].state = "active" /\ docs'[e].book = b /\ docs'[e].code # 0
    <3>1. e \in LookedUp(b)'
      BY <1>1, <2>1, LookedUpDef DEF Plain
    <3>2. docs'[e].code # docs'[d].code
      BY <1>2, <1>3, <3>1 DEF UniqueCode
    <3>3. Place'[e] = <<b, docs'[e].code>>
      BY <1>1, <1>3, <2>1, PlaceShapeNext DEF PlaceOf
    <3> QED
      BY <1>2, <3>2, <3>3
  <2>2. CASE ~(docs'[e].state = "active" /\ docs'[e].book = b /\ docs'[e].code # 0)
    <3>1. Place'[e] = PlaceOf(docs'[e])
      BY <1>3, PlaceShapeNext
    <3>2. CASE Place'[e] = None
      BY <1>1, <1>2, <3>2
    <3>3. CASE Place'[e] # None
      <4>1. /\ Place'[e] = <<docs'[e].book, docs'[e].code>> /\ docs'[e].state = "active"
            /\ docs'[e].code # 0
        BY <3>1, <3>3 DEF PlaceOf
      <4>2. docs'[e].book # b
        BY <2>2, <4>1
      <4> QED
        BY <1>2, <4>1, <4>2
    <3> QED
      BY <3>2, <3>3
  <2> QED
    BY <2>1, <2>2
<1> QED
  BY <1>1, <1>2, <1>3 DEF Abstract!Entered

\* Documents that enter a book, all others staying where they are.
LEMMA Registers ==
    ASSUME RowsOK', UniqueCode', Plain', NEW b \in Book, NEW D, D \subseteq Document,
           \A d \in D : /\ Place[d] = None /\ docs'[d].state = "active" /\ docs'[d].book = b
                        /\ docs'[d].code # 0,
           \A d \in Document \ D : PlaceOf(docs'[d]) = PlaceOf(docs[d])
    PROVE  Abstract!Next \/ Place' = Place
<1>1. CASE D = {}
  BY <1>1, PlaceStays
<1>2. CASE D # {}
  <2>1. \A d \in D : Place[d] = None /\ Abstract!Entered(d, b)
    BY HasPlace
  <2>2. Abstract!Others(D)
    BY PlaceShape, PlaceShapeNext DEF Abstract!Others
  <2>3. Abstract!Register(D, b)
    BY <2>1, <2>2 DEF Abstract!Register
  <2>4. D \in (SUBSET Document) \ {{}}
    BY <1>2
  <2> QED
    BY <2>3, <2>4 DEF Abstract!Next
<1> QED
  BY <1>1, <1>2

LEMMA Moves ==
    ASSUME RowsOK', UniqueCode', Plain', NEW b \in Book, NEW d \in Document, Place[d] # None,
           docs'[d].state = "active", docs'[d].book = b, docs'[d].code # 0,
           \A e \in Document \ {d} : docs'[e] = docs[e]
    PROVE  Abstract!Next
<1>1. Abstract!Entered(d, b)
  BY HasPlace
<1>2. Abstract!Others({d})
  BY PlaceShape, PlaceShapeNext DEF Abstract!Others
<1> QED
  BY <1>1, <1>2 DEF Abstract!Move, Abstract!Next

\* The commit of a handler: the documents enter the book, or one moves there.
LEMMA CommitMaps ==
    ASSUME IInv, IInv', UniqueCode', Plain', NEW r \in Request, Commit(r),
           task[r].op # "edit", Good(task[r], docs, count)
    PROVE  Abstract!Next \/ Place' = Place
<1> DEFINE t == task[r]
<1>t. /\ t.op \in Looking \cup {"keep", "generate"} /\ Writes(t)
      /\ t.book \in Book /\ t.docs \subseteq Document
      /\ t.op \in Looking => t.pc >= 4
      /\ RowsOK'
  <2>1. RowsOK'
    BY DEF IInv, TypeOK, RowsOK, DocRecord
  <2> QED
    BY <2>1, CommitShape
<1>s. /\ \A d \in t.docs : /\ docs'[d].state = docs[d].state /\ docs'[d].book = t.book
                           /\ docs'[d].code # 0
      /\ \A d \in Document \ t.docs : docs'[d] = docs[d]
  BY <1>t, NumberTypes DEF Writes
<1>n. \A d \in t.docs : docs[d].state # "active" => PlaceOf(docs'[d]) = PlaceOf(docs[d])
  BY <1>s DEF PlaceOf
<1>1. CASE t.op \in {"keep", "generate"}
  <2>1. \A d \in t.docs : /\ docs'[d].state = docs[d].state /\ docs'[d].book = docs[d].book
                          /\ docs'[d].code = docs[d].code
    <3>1. CASE t.op = "keep"
      BY <3>1, <1>t DEF Writes, Good, Looking
    <3>2. CASE t.op = "generate"
      BY <3>2 DEF IInv, Shape
    <3> QED
      BY <1>1, <3>1, <3>2
  <2>2. \A d \in Document : PlaceOf(docs'[d]) = PlaceOf(docs[d])
    BY <1>s, <2>1 DEF PlaceOf
  <2> QED
    BY <2>2, PlaceStays
<1>2. CASE t.op = "assign"
  <2> DEFINE D == {d \in t.docs : docs[d].state = "active"}
  <2>1. \A d \in D : t.codes # {}
    <3>1. {w[1] : w \in t.codes} = t.docs
      BY <1>t, <1>2 DEF IInv, Shape, Looking
    <3> QED
      BY <3>1
  <2>2. \A d \in D : Place[d] = None
    BY <1>2, <1>t, <2>1, PlaceShape DEF Good, PlaceOf
  <2>3. /\ D \subseteq Document
        /\ \A d \in D : docs'[d].state = "active" /\ docs'[d].book = t.book /\ docs'[d].code # 0
        /\ \A d \in Document \ D : PlaceOf(docs'[d]) = PlaceOf(docs[d])
    BY <1>t, <1>s, <1>n
  <2> HIDE DEF D
  <2> QED
    BY <1>t, <2>2, <2>3, Registers
<1>3. CASE t.op \in {"change", "refile"}
  <2>1. PICK d \in Document : t.docs = {d}
    BY <1>3 DEF IInv, Shape
  <2>2. CASE docs[d].state # "active"
    <3>1. \A e \in Document : PlaceOf(docs'[e]) = PlaceOf(docs[e])
      BY <1>s, <1>n, <2>1, <2>2
    <3> QED
      BY <3>1, PlaceStays
  <2>3. CASE docs[d].state = "active" /\ Place[d] = None
    <3>1. PICK D \in SUBSET Document : D = {d}
      OBVIOUS
    <3>2. /\ D \subseteq Document
          /\ \A e \in D : /\ Place[e] = None /\ docs'[e].state = "active"
                           /\ docs'[e].book = t.book /\ docs'[e].code # 0
          /\ \A e \in Document \ D : PlaceOf(docs'[e]) = PlaceOf(docs[e])
      BY <1>s, <2>1, <2>3, <3>1
    <3> QED
      BY <1>t, <3>2, Registers
  <2>4. CASE docs[d].state = "active" /\ Place[d] # None
    <3>1. /\ docs'[d].state = "active" /\ docs'[d].book = t.book /\ docs'[d].code # 0
          /\ \A e \in Document \ {d} : docs'[e] = docs[e]
      BY <1>s, <2>1, <2>4
    <3> QED
      BY <1>t, <2>4, <3>1, Moves
  <2> QED
    BY <2>2, <2>3, <2>4
<1> QED
  BY <1>t, <1>1, <1>2, <1>3 DEF Looking

\* Every step of the handlers is a step of NumberBook or none.
LEMMA NextMaps ==
    ASSUME PlainOperations, IInv, IInv', BookInv, BookInv', Plain', [Next]_vars
    PROVE  Abstract!Next \/ Place' = Place
<1>t. RowsOK' /\ UniqueCode' /\ \A r \in Request : Good(task[r], docs, count)
  BY DEF BookInv, IInv, TypeOK, RowsOK, DocRecord
<1>o. \A r \in Request : task[r].op \notin {"edit", "enter"} /\ ~Copy(r)
  BY DEF PlainOperations, IInv, Shape, Copy, AtOnce
<1>u. UNCHANGED docs => Place' = Place
  BY DEF Place
<1>1. ASSUME NEW r \in Request, Single(r) PROVE Abstract!Next \/ Place' = Place
  <2>1. PICK d \in Document :
          /\ \A e \in Document \ {d} : docs'[e] = docs[e]
          /\ \/ Inserted(d) /\ (docs'[d].book = None \/ docs'[d].lookedUp)
             \/ Withdrawn(d)
    BY <1>1, <1>o, SingleShape
  <2>2. Abstract!Others({d})
    BY <2>1, PlaceShape, PlaceShapeNext DEF Abstract!Others
  <2>3. PlaceOf(docs'[d]) = None
    BY <2>1 DEF PlaceOf, Inserted, Withdrawn
  <2>4. CASE Place[d] = None
    <3>1. \A e \in Document : PlaceOf(docs'[e]) = PlaceOf(docs[e])
      BY <2>1, <2>3, <2>4, PlaceShape
    <3> QED
      BY <3>1, PlaceStays
  <2>5. CASE Place[d] # None
    BY <2>2, <2>3, <2>5, PlaceShapeNext DEF Abstract!Withdraw, Abstract!Next
  <2> QED
    BY <2>4, <2>5
<1>2. ASSUME NEW r \in Request, Insert(r) PROVE Abstract!Next \/ Place' = Place
  <2>1. /\ task[r].op = "create" /\ task[r].book \in Book /\ task[r].code \in Numbers
    BY <1>2, <1>o, InsertShape
  <2>2. PICK d \in Document :
          /\ task[r].docs = {d}
          /\ docs'[d].state = "active" /\ docs'[d].book = task[r].book
          /\ docs'[d].code = task[r].code
          /\ \A e \in Document \ {d} : docs'[e] = docs[e]
    BY <1>2, InsertShape
  <2>3. docs[d].state = "absent"
    BY <1>t, <2>1, <2>2 DEF Good
  <2>4. Place[d] = None
    BY <2>3, PlaceShape DEF PlaceOf
  <2>5. PICK D \in SUBSET Document : D = {d}
    OBVIOUS
  <2>6. /\ D \subseteq Document
        /\ \A e \in D : /\ Place[e] = None /\ docs'[e].state = "active"
                        /\ docs'[e].book = task[r].book /\ docs'[e].code # 0
        /\ \A e \in Document \ D : PlaceOf(docs'[e]) = PlaceOf(docs[e])
    BY <2>1, <2>2, <2>4, <2>5, NumberTypes
  <2> QED
    BY <1>t, <2>1, <2>6, Registers
<1>3. ASSUME NEW r \in Request, Commit(r) PROVE Abstract!Next \/ Place' = Place
  BY <1>3, <1>o, <1>t, CommitMaps
<1>4. ASSUME NEW r \in Request, Arrival(r), ~Single(r) PROVE UNCHANGED docs
  BY <1>4, ArrivalShape DEF Begins
<1>5. ASSUME NEW r \in Request, Lock(r) \/ Ends(r) \/ GiveNumber(r) \/ IncreaseCount(r)
      PROVE  UNCHANGED docs
  BY <1>5, LockShape, EndsShape, GiveShape, IncreaseShape
<1>6. UNCHANGED vars => UNCHANGED docs
  BY DEF vars
<1> QED
  BY <1>u, <1>1, <1>2, <1>3, <1>4, <1>5, <1>6 DEF Next, Progress, Ends, Quiescent

\* assign, change, refile, generate and withdraw in any interleaving, or these,
\* keep, file and the creation with the number of the form, one request at a time,
\* keep a book of numbers: a document enters under a number of its own, keeps it
\* until it is moved, and gives it back when it is withdrawn.
THEOREM KeepsTheBook == Safe /\ PlainOperations => (Spec => ImplementsNumberBook)
<1> SUFFICES ASSUME Safe, PlainOperations PROVE Spec => ImplementsNumberBook
  OBVIOUS
<1>1. Init => Abstract!Init /\ Plain
  <2> SUFFICES ASSUME Init PROVE Place = [d \in Document |-> None] /\ Plain
    BY DEF Abstract!Init
  <2>1. \A d \in Document : docs[d].book = None
    BY DEF Init, NewDocument
  <2> QED
    BY <2>1 DEF Place, Plain
<1>2. IInv /\ BookInv /\ Plain /\ [Next]_vars => Plain'
  BY NextPlain
<1>3. /\ IInv /\ BookInv /\ (IInv /\ BookInv /\ Plain)' /\ [Next]_vars
      => [Abstract!Next]_Place
  BY NextMaps
<1> QED
  BY <1>1, <1>2, <1>3, Invariants, PTL DEF Spec, ImplementsNumberBook, Abstract!Spec

----------------------------------------------------------------------------
(* No holes, one request at a time.                                        *)

LEMMA FilledEmpty ==
    ASSUME NEW t, NEW rows, t.from = 1,
           t.op = "refile" => \A d \in t.docs : rows[d].book # t.book \/ rows[d].code = 0
    PROVE  Filled(t, rows)
<1>1. 1..(t.from - 1) = {}
  OBVIOUS
<1> QED
  BY <1>1 DEF Filled

\* The number a request gives next leaves no smaller one free.
LEMMA GiveFills ==
    ASSUME IInv, NEW r \in Request, task[r].op \in Looking,
           ~Refused(r), Filled(task[r], docs),
           NEW u, NEW d \in Document, NEW n \in Numbers, Gives(task[r], u, d, n),
           \A m \in Numbers : (task[r].from <= m /\ m < n) => m \in Taken(r)
    PROVE  Filled(u, docs)
<1> DEFINE t == task[r]
<1>t. /\ t.from \in Nat /\ n \in Nat /\ n <= MaxNumber /\ t.docs \subseteq Document
      /\ t.book \in Book /\ t.book # None
  BY IInvParts, TaskFields, NumberTypes, BookAssumption DEF RequestsOK, Shape, Numbers, Looking
<1>1. /\ u.from = n + 1 /\ u.book = t.book /\ u.docs = t.docs /\ u.op = t.op
      /\ u.codes = t.codes \cup {<<d, n>>}
  BY DEF Gives
<1>2. \A e \in Document \ Hidden(r) :
        docs[e].state = "active" /\ docs[e].book = t.book /\ docs[e].code # 0 => e \notin t.docs
  <2>1. CASE t.op = "assign"
    BY <1>t, <2>1 DEF Refused
  <2>2. CASE t.op = "change"
    BY <2>2 DEF Hidden
  <2>3. CASE t.op = "refile"
    BY <2>3 DEF Filled
  <2> QED
    BY <2>1, <2>2, <2>3 DEF Looking
<1>3. \A x \in Taken(r) : x \in Codes(t.book, Document \ t.docs, docs) \/ \E w \in t.codes : w[2] = x
  <2>1. \A x \in Codes(t.book, Document \ Hidden(r), docs) : x \in Codes(t.book, Document \ t.docs, docs)
    BY <1>2, CodesDef
  <2> QED
    BY <1>t, <2>1, TakenShape
<1>4. ASSUME NEW m \in 1..(u.from - 1)
      PROVE  m \in Codes(u.book, Document \ u.docs, docs) \cup {w[2] : w \in u.codes}
  <2>1. m \in Nat /\ m >= 1 /\ m <= n
    BY <1>t, <1>1, <1>4
  <2>2. CASE m = n
    <3>1. <<d, n>> \in u.codes /\ <<d, n>>[2] = n
      BY <1>1
    <3> QED
      BY <2>2, <3>1
  <2>3. CASE m < t.from
    <3>1. m \in 1..(t.from - 1)
      BY <1>t, <2>1, <2>3
    <3> QED
      BY <1>1, <3>1 DEF Filled
  <2>4. CASE t.from <= m /\ m < n
    <3>1. m \in Numbers
      BY <1>t, <2>1, BookAssumption DEF Numbers
    <3>2. m \in Taken(r)
      BY <2>4, <3>1
    <3> QED
      BY <1>1, <1>3, <3>2
  <2> QED
    BY <1>t, <2>1, <2>2, <2>3, <2>4
<1>5. u.op = "refile" => \A e \in u.docs : docs[e].book # u.book \/ docs[e].code = 0
  BY <1>1 DEF Filled
<1> QED
  BY <1>4, <1>5 DEF Filled

LEMMA NextFilledInv == Alone /\ IInv /\ FilledInv /\ [Next]_vars => FilledInv'
<1> SUFFICES ASSUME Alone, IInv, FilledInv, [Next]_vars PROVE FilledInv'
  OBVIOUS
<1>a. ASSUME NEW r \in Request, NEW u, Becomes(r, u), Filled(u, docs') PROVE FilledInv'
  BY <1>a, TaskStep DEF Alone, FilledInv
<1>1. ASSUME NEW r \in Request, NEW t, Begins(r, t) PROVE FilledInv'
  <2>1. Becomes(r, t) /\ UNCHANGED docs /\ Filled(t, docs)
    BY <1>1, FilledEmpty DEF Begins
  <2> QED
    BY <1>a, <2>1
<1>2. ASSUME NEW r \in Request, Single(r) PROVE FilledInv'
  <2>1. \A q \in Request : task'[q] = Idle
    BY <1>2, SingleShape DEF Alone
  <2> QED
    BY <2>1, IdleGood DEF FilledInv
<1>3. ASSUME NEW r \in Request, Lock(r) PROVE FilledInv'
  <2>1. UNCHANGED docs
    BY <1>3, LockShape
  <2>2. PICK u : Becomes(r, u) /\ Advances(task[r], u)
    BY <1>3, LockShape
  <2>3. Filled(u, docs)
    BY <2>2 DEF FilledInv, Filled, Advances
  <2> QED
    BY <1>a, <2>1, <2>2, <2>3
<1>4. ASSUME NEW r \in Request, End(r) PROVE FilledInv'
  BY <1>a, <1>4, EndShape, IdleGood
<1>5. ASSUME NEW r \in Request, GiveNumber(r) PROVE FilledInv'
  <2>1. UNCHANGED docs /\ ~Refused(r) /\ task[r].op \in Looking
    BY <1>5, GiveShape
  <2>2. PICK u : \E d \in Document, n \in Numbers :
          /\ Becomes(r, u) /\ Gives(task[r], u, d, n)
          /\ \A m \in Numbers : (task[r].from <= m /\ m < n) => m \in Taken(r)
    BY <1>5, GiveShape
  <2>3. Filled(u, docs)
    BY <2>1, <2>2, GiveFills DEF FilledInv
  <2> QED
    BY <1>a, <2>1, <2>2, <2>3
<1>6. ASSUME NEW r \in Request, IncreaseCount(r) PROVE FilledInv'
  <2>1. UNCHANGED docs
    BY <1>6, IncreaseShape
  <2>2. PICK u : Becomes(r, u) /\ Advances(task[r], u)
    BY <1>6, IncreaseShape
  <2>3. Filled(u, docs)
    BY <2>2 DEF FilledInv, Filled, Advances
  <2> QED
    BY <1>a, <2>1, <2>2, <2>3
<1>7. CASE UNCHANGED vars
  BY <1>7 DEF vars, FilledInv
<1> QED
  BY <1>1, <1>2, <1>3, <1>4, <1>5, <1>6, <1>7, ArrivalShape, EndsShape, CommitShape, InsertShape
  DEF Next, Progress, Ends, Quiescent

\* What a commit writes: it changes a row whose number it looked for, and only
\* rows of documents that are not deleted.
LEMMA CommitFills ==
    ASSUME IInv, NEW r \in Request, Commit(r), Good(task[r], docs, count), Filled(task[r], docs),
           NEW d \in Document,
           <<docs'[d].book, docs'[d].code>> # <<docs[d].book, docs[d].code>>, docs'[d].lookedUp,
           \A e \in Document : docs'[e] # docs[e] => docs[e].state = "active"
    PROVE  \A m \in 1..docs'[d].code :
              \E e \in Document : /\ docs'[e].state = "active" /\ docs'[e].book = docs'[d].book
                                  /\ docs'[e].code = m
<1> DEFINE t == task[r]
<1>t. /\ t \in TaskRecord /\ Shape(t) /\ t.docs \subseteq Document /\ Writes(t)
      /\ t.op \in Looking \cup {"keep", "edit", "generate"}
      /\ t.op \in Looking => t.pc >= 4
  BY CommitShape, IInvParts DEF RequestsOK
<1>1. d \in t.docs /\ t.op \in Looking
  <2>1. d \in t.docs
    BY <1>t DEF Writes
  <2>2. t.op \notin {"keep", "edit", "generate"}
    BY <1>t, <2>1 DEF Writes, Good, Shape, Looking
  <2> QED
    BY <1>t, <2>1, <2>2
<1>2. /\ <<d, docs'[d].code>> \in t.codes /\ docs'[d].book = t.book
      /\ docs'[d].code \in Numbers
  BY <1>t, <1>1 DEF Writes
<1>3. docs'[d].code < t.from
  <2>1. \A w \in t.codes : w[2] < t.from
    BY <1>t DEF Shape
  <2>2. <<d, docs'[d].code>>[2] = docs'[d].code
    OBVIOUS
  <2> QED
    BY <1>2, <2>1, <2>2
<1>4. \A e \in t.docs : docs[e].state = "active"
  <2>1. CASE t.op = "assign"
    <3>1. \A e \in t.docs : docs[e].book = None /\ docs'[e].book \in Book
      BY <1>t, <1>2, <2>1 DEF Good, Writes
    <3> QED
      BY <1>t, <3>1, NumberTypes
  <2>2. CASE t.op \in {"change", "refile"}
    <3>1. t.docs = {d} /\ docs'[d] # docs[d]
      BY <1>t, <1>1, <2>2 DEF Shape
    <3> QED
      BY <3>1
  <2> QED
    BY <1>1, <2>1, <2>2 DEF Looking
<1>5. SUFFICES ASSUME NEW m \in 1..docs'[d].code
               PROVE  \E e \in Document : /\ docs'[e].state = "active" /\ docs'[e].book = t.book
                                          /\ docs'[e].code = m
  BY <1>2
<1>6. m \in 1..(t.from - 1)
  <2>1. docs'[d].code \in Nat /\ t.from \in Nat
    BY <1>t, <1>2, TaskFields, NumberTypes
  <2> QED
    BY <1>3, <1>5, <2>1
<1>7. m \in Codes(t.book, Document \ t.docs, docs) \/ \E w \in t.codes : w[2] = m
  BY <1>6 DEF Filled
<1>8. CASE m \in Codes(t.book, Document \ t.docs, docs)
  <2>1. PICK e \in Document \ t.docs : docs[e].state = "active" /\ docs[e].book = t.book /\ docs[e].code = m
    BY <1>8, CodesDef
  <2> QED
    BY <1>t, <2>1 DEF Writes
<1>9. CASE \E w \in t.codes : w[2] = m
  <2>1. PICK w \in t.codes : w[2] = m
    BY <1>9
  <2>2. w[1] \in t.docs
    BY <1>t, <2>1 DEF Shape
  <2> DEFINE e == w[1]
  <2>3. /\ e \in Document /\ docs'[e].state = "active" /\ docs'[e].book = t.book
        /\ <<e, docs'[e].code>> \in t.codes
    BY <1>t, <1>1, <1>4, <2>2 DEF Writes
  <2>4. <<e, docs'[e].code>> = w
    <3>1. \A v \in t.codes : v[1] = w[1] => v = w
      BY <1>t, <2>1 DEF Shape
    <3>2. <<e, docs'[e].code>>[1] = w[1]
      OBVIOUS
    <3> QED
      BY <2>3, <3>1, <3>2
  <2>5. docs'[e].code = m
    <3>1. <<e, docs'[e].code>>[2] = docs'[e].code
      OBVIOUS
    <3> QED
      BY <2>1, <2>4, <3>1
  <2> QED
    BY <2>3, <2>5
<1> QED
  BY <1>7, <1>8, <1>9

\* One request at a time: whatever handler looks for a number for documents that
\* are not deleted, no smaller number of its book is left free, whatever numbers
\* clients sent and whatever was deleted before.
THEOREM NoHoleIsLeft == Alone => (Spec => HolesFilled)
<1> SUFFICES ASSUME Alone PROVE Spec => HolesFilled
  OBVIOUS
<1>1. Init => FilledInv
  BY IdleGood DEF Init, FilledInv
<1>2. IInv /\ FilledInv /\ [Next]_vars => FilledInv'
  BY NextFilledInv
<1>3. IInv /\ BookInv /\ FilledInv /\ [Next]_vars
        => [ \A d \in Document :
               /\ <<docs'[d].book, docs'[d].code>> # <<docs[d].book, docs[d].code>>
               /\ docs'[d].lookedUp
               /\ \A e \in Document : docs'[e] # docs[e] => docs[e].state = "active"
               => 1..docs'[d].code \subseteq
                    {docs'[e].code : e \in {x \in Document : /\ docs'[x].state = "active"
                                                            /\ docs'[x].book = docs'[d].book}} ]_vars
  <2> SUFFICES ASSUME IInv, BookInv, FilledInv, Next, NEW d \in Document,
                      <<docs'[d].book, docs'[d].code>> # <<docs[d].book, docs[d].code>>,
                      docs'[d].lookedUp,
                      \A e \in Document : docs'[e] # docs[e] => docs[e].state = "active",
                      NEW m \in 1..docs'[d].code
               PROVE  \E e \in Document : /\ docs'[e].state = "active"
                                          /\ docs'[e].book = docs'[d].book /\ docs'[e].code = m
    OBVIOUS
  <2>1. docs'[d] # docs[d] /\ docs[d].state = "active"
    OBVIOUS
  <2>2. ASSUME NEW r \in Request, Single(r) PROVE FALSE
    <3>1. PICK x \in Document : /\ \A e \in Document \ {x} : docs'[e] = docs[e]
                                /\ Inserted(x) \/ Withdrawn(x)
      BY <2>2, SingleShape
    <3> QED
      BY <2>1, <3>1 DEF Inserted, Withdrawn
  <2>3. ASSUME NEW r \in Request, Insert(r) PROVE FALSE
    <3>1. /\ task[r].op \in {"create", "enter"}
          /\ \E x \in Document : /\ task[r].docs = {x}
                                 /\ \A e \in Document \ {x} : docs'[e] = docs[e]
      BY <2>3, InsertShape
    <3> QED
      BY <2>1, <3>1 DEF BookInv, Good
  <2>4. ASSUME NEW r \in Request, NEW t, Begins(r, t) PROVE FALSE
    BY <2>1, <2>4 DEF Begins
  <2>5. ASSUME NEW r \in Request, Lock(r) \/ Ends(r) \/ GiveNumber(r) \/ IncreaseCount(r)
        PROVE  FALSE
    BY <2>1, <2>5, LockShape, EndsShape, GiveShape, IncreaseShape
  <2>6. PICK r \in Request : Commit(r)
    BY <2>1, <2>2, <2>3, <2>4, <2>5, ArrivalShape DEF Next, Progress, Ends, Quiescent, vars
  <2> QED
    BY <2>6, CommitFills DEF BookInv, FilledInv
<1>4. Spec => [](IInv /\ BookInv)
  BY Invariants DEF Safe
<1> QED
  BY <1>1, <1>2, <1>3, <1>4, PTL DEF Spec, HolesFilled
=============================================================================
