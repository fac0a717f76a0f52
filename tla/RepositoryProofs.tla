-------------------------- MODULE RepositoryProofs --------------------------
(***************************************************************************)
(* What the repository stores of a program is a beginning of it, for any   *)
(* connections, names and programs, whichever processes end or are locked  *)
(* out while they import; and what find_unreachable_pcs reports of it is   *)
(* not executed, unless the program is still being imported then.          *)
(*                                                                         *)
(* As long as no statement of an unsupported kind is added, a transaction  *)
(* that is left open has changed nothing, and a process that imports knows *)
(* how much of its program, which no other process imports, is there.      *)
(*                                                                         *)
(* With such statements too, a label that comes into a program comes after *)
(* all those it has.  So a goto keeps its target, and what an execution    *)
(* has been at is in every set of pcs that the program, as it is by now,   *)
(* does not lead out of.  The pcs that the search reaches, with those that *)
(* have no statement, are such a set: the search adds what its edges lead  *)
(* to as often as there are pcs, and each time that adds something it adds *)
(* a pc.  Once nobody imports the program, it gets no statement any more   *)
(* that leads out of such a set.                                           *)
(***************************************************************************)
EXTENDS Repository, SequenceTheorems, FiniteSetTheorems, WellFoundedInduction, TLAPS

Programs == [name : Names, source : Sources, rows : UNION {[0..(n - 1) -> Stmts] : n \in Nat}]

\* The first n statements of a program are stored.
UpTo(p, n) == /\ n \in 0..Len(p.source)
              /\ DOMAIN p.rows = 0..(n - 1)
              /\ \A pc \in 0..(n - 1) : p.rows[pc] = p.source[pc + 1]

Importing(c) == client[c].op = "import"

States == [op : {"idle", "import", "look", "store", "dead"}, name : Names \cup {Nobody},
           source : Sources \cup {<<>>}, id : Nat, pc : Nat]

DbOK == /\ draft = db
        /\ db \in Seq(Programs)
        /\ \A i \in DOMAIN db : \E n \in Nat : UpTo(db[i], n)
        /\ \A i, j \in DOMAIN db : db[j].name = db[i].name \/ db[j].source = db[i].source => i = j
        /\ past.finished \subseteq DOMAIN db
        /\ \A i \in past.finished : UpTo(db[i], Len(db[i].source))

ClientsOK ==
    /\ client \in [Clients -> States]
    /\ \A c \in Clients :
          /\ client[c].op \in {"look", "store"} => client[c].name \in Names /\ client[c].source \in Sources
          /\ Importing(c) => /\ client[c].id \in DOMAIN db \ past.finished
                             /\ client[c].source = db[client[c].id].source
                             /\ UpTo(db[client[c].id], client[c].pc)
    /\ \A c, d \in Clients : Importing(c) /\ Importing(d) /\ client[c].id = client[d].id => c = d

Recorded == past = [finished |-> past.finished, unsupported |-> past.unsupported,
                    executed |-> past.executed, reported |-> past.reported]

IInv == /\ Recorded
        /\ ~past.unsupported => DbOK /\ ClientsOK

-----------------------------------------------------------------------------
\* The beginning of a program and its size are those the property means.
LEMMA UpToIsPrefix ==
    ASSUME NEW p \in Programs, NEW n \in Nat, UpTo(p, n)
    PROVE  Prefix(p.rows, p.source) /\ Cardinality(DOMAIN p.rows) = n
<1>1. Cardinality(0..(n - 1)) = n
  BY FS_Interval
<1> QED
  BY <1>1 DEF UpTo, Prefix

\* The beginning of a program has one length.
LEMMA UpToIsUnique ==
    ASSUME NEW p \in Programs, NEW m \in Nat, NEW n \in Nat, UpTo(p, m), UpTo(p, n)
    PROVE  m = n
  BY UpToIsPrefix

\* A program that has just been registered, and one that gets its next statement.
LEMMA Registered ==
    ASSUME NEW name \in Names, NEW source \in Sources
    PROVE  LET p == [name |-> name, source |-> source, rows |-> <<>>]
           IN p \in Programs /\ UpTo(p, 0)
<1>1. source \in Seq(Stmts)
  BY RepositoryAssumption
<1>2. <<>> \in [0..(0 - 1) -> Stmts]
  OBVIOUS
<1> QED
  BY <1>1, <1>2 DEF Programs, UpTo

LEMMA OneMore ==
    ASSUME NEW p \in Programs, NEW n \in Nat, UpTo(p, n), n < Len(p.source)
    PROVE  LET q == [p EXCEPT !.rows = Extended(@, n, p.source[n + 1])]
           IN /\ q \in Programs /\ UpTo(q, n + 1)
              /\ q.name = p.name /\ q.source = p.source
<1>1. p.source \in Seq(Stmts)
  BY RepositoryAssumption DEF Programs
<1>2. p.source[n + 1] \in Stmts
  BY <1>1
<1>3. p.rows \in [0..(n - 1) -> Stmts]
  BY DEF Programs, UpTo
<1>4. 0..(n - 1) \cup {n} = 0..((n + 1) - 1)
  OBVIOUS
<1> DEFINE more == Extended(p.rows, n, p.source[n + 1])
<1>5. more \in [0..((n + 1) - 1) -> Stmts]
  BY <1>2, <1>3, <1>4 DEF Extended
<1>6. \A pc \in 0..((n + 1) - 1) : more[pc] = p.source[pc + 1]
  BY <1>3, <1>4 DEF Extended, UpTo
<1> DEFINE q == [p EXCEPT !.rows = more]
<1>7. /\ p = [name |-> p.name, source |-> p.source, rows |-> p.rows]
      /\ p.name \in Names /\ p.source \in Sources
  BY DEF Programs
<1>8. q = [name |-> p.name, source |-> p.source, rows |-> more]
  BY <1>7
<1>9. more \in UNION {[0..(m - 1) -> Stmts] : m \in Nat}
  BY <1>5
<1> HIDE DEF more, q
<1>10. q \in Programs /\ q.name = p.name /\ q.source = p.source
  BY <1>7, <1>8, <1>9 DEF Programs
<1>11. UpTo(q, n + 1)
  BY <1>1, <1>5, <1>6, <1>8 DEF UpTo
<1> QED
  BY <1>10, <1>11 DEF q, more

-----------------------------------------------------------------------------
\* A step that registers a program, by source_to_db or by create_program.
LEMMA RegisterStep ==
    ASSUME DbOK, ClientsOK, NEW c \in Clients, NEW name \in Names, NEW source \in Sources,
           ~Taken(c, name, source), Commit(NewProgram(c, name, source)), UNCHANGED past
    PROVE  /\ DbOK'
           /\ DOMAIN db' = 1..(Len(db) + 1)
           /\ DOMAIN db = 1..Len(db)
           /\ \A i \in DOMAIN db : db'[i] = db[i]
           /\ UpTo(db'[Len(db) + 1], 0)
           /\ db'[Len(db) + 1].source = source
<1> DEFINE p == [name |-> name, source |-> source, rows |-> <<>>]
<1>1. View(c) = db /\ db \in Seq(Programs) /\ draft = db
  BY DEF View, DbOK
<1>2. p \in Programs /\ UpTo(p, 0) /\ p.name = name /\ p.source = source
  BY Registered
<1>3. db' = Append(db, p) /\ draft' = db'
  BY <1>1 DEF Commit, NewProgram
<1>4. \A i \in DOMAIN db : db[i].name # name /\ db[i].source # source
  BY <1>1 DEF Taken
<1> HIDE DEF p
<1>5. /\ db' \in Seq(Programs)
      /\ DOMAIN db' = 1..(Len(db) + 1) /\ DOMAIN db = 1..Len(db) /\ Len(db) \in Nat
      /\ \A i \in DOMAIN db : db'[i] = db[i]
      /\ db'[Len(db) + 1] = p
  BY <1>1, <1>2, <1>3
<1>6. \A i \in DOMAIN db' : \E n \in Nat : UpTo(db'[i], n)
  BY <1>2, <1>5 DEF DbOK
<1>7. \A i, j \in DOMAIN db' : db'[j].name = db'[i].name \/ db'[j].source = db'[i].source => i = j
  <2> SUFFICES ASSUME NEW i \in DOMAIN db', NEW j \in DOMAIN db',
                      db'[j].name = db'[i].name \/ db'[j].source = db'[i].source
               PROVE  i = j
    OBVIOUS
  <2>1. CASE i \in DOMAIN db /\ j \in DOMAIN db
    BY <2>1, <1>5 DEF DbOK
  <2>2. CASE i = Len(db) + 1 \/ j = Len(db) + 1
    BY <2>2, <1>2, <1>4, <1>5
  <2> QED
    BY <2>1, <2>2, <1>5
<1>8. /\ past.finished \subseteq DOMAIN db'
      /\ \A i \in past.finished : UpTo(db'[i], Len(db'[i].source))
  BY <1>5 DEF DbOK
<1> QED
  BY <1>2, <1>3, <1>5, <1>6, <1>7, <1>8 DEF DbOK

\* A step that stores the next statement of a program that is being imported.
LEMMA StatementStep ==
    ASSUME DbOK, ClientsOK, NEW c \in Clients, Importing(c), UNCHANGED past,
           client[c].pc < Len(client[c].source),
           Commit(WithStatement(c, client[c].id, client[c].pc,
                                client[c].source[client[c].pc + 1]))
    PROVE  /\ DbOK'
           /\ DOMAIN db' = DOMAIN db
           /\ \A i \in DOMAIN db : i # client[c].id => db'[i] = db[i]
           /\ UpTo(db'[client[c].id], client[c].pc + 1)
           /\ \A i \in DOMAIN db : db'[i].source = db[i].source
<1> DEFINE id == client[c].id
           pc == client[c].pc
           q == [db[id] EXCEPT !.rows = Extended(@, pc, db[id].source[pc + 1])]
<1>1. View(c) = db /\ db \in Seq(Programs) /\ draft = db
  BY DEF View, DbOK
<1>2. /\ id \in DOMAIN db /\ id \notin past.finished
      /\ client[c].source = db[id].source
      /\ UpTo(db[id], pc) /\ pc \in Nat
      /\ db[id] \in Programs
  BY <1>1 DEF ClientsOK, States
<1>3. db' = [db EXCEPT ![id] = q] /\ draft' = db'
  BY <1>1, <1>2 DEF Commit, WithStatement
<1>4. q \in Programs /\ UpTo(q, pc + 1) /\ q.name = db[id].name /\ q.source = db[id].source
  BY <1>2, OneMore
<1> HIDE DEF q
<1>5. /\ db' \in Seq(Programs)
      /\ DOMAIN db' = DOMAIN db
      /\ \A i \in DOMAIN db : db'[i] = IF i = id THEN q ELSE db[i]
  BY <1>1, <1>2, <1>3, <1>4
<1>6. \A i \in DOMAIN db : db'[i].name = db[i].name /\ db'[i].source = db[i].source
  BY <1>4, <1>5
<1>7. \A i \in DOMAIN db' : \E n \in Nat : UpTo(db'[i], n)
  BY <1>2, <1>4, <1>5 DEF DbOK
<1>8. \A i \in past.finished : UpTo(db'[i], Len(db'[i].source))
  BY <1>2, <1>5 DEF DbOK
<1> QED
  BY <1>2, <1>3, <1>4, <1>5, <1>6, <1>7, <1>8 DEF DbOK

-----------------------------------------------------------------------------
\* What is stored already stays as it is.
Kept == \A i \in DOMAIN db : i \in DOMAIN db' /\ db'[i] = db[i]

\* A process that imports nothing afterwards leaves the other imports alone.
LEMMA OthersImport ==
    ASSUME ClientsOK, Kept, UNCHANGED past, NEW c \in Clients, NEW state \in States,
           Become(c, state), state.op # "import",
           state.op \in {"look", "store"} => state.name \in Names /\ state.source \in Sources
    PROVE  ClientsOK'
<1>1. /\ client' \in [Clients -> States]
      /\ client'[c] = state
      /\ \A d \in Clients \ {c} : client'[d] = client[d]
  BY DEF Become, ClientsOK
<1> QED
  BY <1>1 DEF ClientsOK, Kept, Importing

LEMMA IdleStates == Idle \in States /\ [Idle EXCEPT !.op = "dead"] \in States
  BY DEF Idle, States

\* The database is as it was; perhaps a transaction was opened or closed.
LEMMA DbStays ==
    ASSUME DbOK, UNCHANGED <<db, past>>, draft' = db
    PROVE  DbOK' /\ Kept
  BY DEF DbOK, Kept

\* What is remembered stays so.
LEMMA Remembered ==
    ASSUME Recorded, Next
    PROVE  Recorded' /\ (~past'.unsupported => ~past.unsupported)
<1>1. \/ UNCHANGED past
      \/ past' = [past EXCEPT !.unsupported = TRUE]
      \/ \E S : past' = [past EXCEPT !.finished = S]
      \/ \E S : past' = [past EXCEPT !.executed = S]
      \/ \E S : past' = [past EXCEPT !.reported = S]
  <2>1. ASSUME NEW c \in Clients, NEW n \in Names, NEW t \in Sources, Import(c, n, t) \/ Generate(c, n, t)
        PROVE  UNCHANGED past
    BY <2>1, Zenon DEF Import, Generate
  <2>2. ASSUME NEW c \in Clients, AddNext(c) \/ End(c) \/ Look(c) \/ Store(c)
        PROVE  UNCHANGED past
    BY <2>2, Zenon DEF AddNext, End, Look, Store
  <2>3. ASSUME NEW c \in Clients, ImportDone(c)
        PROVE  \E S : past' = [past EXCEPT !.finished = S]
    BY <2>3 DEF ImportDone
  <2>4. ASSUME NEW c \in Clients, NEW id \in DOMAIN db, NEW pc \in 0..MaxPc, AddUnsupported(c, id, pc)
        PROVE  past' = [past EXCEPT !.unsupported = TRUE]
    BY <2>4 DEF AddUnsupported
  <2>5. ASSUME NEW c \in Clients, NEW id \in DOMAIN db, Report(c, id)
        PROVE  \E S : past' = [past EXCEPT !.reported = S]
    BY <2>5, Zenon DEF Report
  <2>6. ASSUME Step PROVE \E S : past' = [past EXCEPT !.executed = S]
    BY <2>6, Zenon DEF Step
  <2>7. ASSUME NEW id \in DOMAIN db, Execute(id) PROVE UNCHANGED past
    BY <2>7 DEF Execute
  <2> QED
    BY <2>1, <2>2, <2>3, <2>4, <2>5, <2>6, <2>7, Zenon DEF Next
<1> QED
  BY <1>1 DEF Recorded

LEMMA CleanStep ==
    ASSUME IInv, Next, ~past'.unsupported
    PROVE  DbOK' /\ ClientsOK'
<1>1. Recorded /\ ~past.unsupported
  BY Remembered DEF IInv
<1>2. DbOK /\ ClientsOK
  BY <1>1 DEF IInv
<1>3. /\ draft = db /\ db \in Seq(Programs) /\ \A c \in Clients : View(c) = db
      /\ client \in [Clients -> States]
  BY <1>2 DEF DbOK, ClientsOK, View
<1>4. ASSUME NEW c \in Clients, NEW n \in Names, NEW s \in Sources, Import(c, n, s)
      PROVE  DbOK' /\ ClientsOK'
  <2>1. CASE Taken(c, n, s)
    <3>1. UNCHANGED <<db, client, past>> /\ draft' = db
      BY <1>3, <1>4, <2>1 DEF Import, LeaveOpen
    <3> QED
      BY <1>2, <3>1, DbStays DEF ClientsOK, Importing
  <2>2. CASE ~Taken(c, n, s)
    <3> DEFINE state == [op |-> "import", name |-> n, source |-> s, id |-> Len(db) + 1, pc |-> 0]
    <3>1. Commit(NewProgram(c, n, s)) /\ Become(c, state) /\ UNCHANGED past
      BY <1>3, <1>4, <2>2 DEF Import
    <3>2. /\ DbOK'
          /\ DOMAIN db' = 1..(Len(db) + 1)
          /\ DOMAIN db = 1..Len(db)
          /\ \A i \in DOMAIN db : db'[i] = db[i]
          /\ UpTo(db'[Len(db) + 1], 0)
          /\ db'[Len(db) + 1].source = s
      BY <1>2, <2>2, <3>1, RegisterStep
    <3>3. state \in States /\ Len(db) \in Nat
      BY <1>3 DEF States
    <3>4. /\ client' \in [Clients -> States]
          /\ client'[c] = state
          /\ \A d \in Clients \ {c} : client'[d] = client[d]
      BY <1>3, <3>1, <3>3 DEF Become
    <3>5. past.finished \subseteq DOMAIN db
      BY <1>2 DEF DbOK
    <3>6. Len(db) + 1 \in DOMAIN db' /\ Len(db) + 1 \notin DOMAIN db
      BY <3>2, <3>3
    <3> QED
      BY <1>2, <3>1, <3>2, <3>3, <3>4, <3>5, <3>6 DEF ClientsOK, Importing
  <2> QED
    BY <2>1, <2>2
<1>5. ASSUME NEW c \in Clients, NEW n \in Names, NEW s \in Sources, Generate(c, n, s)
      PROVE  DbOK' /\ ClientsOK'
  <2> DEFINE state == [Idle EXCEPT !.op = "look", !.name = n, !.source = s]
  <2>1. Become(c, state) /\ UNCHANGED <<db, past>> /\ draft' = db
    BY <1>3, <1>5 DEF Generate
  <2>2. state \in States /\ state.op = "look" /\ state.name = n /\ state.source = s
    BY DEF Idle, States
  <2> QED
    BY <1>2, <2>1, <2>2, DbStays, OthersImport
<1>6. ASSUME NEW c \in Clients, AddNext(c) PROVE DbOK' /\ ClientsOK'
  <2>1. Importing(c) /\ client[c].pc < Len(client[c].source) /\ UNCHANGED past
    BY <1>6 DEF AddNext, Importing
  <2>2. CASE Become(c, Idle) /\ UNCHANGED db /\ draft' = db
    BY <1>2, <2>1, <2>2, DbStays, OthersImport, IdleStates DEF Idle
  <2>3. CASE /\ Become(c, [client[c] EXCEPT !.pc = @ + 1])
             /\ Commit(WithStatement(c, client[c].id, client[c].pc,
                                     client[c].source[client[c].pc + 1]))
    <3>1. /\ DbOK'
          /\ DOMAIN db' = DOMAIN db
          /\ \A i \in DOMAIN db : i # client[c].id => db'[i] = db[i]
          /\ UpTo(db'[client[c].id], client[c].pc + 1)
          /\ \A i \in DOMAIN db : db'[i].source = db[i].source
      BY <1>2, <2>1, <2>3, StatementStep
    <3>2. client[c] \in States
      BY <1>3
    <3> DEFINE state == [client[c] EXCEPT !.pc = @ + 1]
    <3>3. /\ state \in States /\ state.op = client[c].op /\ state.id = client[c].id
          /\ state.source = client[c].source /\ state.pc = client[c].pc + 1
      BY <3>2 DEF States
    <3> HIDE DEF state
    <3>4. /\ client' \in [Clients -> States]
          /\ client'[c] = state
          /\ \A d \in Clients \ {c} : client'[d] = client[d]
      BY <1>3, <2>3, <3>3 DEF Become, state
    <3>5. ASSUME NEW d \in Clients \ {c}, Importing(d) PROVE client[d].id # client[c].id
      BY <1>2, <2>1, <3>5 DEF ClientsOK
    <3> QED
      BY <1>2, <2>1, <3>1, <3>3, <3>4, <3>5 DEF ClientsOK, Importing
  <2> QED
    BY <1>3, <1>6, <2>2, <2>3 DEF AddNext, LeaveOpen
<1>7. ASSUME NEW c \in Clients, ImportDone(c) PROVE DbOK' /\ ClientsOK'
  <2> DEFINE id == client[c].id
  <2>1. /\ Importing(c) /\ client[c].pc = Len(client[c].source)
        /\ past'.finished = past.finished \cup {id}
        /\ Become(c, Idle) /\ UNCHANGED <<db, draft>>
    BY <1>1, <1>7 DEF ImportDone, Importing
  <2>2. /\ id \in DOMAIN db
        /\ UpTo(db[id], Len(db[id].source))
        /\ \A d \in Clients \ {c} : Importing(d) => client[d].id # id
    BY <1>2, <2>1 DEF ClientsOK
  <2>3. DbOK'
    BY <1>2, <2>1, <2>2 DEF DbOK
  <2>4. /\ client' \in [Clients -> States]
        /\ client'[c] = Idle
        /\ \A d \in Clients \ {c} : client'[d] = client[d]
    BY <1>3, <2>1, IdleStates DEF Become
  <2>5. ClientsOK'
    BY <1>2, <2>1, <2>2, <2>4 DEF ClientsOK, Importing, Idle
  <2> QED
    BY <2>3, <2>5
<1>8. ASSUME NEW c \in Clients, End(c) PROVE DbOK' /\ ClientsOK'
  <2>1. Become(c, Idle) /\ UNCHANGED <<db, past>> /\ draft' = db
    BY <1>3, <1>8 DEF End, Close
  <2> QED
    BY <1>2, <2>1, DbStays, OthersImport, IdleStates DEF Idle
<1>9. ASSUME NEW c \in Clients, Die(c), UNCHANGED past PROVE DbOK' /\ ClientsOK'
  <2>1. /\ Become(c, [Idle EXCEPT !.op = "dead"]) /\ UNCHANGED <<db, past>> /\ draft' = db
    BY <1>3, <1>9 DEF Die, Close
  <2> QED
    BY <1>2, <2>1, DbStays, OthersImport, IdleStates DEF Idle
<1>10. ASSUME NEW c \in Clients, Look(c) PROVE DbOK' /\ ClientsOK'
  <2>1. client[c].op = "look" /\ UNCHANGED past
    BY <1>10 DEF Look
  <2>2. CASE Become(c, [client[c] EXCEPT !.op = "store"]) /\ UNCHANGED <<db, draft>>
    <3> DEFINE state == [client[c] EXCEPT !.op = "store"]
    <3>1. client[c] \in States /\ client[c].name \in Names /\ client[c].source \in Sources
      BY <1>2, <2>1 DEF ClientsOK
    <3>2. /\ state \in States /\ state.op = "store"
          /\ state.name \in Names /\ state.source \in Sources
      BY <3>1 DEF States
    <3> QED
      BY <1>2, <1>3, <2>1, <2>2, <3>2, DbStays, OthersImport
  <2> QED
    BY <1>9, <1>10, <2>1, <2>2 DEF Look
<1>11. ASSUME NEW c \in Clients, Store(c) PROVE DbOK' /\ ClientsOK'
  <2>1. client[c].op = "store" /\ UNCHANGED past
    BY <1>11 DEF Store
  <2>2. CASE /\ ~Taken(c, client[c].name, client[c].source)
             /\ Commit(NewProgram(c, client[c].name, client[c].source))
             /\ Become(c, Idle)
    <3>1. client[c].name \in Names /\ client[c].source \in Sources
      BY <1>2, <2>1 DEF ClientsOK
    <3>2. DbOK' /\ Kept
      BY <1>2, <1>3, <2>1, <2>2, <3>1, RegisterStep DEF Kept
    <3> QED
      BY <1>2, <2>1, <2>2, <3>2, OthersImport, IdleStates DEF Idle
  <2> QED
    BY <1>9, <1>11, <2>1, <2>2 DEF Store
<1>12. ASSUME NEW c \in Clients, NEW id \in DOMAIN db, NEW pc \in 0..MaxPc, AddUnsupported(c, id, pc)
       PROVE FALSE
  BY <1>1, <1>12 DEF AddUnsupported, Recorded
<1>13. CASE UNCHANGED <<db, draft, client>> /\ past'.finished = past.finished
  BY <1>2, <1>13 DEF DbOK, ClientsOK, Importing
<1>14. ASSUME Step \/ \E c \in Clients, id \in DOMAIN db : Report(c, id)
       PROVE  UNCHANGED <<db, draft, client>> /\ past'.finished = past.finished
  <2>1. CASE Step
    <3>1. UNCHANGED <<db, draft, client>> /\ \E S : past' = [past EXCEPT !.executed = S]
      BY <2>1, Zenon DEF Step
    <3> QED
      BY <1>1, <3>1 DEF Recorded
  <2>2. ASSUME NEW c \in Clients, NEW id \in DOMAIN db, Report(c, id)
        PROVE  UNCHANGED <<db, draft, client>> /\ past'.finished = past.finished
    <3>1. UNCHANGED <<db, draft, client>> /\ \E S : past' = [past EXCEPT !.reported = S]
      BY <2>2, Zenon DEF Report
    <3> QED
      BY <1>1, <3>1 DEF Recorded
  <2> QED
    BY <1>14, <2>1, <2>2
<1>15. ASSUME NEW id \in DOMAIN db, Execute(id)
       PROVE  UNCHANGED <<db, draft, client>> /\ past'.finished = past.finished
  BY <1>15 DEF Execute
<1> QED
  BY <1>4, <1>5, <1>6, <1>7, <1>8, <1>10, <1>11, <1>12, <1>13, <1>14, <1>15 DEF Next

\* Whatever is interrupted, a stored program is a beginning of its source, and all
\* of it once its import has returned, and none is stored twice (source_to_db and
\* create_program against the constraints of the tables).
THEOREM RepositoryStoredIsABeginning == Spec => []StoredIsABeginning
<1>1. Init => IInv
  <2> SUFFICES ASSUME Init PROVE IInv
    OBVIOUS
  <2>1. DbOK
    BY DEF Init, DbOK
  <2>2. ClientsOK
    BY IdleStates DEF Init, ClientsOK, Importing, Idle
  <2> QED
    BY <2>1, <2>2 DEF Init, IInv, Recorded
<1>2. IInv /\ [Next]_vars => IInv'
  <2> SUFFICES ASSUME IInv, [Next]_vars PROVE IInv'
    OBVIOUS
  <2>1. CASE Next
    BY <2>1, CleanStep, Remembered DEF IInv
  <2>2. CASE UNCHANGED vars
    BY <2>2 DEF vars, IInv, DbOK, ClientsOK, Importing, Recorded
  <2> QED
    BY <2>1, <2>2
<1>3. IInv => StoredIsABeginning
  <2> SUFFICES ASSUME DbOK PROVE StoredIsABeginning
    BY DEF IInv, StoredIsABeginning
  <2>1. \A i \in DOMAIN db : db[i] \in Programs /\ \E n \in Nat : UpTo(db[i], n)
    BY DEF DbOK
  <2>2. \A i \in DOMAIN db : Prefix(db[i].rows, db[i].source)
    BY <2>1, UpToIsPrefix
  <2>3. \A i \in past.finished : Cardinality(DOMAIN db[i].rows) = Len(db[i].source)
    <3>1. \A i \in past.finished : Len(db[i].source) \in Nat
      BY DEF DbOK, UpTo
    <3> QED
      BY <2>1, <3>1, UpToIsPrefix DEF DbOK
  <2> QED
    BY <2>2, <2>3 DEF DbOK, StoredIsABeginning
<1> QED
  BY <1>1, <1>2, <1>3, PTL DEF Spec

-----------------------------------------------------------------------------
\* The analysis of unreachable statements.

\* A set of naturals has a least member.  (This is induction, for sets instead of
\* predicates.)
LEMMA Least == ASSUME NEW T \in SUBSET Nat, T # {}
               PROVE  \E n \in T : \A m \in T : n <= m
<1> DEFINE R == {ss \in Nat \X Nat : ss[1] < ss[2]}
<1>1. IsWellFoundedOn(R, Nat)
  BY NatLessThanWellFounded DEF OpToRel
<1>2. \A m, n \in Nat : <<m, n>> \in R <=> m < n
  OBVIOUS
<1> HIDE DEF R
<1>3. PICK n \in T : \A m \in T : ~ (<<m, n>> \in R)
  BY <1>1, WFMin
<1>4. ASSUME NEW m \in T PROVE n <= m
  <2>1. m \in Nat /\ n \in Nat /\ ~ (<<m, n>> \in R)
    BY <1>3
  <2>2. ~ (m < n)
    BY <1>2, <2>1
  <2> QED
    BY <2>1, <2>2
<1> QED
  BY <1>4

\* The least member is the one that Min chooses.
LEMMA MinLeast == ASSUME NEW T \in SUBSET Nat, T # {}
                  PROVE  Min(T) \in T /\ \A m \in T : Min(T) <= m
  BY Least DEF Min

LEMMA OneLeast == ASSUME NEW T \in SUBSET Nat, NEW n \in T, \A m \in T : n <= m
                  PROVE  Min(T) = n
<1>1. Min(T) \in T /\ Min(T) <= n
  BY MinLeast
<1>2. \A k, m \in Nat : k <= m /\ m <= k => k = m
  OBVIOUS
<1> QED
  BY <1>1, <1>2

FiniteSetsOfPcs == {D \in SUBSET Nat : IsFiniteSet(D)}

LEMMA EdgesInside == ASSUME NEW rows, DOMAIN rows \in SUBSET Nat, NEW pc
                     PROVE  Edges(rows, pc) \subseteq DOMAIN rows
<1>1. Jump(rows, pc) \subseteq DOMAIN rows
  <2> DEFINE T == Labelled(rows, rows[pc].label)
  <2>1. T \in SUBSET Nat /\ T \subseteq DOMAIN rows
    BY DEF Labelled
  <2> QED
    BY <2>1, MinLeast DEF Jump, LabelPc
<1> QED
  BY <1>1 DEF Edges

\* A recursive function on 0..N whose values depend on the one before exists: there
\* is no least n up to which it does not.
Growing(rows, X) == X \cup UNION {Edges(rows, pc) : pc \in X}
Entry(rows) == {0} \cap DOMAIN rows
Grows(rows, g, n) == g = [m \in 0..n |-> IF m = 0 THEN Entry(rows) ELSE Growing(rows, g[m - 1])]

LEMMA GrowthExists == ASSUME NEW rows, NEW N \in Nat PROVE \E g : Grows(rows, g, N)
<1> DEFINE T == {n \in Nat : ~ \E g : Grows(rows, g, n)}
<1> SUFFICES ASSUME T # {} PROVE FALSE
  OBVIOUS
<1>1. PICK n \in T : \A m \in T : n <= m
  <2>1. T \in SUBSET Nat
    OBVIOUS
  <2> HIDE DEF T
  <2> QED
    BY <2>1, Least
<1>2. CASE n = 0
  <2> DEFINE g == [m \in 0..0 |-> Entry(rows)]
  <2>1. Grows(rows, g, 0)
    BY DEF Grows
  <2> QED
    BY <1>1, <1>2, <2>1
<1>3. CASE n # 0
  <2>1. n - 1 \in Nat /\ n - 1 \notin T
    BY <1>1, <1>3
  <2>2. PICK h : Grows(rows, h, n - 1)
    BY <2>1
  <2> DEFINE g == [m \in 0..n |-> IF m = n THEN Growing(rows, h[n - 1]) ELSE h[m]]
  <2>3. ASSUME NEW m \in 0..n
        PROVE  g[m] = IF m = 0 THEN Entry(rows) ELSE Growing(rows, g[m - 1])
    <3>1. CASE m = n
      <4>1. m - 1 \in 0..n /\ m - 1 # n /\ m # 0
        BY <1>3, <2>1, <3>1
      <4> QED
        BY <3>1, <4>1
    <3>2. CASE m # n
      <4>1. m \in 0..(n - 1) /\ g[m] = h[m]
        BY <2>1, <3>2
      <4>2. h[m] = IF m = 0 THEN Entry(rows) ELSE Growing(rows, h[m - 1])
        BY <2>2, <4>1 DEF Grows
      <4>3. m # 0 => m - 1 \in 0..n /\ m - 1 # n
        BY <2>1, <3>2
      <4> QED
        BY <4>1, <4>2, <4>3
    <3> QED
      BY <3>1, <3>2
  <2>4. g = [m \in 0..n |-> g[m]]
    OBVIOUS
  <2> HIDE DEF g
  <2>5. Grows(rows, g, n)
    BY <2>3, <2>4 DEF Grows
  <2> QED
    BY <1>1, <2>5
<1> QED
  BY <1>2, <1>3

\* So Reached is the last value of such a function.
LEMMA ReachedGrows ==
    ASSUME NEW rows, Cardinality(DOMAIN rows) \in Nat
    PROVE  \E g : Grows(rows, g, Cardinality(DOMAIN rows)) /\ Reached(rows) = g[Cardinality(DOMAIN rows)]
<1> DEFINE N == Cardinality(DOMAIN rows)
           grow == CHOOSE g : g = [n \in 0..N |-> IF n = 0 THEN {0} \cap DOMAIN rows
                       ELSE g[n - 1] \cup UNION {Edges(rows, pc) : pc \in g[n - 1]}]
<1>1. \E g : g = [n \in 0..N |-> IF n = 0 THEN {0} \cap DOMAIN rows
                       ELSE g[n - 1] \cup UNION {Edges(rows, pc) : pc \in g[n - 1]}]
  <2>1. PICK h : Grows(rows, h, N)
    BY GrowthExists
  <2>2. h = [n \in 0..N |-> IF n = 0 THEN {0} \cap DOMAIN rows
                       ELSE h[n - 1] \cup UNION {Edges(rows, pc) : pc \in h[n - 1]}]
    BY <2>1 DEF Grows, Growing, Entry
  <2> QED
    BY <2>2
<1>2. Grows(rows, grow, N)
  BY <1>1 DEF Grows, Growing, Entry
<1>3. Reached(rows) = grow[N]
  BY DEF Reached
<1> HIDE DEF grow
<1> QED
  BY <1>2, <1>3

\* Every value of it but the last that reaches no more pcs than the one before is
\* closed, and every other has one pc more: as there are N pcs, the last is closed.
IsClosed(rows, X) == \A pc \in X : Edges(rows, pc) \subseteq X

LEMMA GrowthCloses ==
    ASSUME NEW rows, DOMAIN rows \in SUBSET Nat, IsFiniteSet(DOMAIN rows), 0 \in DOMAIN rows,
           NEW N, N = Cardinality(DOMAIN rows), NEW g, Grows(rows, g, N)
    PROVE  g[N] \subseteq DOMAIN rows /\ 0 \in g[N] /\ IsClosed(rows, g[N])
<1>0. N \in Nat
  BY FS_CardinalityType
<1>1. g[0] = {0} /\ \A n \in 0..N : n # 0 => g[n] = Growing(rows, g[n - 1])
  <2>1. \A n \in 0..N : g[n] = IF n = 0 THEN Entry(rows) ELSE Growing(rows, g[n - 1])
    BY DEF Grows
  <2>2. 0 \in 0..N /\ Entry(rows) = {0}
    BY <1>0 DEF Entry
  <2> QED
    BY <2>1, <2>2
<1> DEFINE Good(n) == /\ g[n] \subseteq DOMAIN rows /\ 0 \in g[n]
                      /\ IsClosed(rows, g[n]) \/ Cardinality(g[n]) > n
           T == {n \in 0..N : ~Good(n)}
<1>2. Good(0)
  <2>1. \A x : Cardinality({x}) = 1
    BY FS_Singleton
  <2> QED
    BY <1>1, <2>1
<1>3. ASSUME NEW n \in 0..N, n # 0, Good(n - 1) PROVE Good(n)
  <2> DEFINE X == g[n - 1]
  <2>1. g[n] = Growing(rows, X)
    BY <1>1, <1>3
  <2>2. X \subseteq g[n] /\ g[n] \subseteq DOMAIN rows /\ 0 \in g[n]
    BY <1>3, <2>1, EdgesInside DEF Growing
  <2>3. CASE IsClosed(rows, X)
    <3>1. g[n] = X
      BY <2>1, <2>3 DEF IsClosed, Growing
    <3> QED
      BY <2>2, <2>3, <3>1
  <2>4. CASE ~IsClosed(rows, X)
    <3>1. X # g[n]
      BY <2>1, <2>4 DEF IsClosed, Growing
    <3>2. \A S, U : IsFiniteSet(U) /\ S \subseteq U =>
             /\ IsFiniteSet(S) /\ Cardinality(S) \in Nat /\ Cardinality(U) \in Nat
             /\ S # U => Cardinality(S) < Cardinality(U)
      <4> SUFFICES ASSUME NEW S, NEW U, IsFiniteSet(U), S \subseteq U
                   PROVE  /\ IsFiniteSet(S) /\ Cardinality(S) \in Nat /\ Cardinality(U) \in Nat
                          /\ S # U => Cardinality(S) < Cardinality(U)
        OBVIOUS
      <4>1. IsFiniteSet(S) /\ Cardinality(S) <= Cardinality(U)
              /\ (Cardinality(U) = Cardinality(S) => U = S)
        BY FS_Subset
      <4>2. Cardinality(S) \in Nat /\ Cardinality(U) \in Nat
        BY <4>1, FS_CardinalityType
      <4> QED
        BY <4>1, <4>2
    <3>3. IsFiniteSet(g[n])
      BY <2>2, <3>2
    <3>4. Cardinality(X) < Cardinality(g[n]) /\ Cardinality(X) \in Nat /\ Cardinality(g[n]) \in Nat
      BY <2>2, <3>1, <3>2, <3>3
    <3>5. Cardinality(X) > n - 1
      BY <1>3, <2>4
    <3>6. Cardinality(g[n]) > n
      BY <1>0, <3>4, <3>5
    <3> QED
      BY <2>2, <3>6
  <2> QED
    BY <2>3, <2>4
<1> HIDE DEF Good
<1>4. T = {}
  <2> SUFFICES ASSUME T # {} PROVE FALSE
    OBVIOUS
  <2>1. T \in SUBSET Nat
    BY <1>0
  <2>2. PICK n \in T : \A m \in T : n <= m
    BY <2>1, Least
  <2>3. n \in 0..N /\ ~Good(n) /\ n # 0
    BY <1>2
  <2>4. n - 1 \in 0..N /\ n - 1 \notin T
    BY <1>0, <2>2, <2>3
  <2> QED
    BY <1>3, <2>3, <2>4
<1>5. Good(N)
  BY <1>0, <1>4
<1>6. ~(Cardinality(g[N]) > N)
  <2>1. \A S, U : IsFiniteSet(U) /\ S \subseteq U => Cardinality(S) <= Cardinality(U) /\ Cardinality(S) \in Nat
    BY FS_Subset, FS_CardinalityType
  <2>2. Cardinality(g[N]) <= N /\ Cardinality(g[N]) \in Nat
    BY <1>5, <2>1 DEF Good
  <2> QED
    BY <1>0, <2>2
<1> QED
  BY <1>5, <1>6 DEF Good

LEMMA ReachedCloses ==
    ASSUME NEW rows, DOMAIN rows \in SUBSET Nat, IsFiniteSet(DOMAIN rows), 0 \in DOMAIN rows
    PROVE  0 \in Reached(rows) /\ IsClosed(rows, Reached(rows))
<1> DEFINE N == Cardinality(DOMAIN rows)
<1>1. N \in Nat
  BY FS_CardinalityType
<1>2. PICK g : Grows(rows, g, N) /\ Reached(rows) = g[N]
  BY <1>1, ReachedGrows
<1>3. 0 \in g[N] /\ IsClosed(rows, g[N])
  BY <1>2, GrowthCloses
<1> QED
  BY <1>2, <1>3

-----------------------------------------------------------------------------
\* How the stored programs grow, also beside statements of an unsupported kind.

Statements == Stmts \cup {Unsupported}
Rows == UNION {[D -> Statements] : D \in FiniteSetsOfPcs}
Tables == [name : Names, source : Sources, rows : Rows]

\* All labels are at pcs below n.
LabelsBelow(rows, n) == \A pc \in DOMAIN rows : rows[pc].kind = "label" => pc < n

\* A table keeps its rows, and any new label comes after the old ones; an open
\* transaction has only added unsupported statements.
Grown(rows, more) ==
    /\ DOMAIN rows \subseteq DOMAIN more
    /\ \A pc \in DOMAIN rows : more[pc] = rows[pc]
    /\ \A pc \in DOMAIN more \ DOMAIN rows : more[pc].kind = "label" => LabelsBelow(rows, pc)

Padded(rows, more) ==
    /\ DOMAIN rows \subseteq DOMAIN more
    /\ \A pc \in DOMAIN rows : more[pc] = rows[pc]
    /\ \A pc \in DOMAIN more \ DOMAIN rows : more[pc] = Unsupported

OpenOn(new) == /\ new \in Seq(Tables) /\ Len(new) = Len(db)
               /\ \A i \in DOMAIN db : Padded(db[i].rows, new[i].rows)

TablesOK == db \in Seq(Tables) /\ OpenOn(draft)

\* An import has added all the labels of its program that are there, and is the
\* only import of it.
ImportersOK ==
    /\ client \in [Clients -> States]
    /\ \A c \in Clients :
          /\ client[c].op \in {"look", "store"} => client[c].name \in Names /\ client[c].source \in Sources
          /\ Importing(c) => /\ client[c].id \in DOMAIN db
                             /\ LabelsBelow(db[client[c].id].rows, client[c].pc)
    /\ \A c, d \in Clients : Importing(c) /\ Importing(d) /\ client[c].id = client[d].id => c = d

\* Where execution may go from a pc, also to one that is not there.
Ways(rows, pc) == (IF rows[pc].kind \in {"goto", "if_goto"} THEN Jump(rows, pc) ELSE {})
                    \cup (IF rows[pc].kind \in {"goto", "unsupported"} THEN {} ELSE {pc + 1})
Encloses(rows, S) == 0 \in S /\ \A pc \in S \cap DOMAIN rows : Ways(rows, pc) \subseteq S

\* What an execution may come to is in every set of pcs that it cannot leave.  What it
\* never comes to is outside one of a program that gets no more statements to execute.
Reachable(id, pc) == /\ id \in DOMAIN db /\ pc \in Nat
                     /\ \A S \in SUBSET Nat : Encloses(db[id].rows, S) => pc \in S
Dead(id, pc) == /\ id \in DOMAIN db /\ ~ImportGoesOn(id)
                /\ \E S \in SUBSET Nat : Encloses(db[id].rows, S) /\ pc \notin S

WalkerOK == /\ walker \in [id : Nat, pc : Nat]
            /\ walker.id = 0 \/ Reachable(walker.id, walker.pc)
ExecutedOK == /\ past.executed \subseteq Nat \X Nat
              /\ \A id, pc \in Nat : <<id, pc>> \in past.executed => Reachable(id, pc)
ReportedOK == /\ past.reported \subseteq Nat \X Nat
              /\ \A id, pc \in Nat : <<id, pc>> \in past.reported => Dead(id, pc)

\* Programs that nobody is importing are not imported any more, and get nothing that
\* can be executed.
Settled == \A i \in DOMAIN db : ~ImportGoesOn(i) =>
              ~ImportGoesOn(i)' /\ i \in DOMAIN db' /\ Padded(db[i].rows, db'[i].rows)

\* Programs grow.
Grow == \A i \in DOMAIN db : i \in DOMAIN db' /\ Grown(db[i].rows, db'[i].rows)

LEMMA RowsTyped == ASSUME NEW rows \in Rows
                   PROVE  DOMAIN rows \in SUBSET Nat /\ IsFiniteSet(DOMAIN rows)
  BY DEF Rows, FiniteSetsOfPcs

\* A statement more.
WithRow(rows, pc, stmt, more) ==
    /\ more \in Rows /\ DOMAIN more = DOMAIN rows \cup {pc} /\ more[pc] = stmt
    /\ \A q \in DOMAIN rows : q # pc => more[q] = rows[q]

LEMMA OneRowMore ==
    ASSUME NEW rows \in Rows, NEW pc \in Nat, NEW stmt \in Statements
    PROVE  WithRow(rows, pc, stmt, Extended(rows, pc, stmt))
<1> DEFINE more == Extended(rows, pc, stmt)
           D == DOMAIN rows \cup {pc}
<1>1. D \in FiniteSetsOfPcs
  <2>1. \A S, x : IsFiniteSet(S) => IsFiniteSet(S \cup {x})
    BY FS_AddElement
  <2> QED
    BY <2>1, RowsTyped DEF FiniteSetsOfPcs
<1>2. \A q \in DOMAIN rows : rows[q] \in Statements
  BY DEF Rows
<1>3. more = [q \in D |-> IF q = pc THEN stmt ELSE rows[q]]
  BY DEF Extended
<1>4. more \in [D -> Statements]
  BY <1>2, <1>3
<1>5. more \in Rows
  BY <1>1, <1>4 DEF Rows
<1> QED
  BY <1>3, <1>5 DEF WithRow

\* The jumps of a statement are the same in a program that has grown, and its other
\* ways too.
LEMMA WaysStay ==
    ASSUME NEW rows \in Rows, NEW more \in Rows, Grown(rows, more), NEW pc \in DOMAIN rows
    PROVE  Ways(rows, pc) \subseteq Ways(more, pc)
<1>1. more[pc] = rows[pc]
  BY DEF Grown
<1>2. ASSUME NEW target \in Jump(rows, pc) PROVE target \in Jump(more, pc)
  <2> DEFINE old == Labelled(rows, rows[pc].label)
             new == Labelled(more, rows[pc].label)
  <2>1. old # {} /\ target = Min(old)
    BY <1>2 DEF Jump, LabelPc
  <2>2. old \in SUBSET Nat /\ new \in SUBSET Nat /\ old \subseteq new
    BY RowsTyped DEF Labelled, Grown
  <2>3. target \in old /\ target \in Nat /\ \A m \in old : target <= m
    BY <2>1, <2>2, MinLeast
  <2>4. \A m \in new \ old : target < m
    BY <2>3 DEF Labelled, Grown, LabelsBelow, Stmt
  <2>5. \A m \in new : target <= m
    BY <2>2, <2>3, <2>4
  <2>6. target \in new
    BY <2>2, <2>3
  <2> HIDE DEF old, new
  <2>7. Min(new) = target
    BY <2>2, <2>5, <2>6, OneLeast
  <2> QED
    BY <1>1, <2>6, <2>7 DEF Jump, LabelPc, new
<1> QED
  BY <1>1, <1>2 DEF Ways

\* A database without the open transaction, or with it.
LEMMA Views == ASSUME TablesOK, NEW c PROVE OpenOn(View(c))
<1>1. \A rows : Padded(rows, rows)
  BY DEF Padded
<1> QED
  BY <1>1 DEF View, TablesOK, OpenOn

LEMMA PaddedGrown ==
    ASSUME NEW rows, NEW more, Padded(rows, more)
    PROVE  Grown(rows, more) /\ \A n : LabelsBelow(rows, n) => LabelsBelow(more, n)
<1>1. Unsupported.kind # "label"
  BY DEF Unsupported, Stmt
<1> QED
  BY <1>1 DEF Padded, Grown, LabelsBelow

\* A transaction that is left open.
LEMMA Opened == ASSUME TablesOK, NEW new, OpenOn(new), draft' = new, db' = db
                PROVE  TablesOK' /\ Grow
<1>1. \A rows : Grown(rows, rows)
  BY DEF Grown
<1> QED
  BY <1>1 DEF TablesOK, OpenOn, Grow

\* A transaction that is committed: a program more, ...
LEMMA CommitProgram ==
    ASSUME TablesOK, NEW c, NEW name \in Names, NEW source \in Sources,
           Commit(NewProgram(c, name, source))
    PROVE  /\ TablesOK' /\ Grow
           /\ DOMAIN db' = 1..(Len(db) + 1) /\ DOMAIN db = 1..Len(db) /\ Len(db) \in Nat
           /\ \A i \in DOMAIN db : Padded(db[i].rows, db'[i].rows)
           /\ \A n : LabelsBelow(db'[Len(db) + 1].rows, n)
<1> DEFINE p == [name |-> name, source |-> source, rows |-> <<>>]
           V == View(c)
<1>1. p \in Tables /\ DOMAIN p.rows = {}
  <2>1. {} \in FiniteSetsOfPcs
    BY FS_EmptySet DEF FiniteSetsOfPcs
  <2>2. <<>> \in [{} -> Statements] /\ DOMAIN <<>> = {}
    OBVIOUS
  <2>3. <<>> \in Rows
    BY <2>1, <2>2 DEF Rows
  <2> QED
    BY <2>2, <2>3 DEF Tables
<1>2. OpenOn(V)
  BY Views
<1>3. db' = Append(V, p) /\ draft' = db'
  BY DEF Commit, NewProgram
<1> HIDE DEF p, V
<1>4. /\ V \in Seq(Tables) /\ Len(V) = Len(db) /\ db \in Seq(Tables) /\ Len(db) \in Nat
      /\ DOMAIN V = 1..Len(db) /\ DOMAIN db = 1..Len(db)
  BY <1>2 DEF OpenOn, TablesOK
<1>5. /\ db' \in Seq(Tables) /\ DOMAIN db' = 1..(Len(db) + 1)
      /\ \A i \in DOMAIN db : db'[i] = V[i]
      /\ db'[Len(db) + 1] = p
  BY <1>1, <1>3, <1>4
<1>6. \A i \in DOMAIN db : Padded(db[i].rows, db'[i].rows)
  BY <1>2, <1>5 DEF OpenOn
<1>7. TablesOK'
  <2>1. \A rows : Padded(rows, rows)
    BY DEF Padded
  <2> QED
    BY <1>3, <1>5, <2>1 DEF TablesOK, OpenOn
<1>8. Grow
  BY <1>4, <1>5, <1>6, PaddedGrown DEF Grow
<1>9. \A n : LabelsBelow(db'[Len(db) + 1].rows, n)
  BY <1>1, <1>5 DEF LabelsBelow
<1> QED
  BY <1>4, <1>5, <1>6, <1>7, <1>8, <1>9

\* ... or a statement more.
LEMMA NextStatement ==
    ASSUME TablesOK, NEW c, NEW id \in DOMAIN db, NEW pc \in Nat, NEW stmt \in Statements,
           pc \notin DOMAIN View(c)[id].rows, NEW new, new = WithStatement(c, id, pc, stmt)
    PROVE  /\ new \in Seq(Tables) /\ Len(new) = Len(db)
           /\ \A i \in DOMAIN db : i # id => Padded(db[i].rows, new[i].rows)
           /\ stmt = Unsupported => OpenOn(new)
           /\ LabelsBelow(db[id].rows, pc) =>
                 Grown(db[id].rows, new[id].rows) /\ LabelsBelow(new[id].rows, pc + 1)
<1> DEFINE V == View(c)
           more == Extended(V[id].rows, pc, stmt)
<1>1. OpenOn(V) /\ pc \notin DOMAIN V[id].rows
  BY Views
<1>2. new = [V EXCEPT ![id].rows = more]
  BY DEF WithStatement
<1> HIDE DEF V
<1>3. V \in Seq(Tables) /\ Len(V) = Len(db) /\ DOMAIN V = 1..Len(db) /\ DOMAIN db = 1..Len(db)
        /\ V[id] \in Tables /\ V[id].rows \in Rows
  <2>1. V \in Seq(Tables) /\ Len(V) = Len(db) /\ db \in Seq(Tables)
    BY <1>1 DEF OpenOn, TablesOK
  <2>2. DOMAIN V = 1..Len(db) /\ DOMAIN db = 1..Len(db) /\ V[id] \in Tables
    BY <2>1
  <2> QED
    BY <2>1, <2>2 DEF Tables
<1>4. more \in Rows /\ DOMAIN more = DOMAIN V[id].rows \cup {pc} /\ more[pc] = stmt
        /\ \A q \in DOMAIN V[id].rows : more[q] = V[id].rows[q]
  <2>1. WithRow(V[id].rows, pc, stmt, more)
    BY <1>3, OneRowMore
  <2> HIDE DEF more
  <2> QED
    BY <1>1, <2>1 DEF WithRow
<1> HIDE DEF more
<1>5. [V[id] EXCEPT !.rows = more] \in Tables /\ [V[id] EXCEPT !.rows = more].rows = more
  BY <1>3, <1>4 DEF Tables
<1>6. /\ new \in Seq(Tables) /\ Len(new) = Len(db) /\ new[id].rows = more
      /\ \A i \in DOMAIN db : i # id => new[i] = V[i]
  BY <1>2, <1>3, <1>5
<1>7. Padded(db[id].rows, V[id].rows)
  BY <1>1 DEF OpenOn
<1>8. stmt = Unsupported => Padded(db[id].rows, new[id].rows)
  BY <1>4, <1>6, <1>7 DEF Padded
<1>9. ASSUME LabelsBelow(db[id].rows, pc)
      PROVE  Grown(db[id].rows, new[id].rows) /\ LabelsBelow(new[id].rows, pc + 1)
  <2>1. Unsupported.kind # "label"
    BY DEF Unsupported, Stmt
  <2>2. Grown(db[id].rows, new[id].rows)
    BY <1>4, <1>6, <1>7, <1>9, <2>1, <1>1 DEF Padded, Grown, LabelsBelow
  <2>3. \A q \in DOMAIN V[id].rows : V[id].rows[q].kind = "label" => q < pc
    BY <1>7, <1>9, PaddedGrown DEF LabelsBelow
  <2>4. \A q \in DOMAIN new[id].rows : new[id].rows[q].kind = "label" => q < pc + 1
    BY <1>3, <1>4, <1>6, <2>3, RowsTyped
  <2> QED
    BY <2>2, <2>4 DEF LabelsBelow
<1> QED
  BY <1>1, <1>6, <1>8, <1>9 DEF OpenOn

-----------------------------------------------------------------------------
\* An operation keeps the tables and the imports in order, and programs grow.
Orderly == TablesOK' /\ ImportersOK' /\ Grow /\ Settled

\* A connection that imports nothing afterwards, and the other imports, whose
\* programs get no new labels.
LEMMA OthersGoOn ==
    ASSUME ImportersOK, NEW c \in Clients, NEW state \in States, Become(c, state),
           state.op # "import",
           state.op \in {"look", "store"} => state.name \in Names /\ state.source \in Sources,
           \A i \in DOMAIN db : i \in DOMAIN db' /\ Padded(db[i].rows, db'[i].rows)
    PROVE  ImportersOK' /\ Settled
<1>1. /\ client' \in [Clients -> States]
      /\ client'[c] = state
      /\ \A d \in Clients \ {c} : client'[d] = client[d]
  BY DEF Become, ImportersOK
<1>2. \A i \in DOMAIN db : \A n : LabelsBelow(db[i].rows, n) => LabelsBelow(db'[i].rows, n)
  BY PaddedGrown
<1>3. ImportersOK'
  BY <1>1, <1>2 DEF ImportersOK, Importing
<1>4. Settled
  BY <1>1 DEF Settled, ImportGoesOn
<1> QED
  BY <1>3, <1>4

\* Nothing is committed, and the transaction that is open is this one or none.
LEMMA NothingCommitted ==
    ASSUME TablesOK, ImportersOK, NEW c \in Clients, NEW state \in States, Become(c, state),
           state.op # "import",
           state.op \in {"look", "store"} => state.name \in Names /\ state.source \in Sources,
           UNCHANGED db, draft' \in {db, draft, View(c)}
    PROVE  Orderly
<1>1. \A rows : Padded(rows, rows)
  BY DEF Padded
<1>2. OpenOn(db)
  BY <1>1 DEF OpenOn, TablesOK
<1>3. OpenOn(draft')
  BY <1>2, Views DEF TablesOK
<1>4. TablesOK' /\ Grow
  BY <1>3, Opened
<1>5. \A i \in DOMAIN db : i \in DOMAIN db' /\ Padded(db[i].rows, db'[i].rows)
  BY <1>1
<1> QED
  BY <1>4, <1>5, OthersGoOn DEF Orderly

LEMMA IdleOrderly ==
    ASSUME TablesOK, ImportersOK, NEW c \in Clients, Become(c, Idle), UNCHANGED db,
           draft' \in {db, draft, View(c)}
    PROVE  Orderly
<1>1. Idle.op = "idle" /\ Idle \in States
  BY IdleStates DEF Idle
<1> QED
  BY <1>1, NothingCommitted

LEMMA ImportOrderly ==
    ASSUME TablesOK, ImportersOK, NEW c \in Clients, NEW n \in Names, NEW s \in Sources, Import(c, n, s)
    PROVE  Orderly
<1>1. client[c] = Idle /\ client \in [Clients -> States]
  BY DEF Import, ImportersOK
<1>2. CASE LeaveOpen(c, View(c)) /\ UNCHANGED client
  <2>1. Become(c, Idle)
    BY <1>1, <1>2 DEF Become
  <2>2. draft' = View(c) /\ UNCHANGED db
    BY <1>2 DEF LeaveOpen
  <2> QED
    BY <2>1, <2>2, IdleOrderly
<1>3. CASE /\ Commit(NewProgram(c, n, s))
           /\ Become(c, [op |-> "import", name |-> n, source |-> s, id |-> Len(View(c)) + 1, pc |-> 0])
  <2> DEFINE state == [op |-> "import", name |-> n, source |-> s, id |-> Len(db) + 1, pc |-> 0]
  <2>1. /\ TablesOK' /\ Grow
        /\ DOMAIN db' = 1..(Len(db) + 1) /\ DOMAIN db = 1..Len(db) /\ Len(db) \in Nat
        /\ \A i \in DOMAIN db : Padded(db[i].rows, db'[i].rows)
        /\ \A m : LabelsBelow(db'[Len(db) + 1].rows, m)
    BY <1>3, CommitProgram
  <2>2. Len(View(c)) = Len(db)
    BY Views DEF OpenOn
  <2>3. state \in States /\ state.op = "import" /\ state.id = Len(db) + 1 /\ state.pc = 0
    BY <2>1 DEF States
  <2>4. Become(c, state)
    BY <1>3, <2>2
  <2> HIDE DEF state
  <2>5. /\ client' \in [Clients -> States]
        /\ client'[c] = state
        /\ \A d \in Clients \ {c} : client'[d] = client[d]
    BY <1>1, <2>3, <2>4 DEF Become
  <2>6. \A i \in DOMAIN db : \A m : LabelsBelow(db[i].rows, m) => LabelsBelow(db'[i].rows, m)
    BY <2>1, PaddedGrown
  <2>7. Len(db) + 1 \in DOMAIN db' /\ Len(db) + 1 \notin DOMAIN db /\ DOMAIN db \subseteq DOMAIN db'
    BY <2>1
  <2>8. \A d \in Clients \ {c} : Importing(d) =>
           /\ client'[d].id \in DOMAIN db' /\ client'[d].id # Len(db) + 1
           /\ LabelsBelow(db'[client'[d].id].rows, client'[d].pc)
    BY <2>5, <2>6, <2>7 DEF ImportersOK
  <2>9. ImportersOK'
    BY <2>1, <2>3, <2>5, <2>7, <2>8 DEF ImportersOK, Importing
  <2>10. Settled
    BY <2>1, <2>3, <2>5, <2>7 DEF Settled, ImportGoesOn
  <2> QED
    BY <2>1, <2>9, <2>10 DEF Orderly
<1> QED
  BY <1>2, <1>3 DEF Import

LEMMA AddNextOrderly ==
    ASSUME TablesOK, ImportersOK, NEW c \in Clients, AddNext(c)
    PROVE  Orderly
<1> DEFINE id == client[c].id
           pc == client[c].pc
           stmt == client[c].source[pc + 1]
           new == WithStatement(c, id, pc, stmt)
           state == [client[c] EXCEPT !.pc = @ + 1]
<1>1. /\ client[c] \in States /\ client \in [Clients -> States] /\ Importing(c)
      /\ id \in DOMAIN db /\ LabelsBelow(db[id].rows, pc) /\ pc \in Nat
      /\ pc < Len(client[c].source)
  BY DEF AddNext, ImportersOK, Importing, States
<1>2. CASE Become(c, Idle) /\ UNCHANGED db /\ draft' \in {draft, View(c)}
  BY <1>2, IdleOrderly
<1>3. CASE pc \notin DOMAIN View(c)[id].rows /\ Become(c, state) /\ Commit(new)
  <2>1. stmt \in Statements
    <3>1. client[c].source \in Seq(Stmts)
      <4>1. <<>> \in Seq(Stmts)
        OBVIOUS
      <4> QED
        BY <1>1, <4>1, RepositoryAssumption DEF States
    <3> QED
      BY <1>1, <3>1 DEF Statements
  <2>2. db' = new /\ draft' = new
    BY <1>3 DEF Commit
  <2>3. /\ db' \in Seq(Tables) /\ Len(db') = Len(db)
        /\ \A i \in DOMAIN db : i # id => Padded(db[i].rows, db'[i].rows)
        /\ Grown(db[id].rows, db'[id].rows) /\ LabelsBelow(db'[id].rows, pc + 1)
    <3>1. /\ new \in Seq(Tables) /\ Len(new) = Len(db)
          /\ \A i \in DOMAIN db : i # id => Padded(db[i].rows, new[i].rows)
          /\ Grown(db[id].rows, new[id].rows) /\ LabelsBelow(new[id].rows, pc + 1)
      BY <1>1, <1>3, <2>1, NextStatement
    <3> HIDE DEF new
    <3> QED
      BY <2>2, <3>1
  <2>4. state \in States /\ state.op = "import" /\ state.id = id /\ state.pc = pc + 1
    BY <1>1 DEF States, Importing
  <2>5. /\ client' \in [Clients -> States]
        /\ client'[c] = state
        /\ \A d \in Clients \ {c} : client'[d] = client[d]
    <3> HIDE DEF state
    <3> QED
      BY <1>1, <1>3, <2>4 DEF Become
  <2> HIDE DEF new, state
  <2>6. DOMAIN db' = DOMAIN db /\ db \in Seq(Tables)
    BY <2>3 DEF TablesOK
  <2>7. TablesOK'
    <3>1. \A rows : Padded(rows, rows)
      BY DEF Padded
    <3> QED
      BY <2>2, <2>3, <3>1 DEF TablesOK, OpenOn
  <2>8. Grow
    BY <2>3, <2>6, PaddedGrown DEF Grow
  <2>9. \A d \in Clients \ {c} : Importing(d) => client[d].id # id
    BY <1>1 DEF ImportersOK
  <2>10. \A i \in DOMAIN db : \A m : i # id /\ LabelsBelow(db[i].rows, m) => LabelsBelow(db'[i].rows, m)
    BY <2>3, PaddedGrown
  <2>11. \A d \in Clients \ {c} : Importing(d) =>
            /\ client'[d].id \in DOMAIN db' /\ client'[d].id # id
            /\ LabelsBelow(db'[client'[d].id].rows, client'[d].pc)
    BY <2>5, <2>6, <2>9, <2>10 DEF ImportersOK
  <2>12. ImportersOK'
    BY <1>1, <2>3, <2>4, <2>5, <2>6, <2>11 DEF ImportersOK, Importing
  <2>13. Settled
    BY <1>1, <2>3, <2>4, <2>5, <2>6 DEF Settled, ImportGoesOn, Importing
  <2> QED
    BY <2>7, <2>8, <2>12, <2>13 DEF Orderly
<1> QED
  BY <1>2, <1>3 DEF AddNext, LeaveOpen

LEMMA AddUnsupportedOrderly ==
    ASSUME TablesOK, ImportersOK, NEW c \in Clients, NEW id \in DOMAIN db, NEW pc \in 0..MaxPc,
           AddUnsupported(c, id, pc)
    PROVE  Orderly
<1> DEFINE new == WithStatement(c, id, pc, Unsupported)
<1>1. draft' = new /\ UNCHANGED <<db, client>> /\ pc \notin DOMAIN View(c)[id].rows
  BY DEF AddUnsupported, LeaveOpen
<1>2. pc \in Nat /\ Unsupported \in Statements
  BY RepositoryAssumption DEF Statements
<1>3. OpenOn(new)
  BY <1>1, <1>2, NextStatement
<1>4. TablesOK' /\ Grow
  BY <1>1, <1>3, Opened
<1>5. ImportersOK'
  BY <1>1 DEF ImportersOK, Importing
<1>6. Settled
  BY <1>1 DEF Settled, ImportGoesOn, Padded
<1> QED
  BY <1>4, <1>5, <1>6 DEF Orderly

LEMMA EndOrderly ==
    ASSUME TablesOK, ImportersOK, NEW c \in Clients, End(c)
    PROVE  Orderly
<1>1. Become(c, Idle) /\ UNCHANGED db /\ draft' \in {db, draft, View(c)}
  BY DEF End, Close
<1> QED
  BY <1>1, IdleOrderly

LEMMA DieOrderly ==
    ASSUME TablesOK, ImportersOK, NEW c \in Clients, Die(c)
    PROVE  Orderly
<1> DEFINE state == [Idle EXCEPT !.op = "dead"]
<1>1. Become(c, state) /\ UNCHANGED db /\ draft' \in {db, draft, View(c)}
  BY DEF Die, Close
<1>2. state \in States /\ state.op = "dead"
  BY IdleStates DEF Idle
<1> HIDE DEF state
<1> QED
  BY <1>1, <1>2, NothingCommitted

LEMMA GenerateOrderly ==
    ASSUME TablesOK, ImportersOK, NEW c \in Clients, NEW n \in Names, NEW s \in Sources, Generate(c, n, s)
    PROVE  Orderly
<1> DEFINE state == [Idle EXCEPT !.op = "look", !.name = n, !.source = s]
<1>1. state \in States /\ state.op = "look" /\ state.name = n /\ state.source = s
  BY DEF Idle, States
<1>2. Become(c, state) /\ UNCHANGED db /\ draft' \in {db, draft, View(c)}
  BY DEF Generate
<1> HIDE DEF state
<1> QED
  BY <1>1, <1>2, NothingCommitted

LEMMA LookOrderly ==
    ASSUME TablesOK, ImportersOK, NEW c \in Clients, Look(c)
    PROVE  Orderly
<1> DEFINE state == [client[c] EXCEPT !.op = "store"]
<1>1. client[c].name \in Names /\ client[c].source \in Sources /\ client[c] \in States
  BY DEF ImportersOK, Look
<1>2. state \in States /\ state.op = "store" /\ state.name \in Names /\ state.source \in Sources
  BY <1>1 DEF States
<1>3. Die(c) \/ (Become(c, state) /\ UNCHANGED db /\ draft' \in {db, draft, View(c)})
  BY DEF Look
<1> HIDE DEF state
<1> QED
  BY <1>2, <1>3, NothingCommitted, DieOrderly

LEMMA StoreOrderly ==
    ASSUME TablesOK, ImportersOK, NEW c \in Clients, Store(c)
    PROVE  Orderly
<1>1. CASE Die(c)
  BY <1>1, DieOrderly
<1>2. CASE Commit(NewProgram(c, client[c].name, client[c].source)) /\ Become(c, Idle)
  <2>1. client[c].name \in Names /\ client[c].source \in Sources
    BY DEF ImportersOK, Store
  <2>2. /\ TablesOK' /\ Grow
        /\ DOMAIN db' = 1..(Len(db) + 1) /\ DOMAIN db = 1..Len(db) /\ Len(db) \in Nat
        /\ \A i \in DOMAIN db : Padded(db[i].rows, db'[i].rows)
    BY <1>2, <2>1, CommitProgram
  <2>3. \A i \in DOMAIN db : i \in DOMAIN db'
    BY <2>2
  <2>4. Idle.op = "idle" /\ Idle \in States
    BY IdleStates DEF Idle
  <2> QED
    BY <1>2, <2>2, <2>3, <2>4, OthersGoOn DEF Orderly
<1> QED
  BY <1>1, <1>2 DEF Store

LEMMA ClientStep ==
    ASSUME TablesOK, ImportersOK, NEW c \in Clients,
           \/ \E n \in Names, s \in Sources : Import(c, n, s) \/ Generate(c, n, s)
           \/ AddNext(c) \/ End(c) \/ Look(c) \/ Store(c)
    PROVE  Orderly /\ UNCHANGED <<walker, past>>
<1>1. Orderly
  BY ImportOrderly, GenerateOrderly, AddNextOrderly, EndOrderly, LookOrderly, StoreOrderly
<1>2. \A n \in Names, s \in Sources : Import(c, n, s) \/ Generate(c, n, s) => UNCHANGED <<walker, past>>
  BY Zenon DEF Import, Generate
<1>3. AddNext(c) \/ End(c) \/ Look(c) \/ Store(c) => UNCHANGED <<walker, past>>
  BY Zenon DEF AddNext, End, Look, Store
<1> QED
  BY <1>1, <1>2, <1>3

LEMMA DoneStep ==
    ASSUME TablesOK, ImportersOK, Recorded, NEW c \in Clients, ImportDone(c)
    PROVE  Orderly /\ UNCHANGED <<walker, past.executed, past.reported>>
<1>1. Become(c, Idle) /\ UNCHANGED db /\ draft' \in {db, draft, View(c)}
  BY DEF ImportDone
<1> QED
  BY <1>1, IdleOrderly DEF ImportDone, Recorded

LEMMA UnsupportedStep ==
    ASSUME TablesOK, ImportersOK, Recorded, NEW c \in Clients, NEW id \in DOMAIN db,
           NEW pc \in 0..MaxPc, AddUnsupported(c, id, pc)
    PROVE  Orderly /\ UNCHANGED <<walker, past.executed, past.reported>>
<1>1. Orderly
  BY AddUnsupportedOrderly
<1> QED
  BY <1>1 DEF AddUnsupported, Recorded

-----------------------------------------------------------------------------
\* While its program grows, what an execution may come to stays so; and while it
\* grows by nothing that can be executed, what an execution does not come to, too.
LEMMA GrownEncloses ==
    ASSUME NEW rows \in Rows, NEW more \in Rows, Grown(rows, more), NEW S, Encloses(more, S)
    PROVE  Encloses(rows, S)
<1>1. \A pc \in DOMAIN rows : Ways(rows, pc) \subseteq Ways(more, pc)
  BY WaysStay
<1> QED
  BY <1>1 DEF Encloses, Grown

LEMMA PaddedEncloses ==
    ASSUME NEW rows, NEW more, Padded(rows, more), NEW S, Encloses(rows, S)
    PROVE  Encloses(more, S)
<1>1. Unsupported.kind = "unsupported" /\ \A label : Unsupported # Stmt("label", label)
  BY DEF Unsupported, Stmt
<1>2. \A label : Labelled(more, label) = Labelled(rows, label)
  BY <1>1 DEF Labelled, Padded
<1>3. \A pc \in DOMAIN rows : Ways(more, pc) = Ways(rows, pc)
  BY <1>2 DEF Ways, Jump, LabelPc, Padded
<1>4. \A pc \in DOMAIN more \ DOMAIN rows : Ways(more, pc) = {}
  BY <1>1 DEF Ways, Padded
<1> QED
  BY <1>3, <1>4 DEF Encloses

LEMMA ReachableStays ==
    ASSUME TablesOK, TablesOK', Grow, NEW id, NEW pc, Reachable(id, pc)
    PROVE  Reachable(id, pc)'
<1>1. id \in DOMAIN db /\ id \in DOMAIN db' /\ Grown(db[id].rows, db'[id].rows)
  BY DEF Reachable, Grow
<1>2. db[id].rows \in Rows /\ db'[id].rows \in Rows
  <2>1. db[id] \in Tables /\ db'[id] \in Tables
    BY <1>1 DEF TablesOK
  <2> QED
    BY <2>1 DEF Tables
<1>3. \A S : Encloses(db'[id].rows, S) => Encloses(db[id].rows, S)
  BY <1>1, <1>2, GrownEncloses
<1> QED
  BY <1>1, <1>3 DEF Reachable

LEMMA DeadStays ==
    ASSUME Settled, NEW id, NEW pc, Dead(id, pc)
    PROVE  Dead(id, pc)'
<1>1. ~ImportGoesOn(id)' /\ id \in DOMAIN db' /\ Padded(db[id].rows, db'[id].rows)
  BY DEF Settled, Dead
<1>2. PICK S \in SUBSET Nat : Encloses(db[id].rows, S) /\ pc \notin S
  BY DEF Dead
<1>3. Encloses(db'[id].rows, S)
  BY <1>1, <1>2, PaddedEncloses
<1> QED
  BY <1>1, <1>2, <1>3 DEF Dead

LEMMA HistoryStays ==
    ASSUME TablesOK, WalkerOK, ExecutedOK, ReportedOK, Orderly,
           UNCHANGED <<walker, past.executed, past.reported>>
    PROVE  WalkerOK' /\ ExecutedOK' /\ ReportedOK'
<1>1. \A id, pc : Reachable(id, pc) => Reachable(id, pc)'
  BY ReachableStays DEF Orderly
<1>2. \A id, pc : Dead(id, pc) => Dead(id, pc)'
  BY DeadStays DEF Orderly
<1>3. WalkerOK'
  BY <1>1 DEF WalkerOK
<1>4. ExecutedOK'
  BY <1>1 DEF ExecutedOK
<1>5. ReportedOK'
  BY <1>2 DEF ReportedOK
<1> QED
  BY <1>3, <1>4, <1>5

\* Executions.
LEMMA ExecuteStep ==
    ASSUME TablesOK, NEW id \in DOMAIN db, Execute(id)
    PROVE  WalkerOK' /\ UNCHANGED <<db, draft, client, past>>
<1>1. db \in Seq(Tables) /\ id \in Nat
  BY DEF TablesOK
<1>2. walker' = [id |-> id, pc |-> 0] /\ UNCHANGED <<db, draft, client, past>>
  BY DEF Execute
<1>3. Reachable(id, 0)'
  BY <1>1, <1>2 DEF Reachable, Encloses
<1> QED
  BY <1>1, <1>2, <1>3 DEF WalkerOK

LEMMA WalkStep ==
    ASSUME WalkerOK, TablesOK, Recorded, ExecutedOK, Step
    PROVE  /\ WalkerOK' /\ ExecutedOK'
           /\ UNCHANGED <<db, draft, client, past.reported>>
<1> DEFINE rows == db[walker.id].rows
           now == {<<walker.id, pc>> : pc \in {walker.pc} \cap DOMAIN rows}
<1>0. /\ walker.id # 0 /\ UNCHANGED <<db, draft, client>>
      /\ past' = [past EXCEPT !.executed = @ \cup now]
  BY Zenon DEF Step
<1>1. /\ Reachable(walker.id, walker.pc)
      /\ walker \in [id : Nat, pc : Nat] /\ walker.id \in Nat /\ walker.pc \in Nat
      /\ walker.id \in DOMAIN db
  BY <1>0 DEF WalkerOK, Reachable
<1>2. rows \in Rows
  <2>1. db[walker.id] \in Tables
    BY <1>1 DEF TablesOK
  <2> QED
    BY <2>1 DEF Tables
<1>3. \A id, pc : Reachable(id, pc)' <=> Reachable(id, pc)
  BY <1>0 DEF Reachable
<1>4. past'.executed = past.executed \cup now /\ past'.reported = past.reported
  BY <1>0 DEF Recorded
<1>5. now \subseteq {<<walker.id, walker.pc>>}
  OBVIOUS
<1> HIDE DEF now
<1>6. ExecutedOK'
  <2>1. past'.executed \subseteq Nat \X Nat
    BY <1>1, <1>4, <1>5 DEF ExecutedOK
  <2>2. ASSUME NEW id \in Nat, NEW pc \in Nat, <<id, pc>> \in past'.executed
        PROVE  Reachable(id, pc)
    <3>1. CASE <<id, pc>> \in past.executed
      BY <3>1 DEF ExecutedOK
    <3>2. CASE <<id, pc>> = <<walker.id, walker.pc>>
      BY <1>1, <3>2
    <3> QED
      BY <1>4, <1>5, <2>2, <3>1, <3>2
  <2> QED
    BY <1>3, <2>1, <2>2 DEF ExecutedOK
<1> HIDE DEF rows
<1>7. ASSUME walker' = Halted PROVE WalkerOK'
  <2>1. walker'.id = 0 /\ walker' \in [id : Nat, pc : Nat]
    BY <1>7 DEF Halted
  <2> QED
    BY <2>1 DEF WalkerOK
<1>8. ASSUME NEW pc, walker.pc \in DOMAIN rows, pc \in Ways(rows, walker.pc),
             walker' = [walker EXCEPT !.pc = pc]
      PROVE  WalkerOK'
  <2>1. pc \in Nat
    <3>1. Jump(rows, walker.pc) \subseteq Nat
      <4>1. Labelled(rows, rows[walker.pc].label) \in SUBSET Nat
        BY <1>2, RowsTyped DEF Labelled
      <4> QED
        BY <4>1, MinLeast DEF Jump, LabelPc
    <3> QED
      BY <1>1, <1>8, <3>1 DEF Ways
  <2>2. walker' = [id |-> walker.id, pc |-> pc]
    BY <1>1, <1>8
  <2>3. \A S \in SUBSET Nat : Encloses(rows, S) => pc \in S
    BY <1>1, <1>8 DEF Reachable, Encloses, rows
  <2>4. Reachable(walker.id, pc)
    BY <1>1, <2>1, <2>3 DEF Reachable, rows
  <2>5. walker' \in [id : Nat, pc : Nat] /\ walker'.id = walker.id /\ walker'.pc = pc
    BY <1>1, <2>1, <2>2
  <2> QED
    BY <1>0, <2>4, <2>5 DEF WalkerOK, Reachable
<1>9. \/ walker' = Halted
      \/ /\ walker.pc \in DOMAIN rows
         /\ \E pc \in Ways(rows, walker.pc) : walker' = [walker EXCEPT !.pc = pc]
  BY Zenon DEF Step, Ways, rows
<1> QED
  BY <1>0, <1>4, <1>6, <1>7, <1>8, <1>9, Zenon

-----------------------------------------------------------------------------
\* What find_unreachable_pcs reaches, and any pc at which there is no statement,
\* is not left by an execution.
LEMMA ReachedEncloses ==
    ASSUME NEW rows \in Rows, 0 \in DOMAIN rows
    PROVE  Encloses(rows, (Reached(rows) \cap Nat) \cup (Nat \ DOMAIN rows))
<1>1. DOMAIN rows \in SUBSET Nat /\ IsFiniteSet(DOMAIN rows)
  BY RowsTyped
<1>2. 0 \in Reached(rows) /\ IsClosed(rows, Reached(rows))
  BY <1>1, ReachedCloses
<1>3. \A pc \in DOMAIN rows : Ways(rows, pc) \subseteq Edges(rows, pc) \cup (Nat \ DOMAIN rows)
  BY <1>1 DEF Ways, Edges
<1> QED
  BY <1>1, <1>2, <1>3, EdgesInside DEF Encloses, IsClosed

LEMMA UnreachableOutside ==
    ASSUME NEW rows \in Rows, NEW pc \in UnreachablePcs(rows)
    PROVE  pc \in Nat /\ \E S \in SUBSET Nat : Encloses(rows, S) /\ pc \notin S
<1>1. pc \in DOMAIN rows /\ pc \notin Reached(rows) /\ DOMAIN rows \in SUBSET Nat
  BY RowsTyped DEF UnreachablePcs
<1>2. CASE 0 \in DOMAIN rows
  <2> DEFINE S == (Reached(rows) \cap Nat) \cup (Nat \ DOMAIN rows)
  <2>1. Encloses(rows, S) /\ S \in SUBSET Nat
    BY <1>2, ReachedEncloses
  <2>2. pc \notin S
    BY <1>1
  <2> QED
    BY <1>1, <2>1, <2>2
<1>3. CASE 0 \notin DOMAIN rows
  <2>1. Encloses(rows, {0}) /\ pc \notin {0}
    BY <1>1, <1>3 DEF Encloses
  <2> QED
    BY <1>1, <2>1
<1> QED
  BY <1>2, <1>3

\* A report is about pcs that no execution comes to.
LEMMA ReportStep ==
    ASSUME TablesOK, Recorded, ReportedOK, NEW c \in Clients, NEW id \in DOMAIN db, Report(c, id)
    PROVE  ReportedOK' /\ UNCHANGED <<db, draft, client, walker, past.executed>>
<1> DEFINE rows == View(c)[id].rows
           dead == UnreachablePcs(rows)
<1>1. /\ ~ImportGoesOn(id) /\ UNCHANGED <<db, draft, client, walker>>
      /\ past' = [past EXCEPT !.reported = @ \cup {<<id, pc>> : pc \in dead}]
  BY Zenon DEF Report
<1>2. past'.reported = past.reported \cup {<<id, pc>> : pc \in dead} /\ past'.executed = past.executed
  BY <1>1 DEF Recorded
<1>3. /\ rows \in Rows /\ db[id].rows \in Rows /\ Grown(db[id].rows, rows)
      /\ id \in Nat
  <2>1. OpenOn(View(c)) /\ db \in Seq(Tables)
    BY Views DEF TablesOK
  <2>2. View(c)[id] \in Tables /\ db[id] \in Tables /\ id \in Nat
    BY <2>1 DEF OpenOn
  <2>3. Padded(db[id].rows, rows)
    BY <2>1 DEF OpenOn
  <2> QED
    BY <2>2, <2>3, PaddedGrown DEF Tables
<1> HIDE DEF rows
<1>4. ASSUME NEW pc \in dead PROVE pc \in Nat /\ Dead(id, pc)
  <2>1. PICK S \in SUBSET Nat : Encloses(rows, S) /\ pc \notin S
    BY <1>3, UnreachableOutside
  <2>2. Encloses(db[id].rows, S)
    BY <1>3, <2>1, GrownEncloses
  <2>3. pc \in Nat
    BY <1>3, UnreachableOutside
  <2> QED
    BY <1>1, <2>1, <2>2, <2>3 DEF Dead
<1> HIDE DEF dead
<1>5. \A i, pc : Dead(i, pc)' <=> Dead(i, pc)
  BY <1>1 DEF Dead, ImportGoesOn
<1>6. past'.reported \subseteq Nat \X Nat
  BY <1>2, <1>3, <1>4 DEF ReportedOK
<1>7. ASSUME NEW i \in Nat, NEW pc \in Nat, <<i, pc>> \in past'.reported
      PROVE  Dead(i, pc)
  <2>1. CASE <<i, pc>> \in past.reported
    BY <2>1 DEF ReportedOK
  <2>2. CASE <<i, pc>> \in {<<id, q>> : q \in dead}
    BY <1>4, <2>2
  <2> QED
    BY <1>2, <1>7, <2>1, <2>2
<1>8. ReportedOK'
  BY <1>5, <1>6, <1>7 DEF ReportedOK
<1> QED
  BY <1>1, <1>2, <1>8

LEMMA DeadIsNotExecuted ==
    ASSUME TablesOK, ExecutedOK, ReportedOK
    PROVE  DeadCodeIsDead
<1>1. ASSUME NEW x \in past.reported, x \in past.executed PROVE FALSE
  <2>1. PICK id \in Nat, pc \in Nat : x = <<id, pc>>
    BY DEF ReportedOK
  <2>2. Dead(id, pc) /\ Reachable(id, pc)
    BY <1>1, <2>1 DEF ReportedOK, ExecutedOK
  <2> QED
    BY <2>2 DEF Dead, Reachable
<1>2. ASSUME NEW id \in DOMAIN db, NEW pc \in UnreachablePcs(db[id].rows),
             <<id, pc>> \in past.executed
      PROVE  FALSE
  <2>1. db[id].rows \in Rows /\ id \in Nat
    <3>1. db[id] \in Tables /\ id \in 1..Len(db)
      BY DEF TablesOK
    <3> QED
      BY <3>1 DEF Tables
  <2>2. pc \in Nat /\ \E S \in SUBSET Nat : Encloses(db[id].rows, S) /\ pc \notin S
    BY <2>1, UnreachableOutside
  <2>3. Reachable(id, pc)
    BY <1>2, <2>1, <2>2 DEF ExecutedOK
  <2> QED
    BY <2>2, <2>3 DEF Reachable
<1> QED
  BY <1>1, <1>2 DEF DeadCodeIsDead

\* What find_unreachable_pcs reports of a program that nobody is importing is executed
\* by no execution of step, before or after, whenever it began and however far the
\* program was imported; and at no time would a report list what has been executed.
THEOREM RepositoryDeadCodeIsDead == Spec => []DeadCodeIsDead
<1> DEFINE Inv == TablesOK /\ ImportersOK /\ Recorded /\ WalkerOK /\ ExecutedOK /\ ReportedOK
<1>1. Init => Inv
  <2> SUFFICES ASSUME Init PROVE Inv
    OBVIOUS
  <2>1. TablesOK
    BY DEF Init, TablesOK, OpenOn
  <2>2. ImportersOK
    BY IdleStates DEF Init, ImportersOK, Importing, Idle
  <2>3. Recorded /\ WalkerOK /\ ExecutedOK /\ ReportedOK
    BY DEF Init, Recorded, WalkerOK, Halted, ExecutedOK, ReportedOK
  <2> QED
    BY <2>1, <2>2, <2>3
<1>2. Inv /\ [Next]_vars => Inv'
  <2> SUFFICES ASSUME Inv, [Next]_vars PROVE Inv'
    OBVIOUS
  <2>1. CASE Orderly /\ UNCHANGED <<walker, past.executed, past.reported>> /\ Recorded'
    BY <2>1, HistoryStays DEF Orderly
  <2>2. CASE UNCHANGED <<db, draft, client>> /\ Recorded' /\ WalkerOK' /\ ExecutedOK' /\ ReportedOK'
    BY <2>2 DEF TablesOK, OpenOn, ImportersOK, Importing
  <2>3. CASE Next
    <3>1. Recorded'
      BY <2>3, Remembered
    <3>2. ASSUME NEW c \in Clients,
                 \/ \E n \in Names, s \in Sources : Import(c, n, s) \/ Generate(c, n, s)
                 \/ AddNext(c) \/ End(c) \/ Look(c) \/ Store(c)
          PROVE  Inv'
      <4>1. Orderly /\ UNCHANGED <<walker, past>>
        BY <3>2, ClientStep
      <4> QED
        BY <2>1, <3>1, <4>1
    <3>3. ASSUME NEW c \in Clients, ImportDone(c) PROVE Inv'
      BY <2>1, <3>1, <3>3, DoneStep
    <3>4. ASSUME NEW c \in Clients, NEW id \in DOMAIN db, NEW pc \in 0..MaxPc, AddUnsupported(c, id, pc)
          PROVE  Inv'
      BY <2>1, <3>1, <3>4, UnsupportedStep
    <3>5. ASSUME NEW c \in Clients, NEW id \in DOMAIN db, Report(c, id) PROVE Inv'
      <4>1. ReportedOK' /\ UNCHANGED <<db, draft, client, walker, past.executed>>
        BY <3>5, ReportStep
      <4>2. WalkerOK' /\ ExecutedOK'
        BY <4>1 DEF WalkerOK, ExecutedOK, Reachable
      <4> QED
        BY <2>2, <3>1, <4>1, <4>2
    <3>6. ASSUME NEW id \in DOMAIN db, Execute(id) PROVE Inv'
      <4>1. WalkerOK' /\ UNCHANGED <<db, draft, client, past>>
        BY <3>6, ExecuteStep
      <4>2. ExecutedOK' /\ ReportedOK'
        BY <4>1 DEF ExecutedOK, ReportedOK, Reachable, Dead, ImportGoesOn
      <4> QED
        BY <2>2, <3>1, <4>1, <4>2
    <3>7. ASSUME Step PROVE Inv'
      <4>1. WalkerOK' /\ ExecutedOK' /\ UNCHANGED <<db, draft, client, past.reported>>
        BY <3>7, WalkStep
      <4>2. ReportedOK'
        BY <4>1 DEF ReportedOK, Dead, ImportGoesOn
      <4> QED
        BY <2>2, <3>1, <4>1, <4>2
    <3> QED
      BY <2>3, <3>2, <3>3, <3>4, <3>5, <3>6, <3>7, Zenon DEF Next
  <2>4. CASE UNCHANGED vars
    <3>1. UNCHANGED <<db, draft, client, walker, past>>
      BY <2>4 DEF vars
    <3>2. WalkerOK' /\ ExecutedOK' /\ ReportedOK' /\ Recorded'
      BY <3>1 DEF WalkerOK, ExecutedOK, ReportedOK, Reachable, Dead, ImportGoesOn, Recorded
    <3> QED
      BY <2>2, <3>1, <3>2
  <2> QED
    BY <2>3, <2>4
<1>3. Inv => DeadCodeIsDead
  BY DeadIsNotExecuted
<1> QED
  BY <1>1, <1>2, <1>3, PTL DEF Spec
=============================================================================
