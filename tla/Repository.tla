------------------------------ MODULE Repository ----------------------------
(***************************************************************************)
(* The program repository: an SQLite database that several processes       *)
(* import programs into, generate programs into, and execute programs      *)
(* from.                                                                   *)
(*                                                                         *)
(* An import commits the program first and then statement after statement, *)
(* so a process that ends in between leaves a part of the program.  SQLite *)
(* lets one connection write at a time: a statement that fails leaves its  *)
(* transaction open, and with it the other writers locked out, until the   *)
(* connection commits something else or is closed.                         *)
(*                                                                         *)
(* Definitions named Bug... are mistakes one could make in the operation   *)
(* below them; the specification does not use them.                        *)
(***************************************************************************)
EXTENDS Naturals, Sequences, FiniteSets, FiniteSetsExt

CONSTANTS Clients,   \* the connections, one for each process
          Names,     \* names of programs
          Sources,   \* the programs there are, as sequences of statements
          MaxPc,     \* bound: the pcs that statements of other kinds are added at
          Nobody

Stmts == UNION {{source[i] : i \in DOMAIN source} : source \in Sources}

ASSUME RepositoryAssumption == /\ Nobody \notin Clients /\ MaxPc \in Nat
                               /\ Sources \subseteq Seq(Stmts)

\* A statement is "plain" (print, set), a "label", a "goto" or an "if_goto"; the
\* last three with the label.
Stmt(kind, label) == [kind |-> kind, label |-> label]
Unsupported == Stmt("unsupported", Nobody)

VARIABLES
  db,       \* the programs that are committed, in the order of their ids: name,
            \* source and, for each pc, the statement
  draft,    \* the database as the connection with an open transaction sees it
  lock,     \* that connection
  client,   \* what each process is doing
  walker,   \* an execution: the program and its pc
  past      \* history: programs imported to the end; whether a statement of an
            \* unsupported kind was added; the <<program, pc>>s that executions have
            \* executed, and that find_unreachable_pcs has reported

vars == <<db, draft, lock, client, walker, past>>

Idle == [op |-> "idle", name |-> Nobody, source |-> <<>>, id |-> 0, pc |-> 0]
Halted == [id |-> 0, pc |-> 0]

Init == /\ db = <<>> /\ draft = <<>> /\ lock = Nobody
        /\ client = [c \in Clients |-> Idle]
        /\ walker = Halted
        /\ past = [finished |-> {}, unsupported |-> FALSE, executed |-> {}, reported |-> {}]

-----------------------------------------------------------------------------
\* SQLite, as the adapter uses it.
View(c) == IF lock = c THEN draft ELSE db
CanWrite(c) == lock \in {Nobody, c}
Commit(new) == db' = new /\ draft' = new /\ lock' = Nobody
LeaveOpen(c, new) == draft' = new /\ lock' = c /\ UNCHANGED db
Close(c) == /\ draft' = IF lock = c THEN db ELSE draft
            /\ lock' = IF lock = c THEN Nobody ELSE lock
            /\ UNCHANGED db

\* The constraints on names and source signatures.
Taken(c, name, source) ==
    \E i \in DOMAIN View(c) : View(c)[i].name = name \/ View(c)[i].source = source
NewProgram(c, name, source) ==
    Append(View(c), [name |-> name, source |-> source, rows |-> <<>>])

\* The table with one more statement; rows are numbered from 0.
Extended(rows, pc, stmt) == [i \in DOMAIN rows \cup {pc} |-> IF i = pc THEN stmt ELSE rows[i]]
WithStatement(c, id, pc, stmt) == [View(c) EXCEPT ![id].rows = Extended(@, pc, stmt)]

Become(c, state) == client' = [client EXCEPT ![c] = state]

-----------------------------------------------------------------------------
\* source_to_db: register_program ...
Import(c, name, source) ==
    /\ client[c] = Idle
    /\ CanWrite(c)
    /\ \/ /\ Taken(c, name, source)
          /\ LeaveOpen(c, View(c))
          /\ UNCHANGED client
       \/ /\ ~Taken(c, name, source)
          /\ Commit(NewProgram(c, name, source))
          /\ Become(c, [op |-> "import", name |-> name, source |-> source,
                        id |-> Len(View(c)) + 1, pc |-> 0])
    /\ UNCHANGED <<walker, past>>

\* A statement that cannot be written is left out.
BugAddNext(c) ==
    LET at == client[c]
    IN  /\ at.op = "import" /\ at.pc < Len(at.source)
        /\ Become(c, [at EXCEPT !.pc = @ + 1])
        /\ \/ ~CanWrite(c) /\ UNCHANGED <<db, draft, lock>>
           \/ CanWrite(c) /\ Commit(WithStatement(c, at.id, at.pc, at.source[at.pc + 1]))
        /\ UNCHANGED <<walker, past>>

\* ... and add_statement for one statement after the other.  When another
\* connection has the lock for too long, or the pc is taken, the import fails
\* where it is.
AddNext(c) ==
    LET at == client[c]
        taken == at.pc \in DOMAIN View(c)[at.id].rows
    IN  /\ at.op = "import" /\ at.pc < Len(at.source)
        /\ \/ /\ ~CanWrite(c)
              /\ Become(c, Idle)
              /\ UNCHANGED <<db, draft, lock>>
           \/ /\ CanWrite(c) /\ taken
              /\ Become(c, Idle)
              /\ LeaveOpen(c, View(c))
           \/ /\ CanWrite(c) /\ ~taken
              /\ Become(c, [at EXCEPT !.pc = @ + 1])
              /\ Commit(WithStatement(c, at.id, at.pc, at.source[at.pc + 1]))
        /\ UNCHANGED <<walker, past>>

ImportDone(c) == /\ client[c].op = "import" /\ client[c].pc = Len(client[c].source)
                 /\ past' = [past EXCEPT !.finished = @ \cup {client[c].id}]
                 /\ Become(c, Idle)
                 /\ UNCHANGED <<db, draft, lock, walker>>

\* add_statement with an unsupported kind: its row is in the transaction that the
\* exception leaves open.
AddUnsupported(c, id, pc) ==
    /\ client[c] = Idle /\ CanWrite(c)
    /\ pc \notin DOMAIN View(c)[id].rows
    /\ LeaveOpen(c, WithStatement(c, id, pc, Unsupported))
    /\ past' = [past EXCEPT !.unsupported = TRUE]
    /\ UNCHANGED <<client, walker>>

\* The process ends, whatever it is doing, and another may start in its place.
End(c) == /\ client[c] # Idle \/ lock = c
          /\ Become(c, Idle)
          /\ Close(c)
          /\ UNCHANGED <<walker, past>>

-----------------------------------------------------------------------------
\* create_program of the daemon writes a valid program into a file, which is not
\* modelled,
Generate(c, name, source) ==
    /\ client[c] = Idle
    /\ Become(c, [Idle EXCEPT !.op = "look", !.name = name, !.source = source])
    /\ UNCHANGED <<db, draft, lock, walker, past>>

Die(c) == /\ Become(c, [Idle EXCEPT !.op = "dead"])
          /\ Close(c)

\* dies when the repository has an equivalent one,
Look(c) ==
    LET known == \E i \in DOMAIN View(c) : View(c)[i].source = client[c].source
    IN  /\ client[c].op = "look"
        /\ \/ known /\ Die(c)
           \/ /\ ~known
              /\ Become(c, [client[c] EXCEPT !.op = "store"])
              /\ UNCHANGED <<db, draft, lock>>
        /\ UNCHANGED <<walker, past>>

\* and dies when the insertion fails, because of another writer or of its lock.
Store(c) ==
    LET at == client[c]
        good == CanWrite(c) /\ ~Taken(c, at.name, at.source)
    IN  /\ at.op = "store"
        /\ \/ ~good /\ Die(c)
           \/ /\ good
              /\ Commit(NewProgram(c, at.name, at.source))
              /\ Become(c, Idle)
        /\ UNCHANGED <<walker, past>>

-----------------------------------------------------------------------------
\* The pcs of a label: both users of _label_to_pc get the same one of them.
Labelled(rows, label) == {i \in DOMAIN rows : rows[i] = Stmt("label", label)}
LabelPc(rows, label) == Min(Labelled(rows, label))

\* Where a statement may go; a goto whose label is not there goes nowhere.
Jump(rows, pc) == IF Labelled(rows, rows[pc].label) = {} THEN {}
                  ELSE {LabelPc(rows, rows[pc].label)}

\* step: one statement of the execution, with any truth of a condition; an unknown
\* label ends it with an error.
Step == LET rows == db[walker.id].rows
            go(pc) == walker' = [walker EXCEPT !.pc = pc]
            kind == rows[walker.pc].kind
        IN  /\ walker.id # 0
            /\ past' = [past EXCEPT !.executed =
                          @ \cup {<<walker.id, pc>> : pc \in {walker.pc} \cap DOMAIN rows}]
            /\ IF walker.pc \notin DOMAIN rows THEN walker' = Halted
               ELSE \/ kind # "goto" /\ kind # "unsupported" /\ go(walker.pc + 1)
                    \/ kind \in {"goto", "if_goto"} /\ \E pc \in Jump(rows, walker.pc) : go(pc)
                    \/ /\ \/ kind = "unsupported"
                          \/ kind \in {"goto", "if_goto"} /\ Jump(rows, walker.pc) = {}
                       /\ walker' = Halted
            /\ UNCHANGED <<db, draft, lock, client>>

Execute(id) == /\ walker = Halted
               /\ walker' = [id |-> id, pc |-> 0]
               /\ UNCHANGED <<db, draft, lock, client, past>>

\* The fall through of a condition is forgotten.
BugEdges(rows, pc) == IF rows[pc].kind \in {"goto", "if_goto"} THEN Jump(rows, pc)
                      ELSE {pc + 1} \cap DOMAIN rows

\* find_unreachable_pcs: the edges of the graph, and what entry_pc does not reach.
Edges(rows, pc) ==
    (IF rows[pc].kind \in {"goto", "if_goto"} THEN Jump(rows, pc) ELSE {})
      \cup (IF rows[pc].kind = "goto" THEN {} ELSE {pc + 1} \cap DOMAIN rows)
Reached(rows) ==
    LET grow[n \in 0..Cardinality(DOMAIN rows)] ==
            IF n = 0 THEN {0} \cap DOMAIN rows
            ELSE grow[n - 1] \cup UNION {Edges(rows, pc) : pc \in grow[n - 1]}
    IN  grow[Cardinality(DOMAIN rows)]
UnreachablePcs(rows) == DOMAIN rows \ Reached(rows)

\* It raises for any goto to an unknown label.
Analysable(rows) == \A pc \in DOMAIN rows : rows[pc].kind \in {"goto", "if_goto"}
                                              => Jump(rows, pc) # {}

\* A report of a program while it is imported says nothing of the statements that
\* are still to come, and what it tells of the others may change with them; the
\* history keeps the reports of programs that nobody is importing.
ImportGoesOn(id) == \E c \in Clients : client[c].op = "import" /\ client[c].id = id
Report(c, id) ==
    LET rows == View(c)[id].rows
    IN  /\ client[c] = Idle
        /\ Analysable(rows)
        /\ ~ImportGoesOn(id)
        /\ past' = [past EXCEPT !.reported = @ \cup {<<id, pc>> : pc \in UnreachablePcs(rows)}]
        /\ UNCHANGED <<db, draft, lock, client, walker>>

-----------------------------------------------------------------------------
Next == \/ \E c \in Clients, n \in Names, s \in Sources : Import(c, n, s) \/ Generate(c, n, s)
        \/ \E c \in Clients : AddNext(c) \/ ImportDone(c) \/ End(c) \/ Look(c) \/ Store(c)
        \/ \E c \in Clients, id \in DOMAIN db, pc \in 0..MaxPc : AddUnsupported(c, id, pc)
        \/ \E c \in Clients, id \in DOMAIN db : Report(c, id)
        \/ \E id \in DOMAIN db : Execute(id)
        \/ Step

Spec == Init /\ [][Next]_vars

-----------------------------------------------------------------------------
Prefix(rows, source) ==
    /\ DOMAIN rows = 0..(Cardinality(DOMAIN rows) - 1)
    /\ Cardinality(DOMAIN rows) <= Len(source)
    /\ \A pc \in DOMAIN rows : rows[pc] = source[pc + 1]

\* Whatever processes end or are locked out in the middle, what is stored of a
\* program is a beginning of its source, and all of it once source_to_db has
\* returned, so that db_to_source gives the source back; unless a statement of an
\* unsupported kind has been added, which a later commit stores although
\* add_statement refused it.  No program is stored twice, by its name or source.
StoredIsABeginning ==
    ~past.unsupported =>
        \A i \in DOMAIN db :
            /\ Prefix(db[i].rows, db[i].source)
            /\ i \in past.finished => Cardinality(DOMAIN db[i].rows) = Len(db[i].source)
            /\ \A j \in DOMAIN db : db[j].name = db[i].name \/ db[j].source = db[i].source
                                      => i = j

\* What find_unreachable_pcs reports of a program that nobody is importing is never
\* executed, before or after, whatever has become of its import, and not even by an
\* execution that began in the middle of it.  And what a report lists at any time,
\* while the program is imported too, has not been executed so far.
DeadCodeIsDead ==
    /\ past.reported \cap past.executed = {}
    /\ \A id \in DOMAIN db : Analysable(db[id].rows)
          => \A pc \in UnreachablePcs(db[id].rows) : <<id, pc>> \notin past.executed

=============================================================================
