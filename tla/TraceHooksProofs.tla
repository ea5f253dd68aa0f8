-------------------------- MODULE TraceHooksProofs --------------------------
(***************************************************************************)
(* For any number of threads, processes and process numbers: a hook names  *)
(* the process it was called about, and hangs on the list lock only if     *)
(* tracing was on.  For names and buffers of any size and any set of       *)
(* flags: no trace buffer is overrun, and the flags are spelled in order.  *)
(***************************************************************************)
EXTENDS TraceHooks, FiniteSetTheorems, SequenceTheorems, WellFoundedInduction,
        TLAPS

\* A number belongs to one process at a time, from its birth until it is
\* reaped.
Unique ==
    \A p, q \in Procs :
        p # q /\ pid[p] = pid[q] /\ life[p] \in {"alive", "exiting"}
            => life[q] \in {"unborn", "gone"}

\* A piece still to collect is about the argument, or about a process that
\* has been born.
PieceOK(x, s) ==
    /\ x[1] = "proc" => x[2] = s
    /\ x[1] = "ident" /\ x[2] # Nobody => life[x[2]] # "unborn"

\* What a call still has to do fits the place where it is.
CallOK(t) ==
    /\ todo[t] \in Seq(Pieces)
    /\ \A k \in 1..Len(todo[t]) : PieceOK(todo[t][k], subject[t])
    /\ subject[t] # Nobody => life[subject[t]] = "alive"
    /\ pc[t] \in {"idle", "done"} => todo[t] = <<>>
    /\ pc[t] \in {"name", "rele"} <=> ref[t] # Nobody
    /\ pc[t] = "name" => todo[t] # <<>> /\ Head(todo[t]) = <<"ident", ref[t]>>

\* What is typed and need not be counted.
TypeInv ==
    /\ trace \in BOOLEAN
    /\ listLock \in Threads \cup {Nobody}
    /\ life \in [Procs -> {"unborn", "alive", "exiting", "gone"}]
    /\ pid \in [Procs -> Pids]
    /\ refs \in [Procs -> Int]
    /\ pc \in [Threads -> {"idle", "gate", "collect", "name", "rele", "done"}]
    /\ wanted \in [Threads -> BOOLEAN]
    /\ subject \in [Threads -> Procs \cup {Nobody}]
    /\ DOMAIN todo = Threads
    /\ ref \in [Threads -> Procs \cup {Nobody}]
    /\ DOMAIN out = Threads
    /\ seenOn \in [Threads -> BOOLEAN]

CallInv == \A t \in Threads : CallOK(t)

\* The references on a process are those the hooks hold.
Holders(p) == {t \in Threads : ref[t] = p}
RefInv == \A p \in Procs : refs[p] = Cardinality(Holders(p))

\* A process with a reference is not reaped.
HeldInv ==
    \A t \in Threads :
        ref[t] # Nobody => life[ref[t]] \in {"alive", "exiting"}

\* A name is only looked for in a call that saw tracing on.
SeenInv ==
    \A t \in Threads :
        /\ trace /\ pc[t] # "idle" => seenOn[t]
        /\ pc[t] \in {"collect", "name", "rele"} => seenOn[t]

-----------------------------------------------------------------------------
\* What the two parts of a piece are.
LEMMA PieceKinds ==
    ASSUME NEW x \in Pieces
    PROVE  /\ x[1] = "ident" => x[2] \in Procs \cup {Nobody}
           /\ x[1] = "proc" => x[2] \in Procs
           /\ x = <<x[1], x[2]>>
  BY DEF Pieces

\* Every hook is one way to enter: its subject is alive, and its pieces are
\* about it or about processes that have been born.
LEMMA CallEnters ==
    ASSUME NEW t \in Threads, Call(t), TypeInv
    PROVE  \E filter \in BOOLEAN, proc \in Procs \cup {Nobody},
              pieces \in Seq(Pieces), held \in BOOLEAN :
                /\ Enter(t, filter, proc, pieces, held)
                /\ proc # Nobody => life[proc] = "alive"
                /\ \A k \in 1..Len(pieces) : PieceOK(pieces[k], proc)
<1> DEFINE Entered(filter, proc, pieces, held) ==
        /\ Enter(t, filter, proc, pieces, held)
        /\ proc # Nobody => life[proc] = "alive"
        /\ \A k \in 1..Len(pieces) : PieceOK(pieces[k], proc)
<1> SUFFICES \E filter \in BOOLEAN, proc \in Procs \cup {Nobody},
                pieces \in Seq(Pieces), held \in BOOLEAN :
                    Entered(filter, proc, pieces, held)
  OBVIOUS
<1>0. Nobody \in Procs \cup {Nobody} /\ Nobody \notin Procs
  BY TraceAssumption
<1>1. ASSUME NEW filter \in BOOLEAN, Enter(t, filter, Nobody, <<>>, FALSE)
      PROVE  \E f \in BOOLEAN, proc \in Procs \cup {Nobody},
                pieces \in Seq(Pieces), held \in BOOLEAN :
                    Entered(f, proc, pieces, held)
  <2>1. <<>> \in Seq(Pieces) /\ Len(<<>>) = 0
    OBVIOUS
  <2>2. \A k \in 1..Len(<<>>) : PieceOK(<<>>[k], Nobody)
    BY <2>1
  <2>3. Entered(filter, Nobody, <<>>, FALSE)
    BY <1>1, <2>2, Zenon
  <2> HIDE DEF Entered
  <2> QED
    BY <1>0, <2>1, <2>3
<1>2. ASSUME NEW x \in Pieces, x[1] \notin {"proc", "ident"},
             Enter(t, TRUE, Nobody, <<x>>, FALSE)
      PROVE  \E f \in BOOLEAN, proc \in Procs \cup {Nobody},
                pieces \in Seq(Pieces), held \in BOOLEAN :
                    Entered(f, proc, pieces, held)
  <2>1. <<x>> \in Seq(Pieces) /\ Len(<<x>>) = 1 /\ <<x>>[1] = x
    OBVIOUS
  <2>2. \A k \in 1..Len(<<x>>) : PieceOK(<<x>>[k], Nobody)
    BY <1>2, <2>1 DEF PieceOK
  <2>3. Entered(TRUE, Nobody, <<x>>, FALSE)
    BY <1>2, <2>2, Zenon
  <2> HIDE DEF Entered
  <2> QED
    BY <1>0, <2>1, <2>3
<1>3. ASSUME NEW x \in Pieces, NEW y \in Pieces, NEW held \in BOOLEAN,
             NEW filter \in BOOLEAN, PieceOK(x, Nobody), PieceOK(y, Nobody),
             Enter(t, filter, Nobody, <<x, y>>, held)
      PROVE  \E f \in BOOLEAN, proc \in Procs \cup {Nobody},
                pieces \in Seq(Pieces), h \in BOOLEAN :
                    Entered(f, proc, pieces, h)
  <2>1. /\ <<x, y>> \in Seq(Pieces) /\ Len(<<x, y>>) = 2
        /\ <<x, y>>[1] = x /\ <<x, y>>[2] = y
    OBVIOUS
  <2>2. \A k \in 1..2 : PieceOK(<<x, y>>[k], Nobody)
    BY <1>3, <2>1
  <2>3. Entered(filter, Nobody, <<x, y>>, held)
    BY <1>3, <2>1, <2>2
  <2> HIDE DEF Entered
  <2> QED
    BY <1>0, <2>1, <2>3
<1>4. ASSUME NEW p \in Procs, life[p] = "alive", NEW held \in BOOLEAN,
             Enter(t, TRUE, p, << <<"proc", p>> >>, held)
      PROVE  \E f \in BOOLEAN, proc \in Procs \cup {Nobody},
                pieces \in Seq(Pieces), h \in BOOLEAN :
                    Entered(f, proc, pieces, h)
  <2>1. <<"proc", p>> \in Pieces
    BY DEF Pieces
  <2>2. /\ << <<"proc", p>> >> \in Seq(Pieces) /\ Len(<< <<"proc", p>> >>) = 1
        /\ << <<"proc", p>> >>[1] = <<"proc", p>>
    BY <2>1
  <2>3. PieceOK(<<"proc", p>>, p)
    BY DEF PieceOK
  <2>4. \A k \in 1..Len(<< <<"proc", p>> >>) :
            PieceOK(<< <<"proc", p>> >>[k], p)
    BY <2>2, <2>3
  <2>5. Entered(TRUE, p, << <<"proc", p>> >>, held)
    BY <1>4, <2>4, Zenon
  <2> HIDE DEF Entered
  <2> QED
    BY <2>2, <2>5
<1> HIDE DEF Entered
<1>5. CASE \/ vnode_check_open(t) \/ spawn_notify_exec_complete(t)
           \/ file_check_mmap(t) \/ proc_check_fork(t)
           \/ socket_check_create(t) \/ socket_check_listen(t)
           \/ socket_check_connect(t)
  BY <1>1, <1>5
     DEF vnode_check_open, spawn_notify_exec_complete, file_check_mmap,
         proc_check_fork, socket_check_create, socket_check_listen,
         socket_check_connect
<1>6. CASE vnode_check_create(t) \/ vnode_check_unlink(t)
  <2>1. PICK c \in Components :
            Enter(t, TRUE, Nobody, << <<"component", c>> >>, FALSE)
    BY <1>6 DEF vnode_check_create, vnode_check_unlink
  <2>2. <<"component", c>> \in Pieces
    BY DEF Pieces, Components
  <2> QED
    BY <1>2, <2>1, <2>2
<1>7. CASE vnode_check_rename(t)
  <2>1. PICK from, to \in Components :
            Enter(t, TRUE, Nobody,
                  << <<"component", from>>, <<"component", to>> >>, FALSE)
    BY <1>7 DEF vnode_check_rename
  <2>2. <<"component", from>> \in Pieces /\ <<"component", to>> \in Pieces
    BY DEF Pieces, Components
  <2>3. /\ PieceOK(<<"component", from>>, Nobody)
        /\ PieceOK(<<"component", to>>, Nobody)
    BY DEF PieceOK
  <2> QED
    BY <1>3, <2>1, <2>2, <2>3
<1>8. CASE spawn_check_exec(t)
  <2>1. PICK F \in SUBSET AllFlags :
            Enter(t, TRUE, Nobody, << <<"flags", F>> >>, FALSE)
    BY <1>8 DEF spawn_check_exec
  <2>2. <<"flags", F>> \in Pieces
    BY DEF Pieces
  <2> QED
    BY <1>2, <2>1, <2>2
<1>9. CASE \/ file_check_library_validation(t) \/ pty_notify_grant(t)
           \/ proc_notify_exit(t)
  BY <1>4, <1>9
     DEF file_check_library_validation, pty_notify_grant, proc_notify_exit
<1>10. CASE proc_check_signal(t)
  <2>1. PICK i \in Procs \cup {Nobody}, p \in Procs,
             traced \in BOOLEAN, held \in BOOLEAN :
            /\ i # Nobody => life[i] # "unborn"
            /\ life[p] # "unborn"
            /\ Enter(t, traced, Nobody, << <<"ident", i>>, <<"ident", p>> >>,
                     held)
    BY <1>10 DEF proc_check_signal
  <2>2. <<"ident", i>> \in Pieces /\ <<"ident", p>> \in Pieces
    BY DEF Pieces
  <2>3. PieceOK(<<"ident", i>>, Nobody) /\ PieceOK(<<"ident", p>>, Nobody)
    BY <2>1 DEF PieceOK
  <2> QED
    BY <1>3, <2>1, <2>2, <2>3
<1> QED
  BY <1>5, <1>6, <1>7, <1>8, <1>9, <1>10 DEF Call

\* proc_find() of the number of a process that has not been reaped finds this
\* process or, once it has begun to exit, none.
LEMMA FindsOwn ==
    ASSUME TypeInv, Unique, NEW p \in Procs,
           life[p] \in {"alive", "exiting"}
    PROVE  FindPid(pid[p]) = IF life[p] = "alive" THEN p ELSE Nobody
<1>1. ASSUME NEW q \in Procs, life[q] = "alive", pid[q] = pid[p]
      PROVE  q = p
  BY <1>1 DEF Unique
<1>2. CASE life[p] = "alive"
  <2>1. \E q \in Procs : life[q] = "alive" /\ pid[q] = pid[p]
    BY <1>2
  <2>2. (CHOOSE q \in Procs : life[q] = "alive" /\ pid[q] = pid[p]) = p
    BY <1>1, <2>1
  <2> QED
    BY <1>2, <2>1, <2>2 DEF FindPid
<1>3. CASE life[p] # "alive"
  BY <1>1, <1>3 DEF FindPid
<1> QED
  BY <1>2, <1>3

-----------------------------------------------------------------------------
\* The kernel's steps concern processes, all others leave them alone.
LEMMA ProcsAlone ==
    ASSUME WriteTrace \/ \E t \in Threads : Call(t) \/ Hook(t), TypeInv
    PROVE  life' = life /\ pid' = pid
<1>1. ASSUME NEW t \in Threads, Call(t)
      PROVE  life' = life /\ pid' = pid
  BY <1>1, CallEnters DEF Enter, procVars
<1>2. ASSUME NEW t \in Threads, Hook(t)
      PROVE  life' = life /\ pid' = pid
  BY <1>2
     DEF Hook, Gate, NameKernel, NameExited, FindIdent, NameIdent, Release,
         NameProc, CopyName, SpellFlags, LogDebug, Return, procVars
<1> QED
  BY <1>1, <1>2 DEF WriteTrace, procVars

\* Numbers stay unique.
LEMMA UniqueStep == TypeInv /\ Unique /\ [Next]_vars => Unique'
<1> SUFFICES ASSUME TypeInv, Unique, [Next]_vars
             PROVE  Unique'
  OBVIOUS
<1>1. ASSUME NEW p \in Procs, Spawn(p)
      PROVE  Unique'
  BY <1>1 DEF Spawn, TypeInv, Unique
<1>2. ASSUME NEW p \in Procs, StartExit(p) \/ Reap(p)
      PROVE  Unique'
  BY <1>2 DEF StartExit, Reap, TypeInv, Unique
<1>3. CASE WriteTrace \/ \E t \in Threads : Call(t) \/ Hook(t)
  BY <1>3, ProcsAlone DEF Unique
<1>4. CASE UNCHANGED vars
  BY <1>4 DEF vars, procVars, Unique
<1> QED
  BY <1>1, <1>2, <1>3, <1>4 DEF Next

\* Every step keeps the types.
LEMMA TypeStep == TypeInv /\ CallInv /\ [Next]_vars => TypeInv'
<1> SUFFICES ASSUME TypeInv, CallInv, [Next]_vars
             PROVE  TypeInv'
  OBVIOUS
<1>1. ASSUME NEW p \in Procs, Spawn(p) \/ StartExit(p) \/ Reap(p)
      PROVE  TypeInv'
  BY <1>1 DEF Spawn, StartExit, Reap, callVars, TypeInv
<1>2. CASE WriteTrace
  <2>1. trace' \in BOOLEAN
    BY <1>2, Zenon DEF WriteTrace
  <2>2. \A t \in Threads :
            (seenOn[t] \/ (trace' /\ pc[t] # "idle")) \in BOOLEAN
    BY Zenon
  <2>3. seenOn' \in [Threads -> BOOLEAN]
    BY <1>2, <2>2, Zenon DEF WriteTrace
  <2> QED
    BY <1>2, <2>1, <2>3 DEF WriteTrace, procVars, TypeInv
<1>3. ASSUME NEW t \in Threads, Call(t)
      PROVE  TypeInv'
  <2>1. PICK filter \in BOOLEAN, proc \in Procs \cup {Nobody},
             pieces \in Seq(Pieces), held \in BOOLEAN :
                Enter(t, filter, proc, pieces, held)
    BY <1>3, CallEnters
  <2> QED
    BY <2>1 DEF Enter, procVars, TypeInv
<1>4. ASSUME NEW t \in Threads, Hook(t)
      PROVE  TypeInv'
  <2>1. CASE Gate(t)
    <3>1. wanted' \in [Threads -> BOOLEAN]
      BY <2>1, Zenon DEF Gate, TypeInv
    <3> QED
      BY <2>1, <3>1 DEF Gate, Goto, procVars, TypeInv
  <2>2. CASE \/ NameKernel(t) \/ NameExited(t) \/ NameProc(t)
             \/ CopyName(t) \/ SpellFlags(t)
    BY <2>2
       DEF NameKernel, NameExited, NameProc, CopyName, SpellFlags, Collected,
           procVars, callVars, TypeInv
  <2>3. CASE FindIdent(t)
    <3>1. Arg(t) \in Procs
      <4>1. CallOK(t) /\ todo[t] # <<>> /\ Head(todo[t])[1] = "ident"
        BY <2>3 DEF CallInv, FindIdent, NextIs
      <4>2. Head(todo[t]) \in Pieces
        BY <4>1 DEF CallOK
      <4> QED
        BY <2>3, <4>1, <4>2, PieceKinds DEF FindIdent, Arg
    <3> QED
      BY <2>3, <3>1 DEF FindIdent, Goto, callVars, TypeInv
  <2>4. CASE NameIdent(t)
    BY <2>4 DEF NameIdent, Goto, Collected, procVars, callVars, TypeInv
  <2>5. CASE Release(t)
    <3>1. ref[t] \in Procs
      BY <2>5 DEF CallInv, CallOK, Release, Goto, TypeInv
    <3> QED
      BY <2>5, <3>1 DEF Release, Goto, callVars, TypeInv
  <2>6. CASE LogDebug(t)
    BY <2>6 DEF LogDebug, Goto, procVars, callVars, TypeInv
  <2>7. CASE Return(t)
    <3>1. seenOn' \in [Threads -> BOOLEAN]
      BY <2>7, Zenon DEF Return, TypeInv
    <3> QED
      BY <2>7, <3>1 DEF Return, Goto, procVars, TypeInv
  <2> QED
    BY <1>4, <2>1, <2>2, <2>3, <2>4, <2>5, <2>6, <2>7 DEF Hook
<1>5. CASE UNCHANGED vars
  BY <1>5 DEF vars, procVars, callVars, TypeInv
<1> QED
  BY <1>1, <1>2, <1>3, <1>4, <1>5 DEF Next

-----------------------------------------------------------------------------
\* What is left to do when a piece is done was to do before.
LEMMA TailFits ==
    ASSUME NEW t \in Threads, CallOK(t), todo[t] # <<>>
    PROVE  /\ Head(todo[t]) \in Pieces
           /\ PieceOK(Head(todo[t]), subject[t])
           /\ Tail(todo[t]) \in Seq(Pieces)
           /\ \A k \in 1..Len(Tail(todo[t])) :
                PieceOK(Tail(todo[t])[k], subject[t])
<1>1. todo[t] \in Seq(Pieces)
  BY DEF CallOK
<1>2. /\ Head(todo[t]) = todo[t][1] /\ 1 \in 1..Len(todo[t])
      /\ Len(Tail(todo[t])) = Len(todo[t]) - 1
      /\ \A k \in 1..Len(Tail(todo[t])) : Tail(todo[t])[k] = todo[t][k + 1]
  BY <1>1
<1>3. ASSUME NEW k \in 1..Len(Tail(todo[t]))
      PROVE  k + 1 \in 1..Len(todo[t])
  BY <1>1, <1>2
<1> QED
  BY <1>1, <1>2, <1>3 DEF CallOK

\* A step that leaves a call's variables alone and undoes neither a birth nor
\* the life of its subject.
LEMMA CallKept ==
    ASSUME NEW t \in Threads, CallOK(t), TypeInv,
           todo'[t] = todo[t], subject'[t] = subject[t],
           pc'[t] = pc[t], ref'[t] = ref[t],
           \A p \in Procs : life[p] # "unborn" => life'[p] # "unborn",
           subject[t] # Nobody => life'[subject[t]] = "alive"
    PROVE  CallOK(t)'
<1>1. ASSUME NEW k \in 1..Len(todo[t]) PROVE PieceOK(todo[t][k], subject[t])'
  <2>1. PieceOK(todo[t][k], subject[t]) /\ todo[t][k] \in Pieces
    BY DEF CallOK
  <2> QED
    BY <2>1, PieceKinds DEF PieceOK
<1> QED
  BY <1>1 DEF CallOK

LEMMA CallStep == TypeInv /\ CallInv /\ [Next]_vars => CallInv'
<1> SUFFICES ASSUME TypeInv, CallInv, [Next]_vars
             PROVE  CallInv'
  OBVIOUS
<1>0. \A u \in Threads : CallOK(u)
  BY DEF CallInv
<1>1. ASSUME NEW p \in Procs, Spawn(p) \/ StartExit(p) \/ Reap(p),
             NEW u \in Threads
      PROVE  CallOK(u)'
  <2>1. UNCHANGED <<todo, subject, pc, ref>>
    BY <1>1 DEF Spawn, StartExit, Reap, callVars
  <2>2. \A q \in Procs : life[q] # "unborn" => life'[q] # "unborn"
    BY <1>1 DEF Spawn, StartExit, Reap, TypeInv
  <2>3. subject[u] # Nobody => life'[subject[u]] = "alive"
    <3>1. subject[u] # Nobody => life[subject[u]] = "alive"
      BY <1>0 DEF CallOK
    <3> QED
      BY <1>1, <3>1 DEF Spawn, StartExit, Reap, TypeInv
  <2> QED
    BY <1>0, <2>1, <2>2, <2>3, CallKept
<1>2. ASSUME UNCHANGED <<todo, subject, pc, ref, life>>,
             NEW u \in Threads
      PROVE  CallOK(u)'
  <2>1. subject[u] # Nobody => life[subject[u]] = "alive"
    BY <1>0 DEF CallOK
  <2> QED
    BY <1>0, <1>2, <2>1, CallKept
<1>3. ASSUME NEW t \in Threads, Call(t) \/ Hook(t),
             NEW u \in Threads, u # t
      PROVE  CallOK(u)'
  <2>1. /\ todo'[u] = todo[u] /\ subject'[u] = subject[u]
        /\ pc'[u] = pc[u] /\ ref'[u] = ref[u]
    <3>1. CASE Call(t)
      BY <1>3, <3>1, CallEnters DEF Enter, TypeInv
    <3>2. CASE Hook(t)
      BY <1>3, <3>2
         DEF Hook, Gate, NameKernel, NameExited, FindIdent, NameIdent,
             Release, NameProc, CopyName, SpellFlags, LogDebug, Return, Goto,
             Collected, callVars, TypeInv
    <3> QED
      BY <1>3, <3>1, <3>2
  <2>2. life' = life
    BY <1>3, ProcsAlone
  <2>3. subject[u] # Nobody => life[subject[u]] = "alive"
    BY <1>0 DEF CallOK
  <2> QED
    BY <1>0, <2>1, <2>2, <2>3, CallKept
<1>4. ASSUME NEW t \in Threads, Call(t)
      PROVE  CallOK(t)'
  <2>1. PICK filter \in BOOLEAN, proc \in Procs \cup {Nobody},
             pieces \in Seq(Pieces), held \in BOOLEAN :
                /\ Enter(t, filter, proc, pieces, held)
                /\ proc # Nobody => life[proc] = "alive"
                /\ \A k \in 1..Len(pieces) : PieceOK(pieces[k], proc)
    BY <1>4, CallEnters
  <2>2. /\ todo'[t] = pieces /\ subject'[t] = proc /\ pc'[t] = "gate"
        /\ life' = life /\ ref' = ref /\ pc[t] = "idle"
    BY <2>1 DEF Enter, procVars, TypeInv
  <2>3. ref[t] = Nobody
    BY <1>0, <2>2 DEF CallOK
  <2>4. \A k \in 1..Len(pieces) : PieceOK(pieces[k], proc)'
    BY <2>1, <2>2 DEF PieceOK
  <2> QED
    BY <2>1, <2>2, <2>3, <2>4 DEF CallOK
<1>5. ASSUME NEW t \in Threads, Hook(t)
      PROVE  CallOK(t)'
  <2>0. /\ life' = life /\ CallOK(t)
        /\ pc \in [Threads ->
                    {"idle", "gate", "collect", "name", "rele", "done"}]
        /\ DOMAIN todo = Threads /\ ref \in [Threads -> Procs \cup {Nobody}]
        /\ subject \in [Threads -> Procs \cup {Nobody}]
        /\ Nobody \notin Procs
    BY <1>0, <1>5, ProcsAlone, TraceAssumption DEF TypeInv
  <2>2. CASE Gate(t)
    <3>1. /\ UNCHANGED <<subject, ref>> /\ pc[t] = "gate"
          /\ \/ pc'[t] = "collect" /\ todo'[t] = todo[t]
             \/ pc'[t] = "done" /\ todo'[t] = <<>>
      BY <2>0, <2>2 DEF Gate, Goto
    <3>2. CASE pc'[t] = "done" /\ todo'[t] = <<>>
      BY <2>0, <3>1, <3>2 DEF CallOK
    <3>3. CASE pc'[t] = "collect" /\ todo'[t] = todo[t]
      BY <2>0, <3>1, <3>3 DEF CallOK, PieceOK
    <3> QED
      BY <3>1, <3>2, <3>3
  <2>3. CASE \/ NameKernel(t) \/ NameExited(t) \/ NameProc(t)
             \/ CopyName(t) \/ SpellFlags(t)
    <3>1. /\ todo[t] # <<>> /\ UNCHANGED <<subject, ref, pc>>
          /\ pc[t] = "collect" /\ todo' = [todo EXCEPT ![t] = Tail(@)]
      BY <2>3
         DEF NameKernel, NameExited, NameProc, CopyName, SpellFlags, NextIs,
             Collected, callVars
    <3>2. /\ Tail(todo[t]) \in Seq(Pieces)
          /\ \A k \in 1..Len(Tail(todo[t])) :
                PieceOK(Tail(todo[t])[k], subject[t])
      BY <2>0, <3>1, TailFits
    <3>3. todo'[t] = Tail(todo[t])
      BY <2>0, <3>1
    <3> QED
      BY <2>0, <3>1, <3>2, <3>3 DEF CallOK, PieceOK
  <2>4. CASE FindIdent(t)
    <3>1. /\ todo' = todo /\ subject' = subject /\ pc'[t] = "name"
          /\ ref'[t] = Arg(t) /\ Arg(t) # Nobody
          /\ todo[t] # <<>> /\ Head(todo[t])[1] = "ident"
      BY <2>0, <2>4 DEF FindIdent, Goto, NextIs, callVars
    <3>2. Head(todo[t]) = <<"ident", Arg(t)>>
      BY <2>0, <3>1, TailFits, PieceKinds DEF Arg
    <3> QED
      BY <2>0, <3>1, <3>2 DEF CallOK, PieceOK
  <2>5. CASE NameIdent(t)
    <3>1. /\ UNCHANGED <<subject, ref>>
          /\ pc[t] = "name" /\ pc'[t] = "rele"
          /\ todo'[t] = Tail(todo[t])
      BY <2>0, <2>5 DEF NameIdent, Goto, Collected, callVars
    <3>2. todo[t] # <<>>
      BY <2>0, <3>1 DEF CallOK
    <3>3. /\ Tail(todo[t]) \in Seq(Pieces)
          /\ \A k \in 1..Len(Tail(todo[t])) :
                PieceOK(Tail(todo[t])[k], subject[t])
      BY <2>0, <3>2, TailFits
    <3> QED
      BY <2>0, <3>1, <3>3 DEF CallOK, PieceOK
  <2>6. CASE Release(t)
    <3>1. /\ UNCHANGED <<todo, subject>> /\ ref'[t] = Nobody
          /\ pc'[t] = "collect"
      BY <2>0, <2>6 DEF Release, Goto, callVars
    <3> QED
      BY <2>0, <3>1 DEF CallOK, PieceOK
  <2>7. CASE LogDebug(t)
    <3>1. /\ UNCHANGED <<todo, subject, ref>> /\ todo[t] = <<>>
          /\ pc[t] = "collect" /\ pc'[t] = "done"
      BY <2>0, <2>7 DEF LogDebug, Goto, callVars
    <3> QED
      BY <2>0, <3>1 DEF CallOK, PieceOK
  <2>8. CASE Return(t)
    <3>1. /\ UNCHANGED <<todo, ref>> /\ subject'[t] = Nobody
          /\ pc[t] = "done" /\ pc'[t] = "idle"
      BY <2>0, <2>8 DEF Return, Goto
    <3>2. todo[t] = <<>>
      BY <2>0, <3>1 DEF CallOK
    <3> QED
      BY <2>0, <3>1, <3>2 DEF CallOK, PieceOK
  <2> QED
    BY <1>5, <2>2, <2>3, <2>4, <2>5, <2>6, <2>7, <2>8 DEF Hook
<1>6. CASE WriteTrace \/ UNCHANGED vars
  BY <1>2, <1>6 DEF CallInv, WriteTrace, vars, procVars, callVars
<1> QED
  BY <1>1, <1>3, <1>4, <1>5, <1>6 DEF Next, CallInv

-----------------------------------------------------------------------------
\* Only proc_find_ident() and proc_rele() move references.
LEMMA RefsMove ==
    ASSUME TypeInv, [Next]_vars
    PROVE  \/ UNCHANGED <<refs, ref>>
           \/ \E t \in Threads : FindIdent(t) \/ Release(t)
<1>1. ASSUME NEW t \in Threads, Call(t)
      PROVE  UNCHANGED <<refs, ref>>
  BY <1>1, CallEnters DEF Enter, procVars
<1>2. ASSUME NEW t \in Threads, Hook(t), ~FindIdent(t), ~Release(t)
      PROVE  UNCHANGED <<refs, ref>>
  BY <1>2
     DEF Hook, Gate, NameKernel, NameExited, NameIdent, NameProc, CopyName,
         SpellFlags, LogDebug, Return, procVars
<1> QED
  BY <1>1, <1>2
     DEF Next, Spawn, StartExit, Reap, WriteTrace, vars, procVars

\* The references counted are the references held.
LEMMA RefStep == TypeInv /\ CallInv /\ RefInv /\ [Next]_vars => RefInv'
<1> SUFFICES ASSUME TypeInv, CallInv, RefInv, [Next]_vars,
                    NEW p \in Procs
             PROVE  refs'[p] = Cardinality(Holders(p)')
  BY DEF RefInv
<1>0. /\ IsFiniteSet(Holders(p)) /\ Cardinality(Holders(p)) \in Nat
      /\ refs[p] = Cardinality(Holders(p))
  BY TraceAssumption, FS_Subset, FS_CardinalityType DEF Holders, RefInv
<1>1. CASE UNCHANGED <<refs, ref>>
  BY <1>0, <1>1 DEF Holders
<1>2. ASSUME NEW t \in Threads, FindIdent(t)
      PROVE  refs'[p] = Cardinality(Holders(p)')
  <2>1. /\ ref' = [ref EXCEPT ![t] = Arg(t)]
        /\ refs' = [refs EXCEPT ![Arg(t)] = @ + 1]
        /\ pc[t] = "collect" /\ CallOK(t)
    BY <1>2 DEF FindIdent, Goto, CallInv
  <2>2. ref[t] = Nobody /\ p # Nobody
    BY <2>1, TraceAssumption DEF CallOK, TypeInv
  <2>3. CASE Arg(t) = p
    <3>1. Holders(p)' = Holders(p) \cup {t} /\ t \notin Holders(p)
      BY <2>1, <2>2, <2>3 DEF Holders, TypeInv
    <3>2. Cardinality(Holders(p)') = Cardinality(Holders(p)) + 1
      BY <1>0, <3>1, FS_AddElement
    <3> QED
      BY <1>0, <2>1, <2>3, <3>2 DEF TypeInv
  <2>4. CASE Arg(t) # p
    <3>1. Holders(p)' = Holders(p)
      BY <2>1, <2>2, <2>4 DEF Holders, TypeInv
    <3> QED
      BY <1>0, <2>1, <2>4, <3>1 DEF TypeInv
  <2> QED
    BY <2>3, <2>4
<1>3. ASSUME NEW t \in Threads, Release(t)
      PROVE  refs'[p] = Cardinality(Holders(p)')
  <2>1. /\ ref' = [ref EXCEPT ![t] = Nobody]
        /\ refs' = [refs EXCEPT ![ref[t]] = @ - 1]
        /\ p # Nobody
    BY <1>3, TraceAssumption DEF Release
  <2>2. CASE ref[t] = p
    <3>1. Holders(p)' = Holders(p) \ {t} /\ t \in Holders(p)
      BY <2>1, <2>2 DEF Holders, TypeInv
    <3>2. Cardinality(Holders(p)') = Cardinality(Holders(p)) - 1
      BY <1>0, <3>1, FS_RemoveElement
    <3> QED
      BY <1>0, <2>1, <2>2, <3>2 DEF TypeInv
  <2>3. CASE ref[t] # p
    <3>1. Holders(p)' = Holders(p)
      BY <2>1, <2>3 DEF Holders, TypeInv
    <3> QED
      BY <1>0, <2>1, <2>3, <3>1 DEF TypeInv
  <2> QED
    BY <2>2, <2>3
<1> QED
  BY <1>1, <1>2, <1>3, RefsMove

\* A process with a reference is not reaped, and one that is looked for is
\* referenced only while it is alive.
LEMMA HeldStep ==
    TypeInv /\ CallInv /\ RefInv /\ HeldInv /\ [Next]_vars => HeldInv'
<1> SUFFICES ASSUME TypeInv, CallInv, RefInv, HeldInv, [Next]_vars,
                    NEW u \in Threads, ref'[u] # Nobody
             PROVE  life'[ref'[u]] \in {"alive", "exiting"}
  BY DEF HeldInv
<1>1. ASSUME NEW p \in Procs, Spawn(p) \/ StartExit(p)
      PROVE  life'[ref'[u]] \in {"alive", "exiting"}
  BY <1>1 DEF Spawn, StartExit, HeldInv, TypeInv
<1>2. ASSUME NEW p \in Procs, Reap(p)
      PROVE  life'[ref'[u]] \in {"alive", "exiting"}
  <2>1. refs[p] = 0 /\ ref' = ref /\ life' = [life EXCEPT ![p] = "gone"]
    BY <1>2 DEF Reap
  <2>2. Holders(p) = {}
    <3>1. IsFiniteSet(Holders(p)) /\ Cardinality(Holders(p)) = 0
      BY <2>1, TraceAssumption, FS_Subset DEF Holders, RefInv
    <3> QED
      BY <3>1, FS_EmptySet
  <2>3. ref[u] # p
    BY <2>2 DEF Holders
  <2> QED
    BY <2>1, <2>3 DEF HeldInv, TypeInv
<1>3. CASE WriteTrace \/ UNCHANGED vars
  BY <1>3 DEF WriteTrace, vars, procVars, HeldInv
<1>4. ASSUME NEW t \in Threads, Call(t) \/ Hook(t)
      PROVE  life'[ref'[u]] \in {"alive", "exiting"}
  <2>1. life' = life
    BY <1>4, ProcsAlone
  <2>2. CASE ref' = ref
    BY <2>1, <2>2 DEF HeldInv
  <2>3. ASSUME NEW v \in Threads, FindIdent(v)
        PROVE  life'[ref'[u]] \in {"alive", "exiting"}
    BY <2>1, <2>3 DEF FindIdent, HeldInv, TypeInv
  <2>4. ASSUME NEW v \in Threads, Release(v)
        PROVE  life'[ref'[u]] \in {"alive", "exiting"}
    BY <2>1, <2>4 DEF Release, HeldInv, TypeInv
  <2> QED
    BY <2>2, <2>3, <2>4, RefsMove
<1> QED
  BY <1>1, <1>2, <1>3, <1>4 DEF Next

\* The gate lets nobody through while tracing is off.
LEMMA SeenStep == TypeInv /\ SeenInv /\ [Next]_vars => SeenInv'
<1> SUFFICES ASSUME TypeInv, SeenInv, [Next]_vars
             PROVE  SeenInv'
  OBVIOUS
<1>1. ASSUME NEW p \in Procs, Spawn(p) \/ StartExit(p) \/ Reap(p)
      PROVE  SeenInv'
  BY <1>1 DEF Spawn, StartExit, Reap, callVars, SeenInv
<1>2. CASE WriteTrace
  BY <1>2, Zenon DEF WriteTrace, TypeInv, SeenInv
<1>3. ASSUME NEW t \in Threads, Call(t)
      PROVE  SeenInv'
  <2>1. /\ trace' = trace
        /\ pc' = [pc EXCEPT ![t] = "gate"]
        /\ seenOn' = [seenOn EXCEPT ![t] = trace]
    BY <1>3, CallEnters DEF Enter
  <2> QED
    BY <2>1 DEF TypeInv, SeenInv
<1>4. ASSUME NEW t \in Threads, Gate(t)
      PROVE  SeenInv'
  BY <1>4 DEF Gate, Goto, TypeInv, SeenInv
<1>5. ASSUME NEW t \in Threads,
             \/ NameKernel(t) \/ NameExited(t) \/ FindIdent(t)
             \/ NameIdent(t) \/ Release(t)
             \/ NameProc(t) \/ CopyName(t) \/ SpellFlags(t) \/ LogDebug(t)
      PROVE  SeenInv'
  BY <1>5
     DEF NameKernel, NameExited, FindIdent, NameIdent, Release, NameProc,
         CopyName, SpellFlags, LogDebug, Goto, NextIs, callVars, TypeInv,
         SeenInv
<1>6. ASSUME NEW t \in Threads, Return(t)
      PROVE  SeenInv'
  BY <1>6 DEF Return, Goto, TypeInv, SeenInv
<1>7. CASE UNCHANGED vars
  BY <1>7 DEF vars, callVars, SeenInv
<1> QED
  BY <1>1, <1>2, <1>3, <1>4, <1>5, <1>6, <1>7 DEF Next, Hook

-----------------------------------------------------------------------------
\* The part of NamesRightProcess that concerns one thread; who is not alive
\* and has been born stays so.
NameOK(t) ==
    (out[t][1] = "name" /\ out[t][2] # Nobody) =>
        /\ out[t][2] \in Procs /\ life[out[t][2]] # "unborn"
        /\ \/ out[t][3] = out[t][2]
           \/ out[t][3] = Nobody /\ life[out[t][2]] # "alive"

NameInv == \A t \in Threads : NameOK(t)

LEMMA NameStep ==
    TypeInv /\ CallInv /\ Unique /\ HeldInv /\ NameInv /\ [Next]_vars
        => NameInv'
<1> SUFFICES ASSUME TypeInv, CallInv, Unique, HeldInv, NameInv, [Next]_vars,
                    NEW u \in Threads
             PROVE  NameOK(u)'
  BY DEF NameInv
<1>0. NameOK(u)
  BY DEF NameInv
<1>1. ASSUME NEW p \in Procs, Spawn(p) \/ StartExit(p) \/ Reap(p)
      PROVE  NameOK(u)'
  BY <1>0, <1>1 DEF Spawn, StartExit, Reap, TypeInv, NameOK
<1>2. CASE out'[u] = out[u] /\ life' = life
  BY <1>0, <1>2 DEF NameOK
<1>3. ASSUME NEW t \in Threads, Call(t)
      PROVE  NameOK(u)'
  BY <1>2, <1>3, ProcsAlone, CallEnters DEF Enter
<1>4. ASSUME NEW t \in Threads, Hook(t)
      PROVE  NameOK(u)'
  <2>0. life' = life /\ CallOK(t) /\ Nobody \notin Procs
    BY <1>4, ProcsAlone, TraceAssumption DEF CallInv
  <2>1. CASE u # t \/ Gate(t) \/ FindIdent(t) \/ Release(t) \/ Return(t)
    <3>1. out'[u] = out[u]
      BY <1>4, <2>1
         DEF Hook, Gate, NameKernel, NameExited, FindIdent, NameIdent,
             Release, NameProc, CopyName, SpellFlags, LogDebug, Return,
             Collected, TypeInv
    <3> QED
      BY <1>2, <2>0, <3>1
  <2>2. CASE u = t /\ NameKernel(t)
    <3>1. out'[u] = <<"name", Nobody, Nobody>>
      BY <2>2 DEF NameKernel, Collected, TypeInv
    <3> QED
      BY <3>1 DEF NameOK
  <2>3. CASE u = t /\ NameExited(t)
    <3>1. /\ out'[u] = <<"name", Arg(t), Nobody>>
          /\ Arg(t) # Nobody /\ life[Arg(t)] # "alive"
          /\ todo[t] # <<>> /\ Head(todo[t])[1] = "ident"
      BY <2>3 DEF NameExited, NextIs, Collected, TypeInv
    <3>2. Arg(t) \in Procs /\ life[Arg(t)] # "unborn"
      BY <2>0, <3>1, TailFits, PieceKinds DEF PieceOK, Arg
    <3> QED
      BY <2>0, <3>1, <3>2 DEF NameOK
  <2>4. CASE u = t /\ NameIdent(t)
    <3>1. /\ out'[u] = <<"name", Arg(t), FindPid(pid[ref[t]])>>
          /\ pc[t] = "name"
      BY <2>4 DEF NameIdent, Goto, Collected, TypeInv
    <3>2. Arg(t) = ref[t] /\ ref[t] \in Procs
      BY <2>0, <3>1 DEF CallOK, Arg, TypeInv
    <3>3. life[ref[t]] \in {"alive", "exiting"}
      BY <2>0, <3>2 DEF HeldInv
    <3>4. FindPid(pid[ref[t]]) = IF life[ref[t]] = "alive"
                                   THEN ref[t] ELSE Nobody
      BY <3>2, <3>3, FindsOwn
    <3> QED
      BY <2>0, <3>1, <3>2, <3>3, <3>4 DEF NameOK
  <2>5. CASE u = t /\ NameProc(t)
    <3>1. /\ out'[u] = <<"name", Arg(t), FindPid(pid[Arg(t)])>>
          /\ todo[t] # <<>> /\ Head(todo[t])[1] = "proc"
      BY <2>5 DEF NameProc, NextIs, Collected, TypeInv
    <3>2. Arg(t) \in Procs /\ Arg(t) = subject[t]
      BY <2>0, <3>1, TailFits, PieceKinds DEF PieceOK, Arg
    <3>3. life[Arg(t)] = "alive"
      BY <2>0, <3>2 DEF CallOK
    <3>4. FindPid(pid[Arg(t)]) = Arg(t)
      BY <3>2, <3>3, FindsOwn
    <3> QED
      BY <2>0, <3>1, <3>2, <3>3, <3>4 DEF NameOK
  <2>6. CASE u = t /\ CopyName(t)
    <3>1. out'[u] = <<"copied", Arg(t), cnp_name(Arg(t))>>
      BY <2>6 DEF CopyName, Collected, TypeInv
    <3> QED
      BY <3>1 DEF NameOK
  <2>7. CASE u = t /\ SpellFlags(t)
    <3>1. out'[u] = <<"flags", Arg(t), csflag_bits(Arg(t))>>
      BY <2>7 DEF SpellFlags, Collected, TypeInv
    <3> QED
      BY <3>1 DEF NameOK
  <2>8. CASE u = t /\ LogDebug(t)
    <3>1. out'[u] = <<"nothing">>
      BY <2>8 DEF LogDebug, Nothing, TypeInv
    <3> QED
      BY <3>1 DEF NameOK
  <2> QED
    BY <1>4, <2>1, <2>2, <2>3, <2>4, <2>5, <2>6, <2>7, <2>8 DEF Hook
<1>5. CASE WriteTrace \/ UNCHANGED vars
  BY <1>2, <1>5 DEF WriteTrace, vars, procVars
<1> QED
  BY <1>1, <1>3, <1>4, <1>5 DEF Next

\* All of it holds together.
TraceInv ==
    TypeInv /\ CallInv /\ Unique /\ RefInv /\ HeldInv /\ SeenInv /\ NameInv

LEMMA TraceInductive == Spec => []TraceInv
<1>1. Init => TraceInv
  <2> SUFFICES ASSUME Init
               PROVE  TraceInv
    OBVIOUS
  <2> USE TraceAssumption
  <2>1. trace \in BOOLEAN /\ wanted \in [Threads -> BOOLEAN]
        /\ seenOn \in [Threads -> BOOLEAN]
    BY Zenon DEF Init
  <2>2. TypeInv
    BY <2>1 DEF Init, TypeInv
  <2>3. CallInv
    BY DEF Init, CallInv, CallOK
  <2>4. \A p \in Procs : life[p] = "unborn"
    BY DEF Init
  <2>4a. Unique
    <3>1. \A p \in Procs : life[p] \notin {"alive", "exiting"}
      BY <2>4
    <3> QED
      BY <3>1 DEF Unique
  <2>4b. HeldInv
    BY DEF Init, HeldInv
  <2>4c. SeenInv
    BY DEF Init, SeenInv
  <2>5. RefInv
    <3> SUFFICES ASSUME NEW p \in Procs
                 PROVE  refs[p] = Cardinality(Holders(p))
      BY DEF RefInv
    <3>1. Holders(p) = {} /\ refs[p] = 0
      BY DEF Init, Holders
    <3> QED
      BY <3>1, FS_EmptySet
  <2>6. NameInv
    <3>1. \A t \in Threads : out[t] = <<"nothing">>
      BY DEF Init, Nothing
    <3> QED
      BY <3>1 DEF NameInv, NameOK
  <2> QED
    BY <2>2, <2>3, <2>4a, <2>4b, <2>4c, <2>5, <2>6 DEF TraceInv
<1>2. TraceInv /\ [Next]_vars => TraceInv'
  BY TypeStep, CallStep, UniqueStep, RefStep, HeldStep, SeenStep, NameStep
     DEF TraceInv
<1> QED
  BY <1>1, <1>2, PTL DEF Spec

-----------------------------------------------------------------------------
\* No process has more references than there are threads in a hook, and no
\* count of them goes below zero.
THEOREM TraceTyped == Spec => []TypeOK
<1>1. TraceInv => TypeOK
  <2> SUFFICES ASSUME TraceInv
               PROVE  TypeOK
    OBVIOUS
  <2>1. ASSUME NEW p \in Procs
        PROVE  refs[p] \in 0..Cardinality(Threads)
    <3>1. /\ Holders(p) \in SUBSET Threads
          /\ refs[p] = Cardinality(Holders(p))
      BY DEF TraceInv, RefInv, Holders
    <3>2. /\ IsFiniteSet(Holders(p))
          /\ Cardinality(Holders(p)) <= Cardinality(Threads)
      BY <3>1, TraceAssumption, FS_Subset
    <3> QED
      BY <3>1, <3>2, TraceAssumption, FS_CardinalityType
  <2>2. refs \in [Procs -> 0..Cardinality(Threads)]
    BY <2>1 DEF TraceInv, TypeInv
  <2>3. \A t \in Threads : \A k \in 1..Len(todo[t]) : todo[t][k] \in Pieces
    <3> SUFFICES ASSUME NEW t \in Threads, NEW k \in 1..Len(todo[t])
                 PROVE  todo[t][k] \in Pieces
      OBVIOUS
    <3>1. todo[t] \in Seq(Pieces)
      BY DEF TraceInv, CallInv, CallOK
    <3> QED
      BY <3>1
  <2> QED
    BY <2>2, <2>3 DEF TraceInv, TypeInv, TypeOK
<1> QED
  BY <1>1, TraceInductive, PTL

\* kernel.h:185-222: whatever order processes are born, exit and are reaped
\* in, and however numbers are used again, the name in a line is that of the
\* process the hook was called about.
THEOREM TraceNamesRightProcess == Spec => []NamesRightProcess
<1>1. TraceInv => NamesRightProcess
  BY DEF TraceInv, NameInv, NameOK, NamesRightProcess
<1> QED
  BY <1>1, TraceInductive, PTL

\* kernel.h:178-184, proc.c:23-25: a hook whose caller holds proc_list_lock
\* asks for it only if tracing was on at some time in the call.
THEOREM TraceStuckOnlyIfTraced == Spec => []StuckOnlyIfTraced
<1>1. TraceInv => StuckOnlyIfTraced
  BY DEF TraceInv, SeenInv, Stuck, NextIs, StuckOnlyIfTraced
<1> QED
  BY <1>1, TraceInductive, PTL

-----------------------------------------------------------------------------
(* The buffer of sebsd_csflag_bits(), test by test.                        *)

\* A non-empty set of natural numbers has a least element.
LEMMA Least ==
    ASSUME NEW S \in SUBSET Nat, S # {}
    PROVE  \E x \in S : \A y \in S : x <= y
<1> DEFINE R == OpToRel(<, Nat)
<1>1. IsWellFoundedOn(R, Nat)
  BY NatLessThanWellFounded
<1>2. \A x, y \in Nat : <<y, x>> \in R <=> y < x
  BY DEF OpToRel
<1> HIDE DEF R
<1>3. PICK x \in S : \A y \in S : <<y, x>> \notin R
  BY <1>1, WFMin, Zenon
<1>4. \A y \in S : x <= y
  <2>1. \A y \in S : ~(y < x)
    BY <1>2, <1>3
  <2> QED
    BY <2>1
<1> QED
  BY <1>4

Empty == [text |-> <<>>, left |-> SigLen, first |-> TRUE]
Chars == AllFlags \cup {","}
Buffers == [text : Seq(Chars), left : Nat, first : BOOLEAN]

\* The buffers after test k, from those after the test before.
Row(before, k) ==
    [F \in SUBSET AllFlags |->
        IF k = 0 THEN Empty
        ELSE IF Flags[k] \in F THEN csflagBit(before[F], Flags[k])
        ELSE before[F]]

\* The recursive definition of Tested has a solution.
LEMMA TestedEquation ==
    Tested = [k \in 0..Len(Flags) |-> Row(Tested[k - 1], k)]
<1> DEFINE Solves(f, n) == f = [k \in 0..n |-> Row(f[k - 1], k)]
           S == {n \in Nat : ~\E f : Solves(f, n)}
<1>0. \A x, y : Row(x, 0) = Row(y, 0)
  BY DEF Row
<1>1. S = {}
  <2> SUFFICES ASSUME S # {} PROVE FALSE
    OBVIOUS
  <2>1. PICK n \in S : \A m \in S : n <= m
    <3>1. S \in SUBSET Nat
      OBVIOUS
    <3> HIDE DEF S
    <3> QED
      BY <3>1, Least, Zenon
  <2>2. n \in Nat /\ ~\E f : Solves(f, n)
    OBVIOUS
  <2>3. CASE n = 0
    <3> DEFINE g == [k \in 0..0 |-> Row(Empty, 0)]
    <3>1. \A k \in 0..0 : g[k] = Row(g[k - 1], k)
      BY <1>0
    <3>2. Solves(g, 0)
      BY <3>1
    <3> QED
      BY <2>2, <2>3, <3>2
  <2>4. CASE n # 0
    <3>0. n - 1 \in Nat /\ ~(n <= n - 1)
      BY <2>2, <2>4
    <3>1. n - 1 \notin S
      BY <2>1, <3>0
    <3>2. PICK f : Solves(f, n - 1)
      BY <3>0, <3>1
    <3> DEFINE g == [k \in 0..n |->
                        IF k = n THEN Row(f[n - 1], n) ELSE f[k]]
    <3>3. \A k \in 0..n : k # 0 => g[k - 1] = f[k - 1]
      BY <2>2
    <3>4. \A k \in 0..(n - 1) : f[k] = Row(f[k - 1], k)
      BY <3>2
    <3>5. \A k \in 0..n : g[k] = Row(g[k - 1], k)
      <4> SUFFICES ASSUME NEW k \in 0..n PROVE g[k] = Row(g[k - 1], k)
        OBVIOUS
      <4>1. CASE k = 0
        <5>1. g[0] = f[0] /\ f[0] = Row(f[0 - 1], 0)
          BY <2>2, <2>4, <3>0, <3>4
        <5> QED
          BY <1>0, <4>1, <5>1
      <4>2. CASE k # 0 /\ k = n
        BY <2>2, <3>3, <4>2
      <4>3. CASE k # 0 /\ k # n
        <5>1. k \in 0..(n - 1)
          BY <2>2, <4>3
        <5> QED
          BY <2>2, <3>3, <3>4, <4>3, <5>1
      <4> QED
        BY <4>1, <4>2, <4>3
    <3>6. Solves(g, n)
      BY <3>5
    <3> QED
      BY <2>2, <3>6
  <2> QED
    BY <2>3, <2>4
<1>2. Len(Flags) \in Nat
  BY TraceAssumption
<1>3. \E f : Solves(f, Len(Flags))
  BY <1>1, <1>2
<1>4. Tested = CHOOSE f : Solves(f, Len(Flags))
  BY DEF Tested, Row, Empty
<1> QED
  BY <1>3, <1>4

\* How many flags of F there are among the first k.
LEMMA SetUpToCounts ==
    ASSUME NEW F, NEW k \in Nat
    PROVE  /\ IsFiniteSet(SetUpTo(F, k)) /\ Cardinality(SetUpTo(F, k)) \in Nat
           /\ \A j \in 1..k : Cardinality(SetUpTo(F, j))
                                    <= Cardinality(SetUpTo(F, k))
           /\ \A j \in 1..k : Flags[j] \in F
                                    => Cardinality(SetUpTo(F, j)) >= 1
           /\ Cardinality(SetUpTo(F, k + 1)) =
                Cardinality(SetUpTo(F, k)) + IF Flags[k + 1] \in F THEN 1 ELSE 0
<1>1. ASSUME NEW n \in Nat
      PROVE  IsFiniteSet(SetUpTo(F, n)) /\ Cardinality(SetUpTo(F, n)) \in Nat
  <2>1. IsFiniteSet(1..n)
    BY FS_Interval
  <2>2. SetUpTo(F, n) \in SUBSET (1..n)
    BY DEF SetUpTo
  <2> QED
    BY <2>1, <2>2, FS_Subset, FS_CardinalityType
<1>2. ASSUME NEW j \in 1..k
      PROVE  Cardinality(SetUpTo(F, j)) <= Cardinality(SetUpTo(F, k))
  <2>1. SetUpTo(F, j) \in SUBSET SetUpTo(F, k)
    BY DEF SetUpTo
  <2> QED
    BY <1>1, <2>1, FS_Subset
<1>3. ASSUME NEW j \in 1..k, Flags[j] \in F
      PROVE  Cardinality(SetUpTo(F, j)) >= 1
  <2>1. j \in SetUpTo(F, j) /\ j \in Nat
    BY <1>3 DEF SetUpTo
  <2>2. Cardinality(SetUpTo(F, j)) # 0
    BY <1>1, <2>1, FS_EmptySet
  <2> QED
    BY <1>1, <2>1, <2>2
<1>4. CASE Flags[k + 1] \in F
  <2>1. SetUpTo(F, k + 1) = SetUpTo(F, k) \cup {k + 1}
        /\ k + 1 \notin SetUpTo(F, k)
    BY <1>4 DEF SetUpTo
  <2> QED
    BY <1>1, <1>2, <1>3, <1>4, <2>1, FS_AddElement
<1>5. CASE Flags[k + 1] \notin F
  <2>1. SetUpTo(F, k + 1) = SetUpTo(F, k)
    BY <1>5 DEF SetUpTo
  <2> QED
    BY <1>1, <1>2, <1>3, <1>5, <2>1
<1> QED
  BY <1>4, <1>5

\* One more character, or none if it would take the byte of the NUL.
LEMMA PutGives ==
    ASSUME NEW b \in Buffers, b.left >= 1, Len(b.text) + b.left = SigLen,
           NEW c \in Chars, NEW p, p = Put(b, c)
    PROVE  /\ p \in Buffers /\ p.left >= 1 /\ Len(p.text) + p.left = SigLen
           /\ p.first = b.first
           /\ Len(p.text) = IF Len(b.text) < SigLen - 1
                              THEN Len(b.text) + 1 ELSE Len(b.text)
           /\ \A j \in 1..Len(b.text) : p.text[j] = b.text[j]
           /\ Len(b.text) < SigLen - 1 => p.text[Len(b.text) + 1] = c
<1>0. /\ b.text \in Seq(Chars) /\ b.left \in Nat /\ Len(b.text) \in Nat
      /\ SigLen \in Nat
  BY TraceAssumption, LenProperties DEF Buffers
<1>1. CASE b.left > 1
  <2> DEFINE t == Append(b.text, c)
             n == b.left - 1
  <2>1. /\ t \in Seq(Chars) /\ Len(t) = Len(b.text) + 1
        /\ \A j \in 1..Len(b.text) : t[j] = b.text[j]
        /\ t[Len(b.text) + 1] = c
    BY <1>0, AppendProperties
  <2>2. n \in Nat /\ n >= 1 /\ Len(t) + n = SigLen /\ Len(b.text) < SigLen - 1
    BY <1>0, <1>1, <2>1
  <2>3. p = [b EXCEPT !.text = t, !.left = n]
    BY <1>1 DEF Put
  <2> HIDE DEF t, n
  <2>4. p \in Buffers
    BY <2>1, <2>2, <2>3, Zenon DEF Buffers
  <2>5. p.text = t /\ p.left = n /\ p.first = b.first
    BY <2>3 DEF Buffers
  <2> QED
    BY <2>1, <2>2, <2>4, <2>5
<1>2. CASE ~(b.left > 1)
  <2>1. p = b
    BY <1>2 DEF Put
  <2> QED
    BY <1>0, <1>2, <2>1
<1> QED
  BY <1>1, <1>2

\* The text after the first k tests: as many characters as the flags among
\* them need, or as fit, each in its place.
Cut(n) == LET full == IF n = 0 THEN 0 ELSE 2 * n - 1
          IN  IF full < SigLen - 1 THEN full ELSE SigLen - 1

BufferOK(b, F, k) ==
    /\ b \in Buffers /\ b.left >= 1 /\ Len(b.text) + b.left = SigLen
    /\ b.first <=> Cardinality(SetUpTo(F, k)) = 0
    /\ Len(b.text) = Cut(Cardinality(SetUpTo(F, k)))
    /\ \A j \in 1..k : Flags[j] \in F /\ Place(F, j) <= Len(b.text)
                            => b.text[Place(F, j)] = Flags[j]
    /\ \A j \in Nat : 1 <= j /\ 2 * j <= Len(b.text) => b.text[2 * j] = ","

\* The lengths of the text before a test, after its comma, after its flag.
LEMMA Lengths ==
    ASSUME NEW n \in Nat, NEW room \in Nat,
           NEW lb \in Nat, NEW la \in Nat, NEW lp \in Nat,
           lb = IF (IF n = 0 THEN 0 ELSE 2 * n - 1) < room
                  THEN IF n = 0 THEN 0 ELSE 2 * n - 1 ELSE room,
           la = IF n # 0 /\ lb < room THEN lb + 1 ELSE lb,
           lp = IF la < room THEN la + 1 ELSE la
    PROVE  /\ lp = IF 2 * n + 1 < room THEN 2 * n + 1 ELSE room
           /\ 2 * n + 1 <= lp => la = 2 * n /\ la < room
           /\ \A m \in Nat : 1 <= m /\ m <= 2 * n - 1 /\ m <= lp
                    => m \in 1..lb /\ m \in 1..la
           /\ \A m \in Nat : 1 <= m /\ m <= lb => m \in 1..lb /\ m \in 1..la
           /\ \A j \in Nat : 1 <= j /\ 2 * j <= lp /\ ~(2 * j <= lb)
                    => /\ n # 0 /\ lb < room /\ lb + 1 = 2 * j
                       /\ 2 * j \in 1..la
  OBVIOUS

\* CSFLAG_BIT() for the k-th flag when it is set.
LEMMA BufferStep ==
    ASSUME NEW F \in SUBSET AllFlags, NEW k \in 1..Len(Flags), Flags[k] \in F,
           NEW b, BufferOK(b, F, k - 1),
           NEW q, q = csflagBit(b, Flags[k])
    PROVE  BufferOK(q, F, k)
<1> DEFINE f == Flags[k]
           n == Cardinality(SetUpTo(F, k - 1))
           a == IF b.first THEN b ELSE Put(b, ",")
           p == Put(a, f)
           room == SigLen - 1
<1>1. /\ k \in Nat /\ k - 1 \in Nat /\ (k - 1) + 1 = k
      /\ SigLen \in Nat /\ SigLen >= 1 /\ room \in Nat /\ SigLen - 1 = room
  BY TraceAssumption
<1>2. f \in Chars /\ "," \in Chars
  BY DEF Chars, AllFlags
<1>3. n \in Nat /\ Cardinality(SetUpTo(F, k)) = n + 1 /\ Place(F, k) = 2 * n + 1
  <2>1. Cardinality(SetUpTo(F, (k - 1) + 1)) = n + 1 /\ n \in Nat
    BY <1>1, SetUpToCounts
  <2>2. Cardinality(SetUpTo(F, k)) = n + 1
    BY <1>1, <2>1
  <2> HIDE DEF n
  <2> QED
    BY <2>1, <2>2 DEF Place
<1>4. \A j \in 1..(k - 1) : Flags[j] \in F =>
            /\ Place(F, j) \in Nat /\ Place(F, j) >= 1
            /\ Place(F, j) <= 2 * n - 1
  <2> SUFFICES ASSUME NEW j \in 1..(k - 1), Flags[j] \in F
               PROVE  /\ Place(F, j) \in Nat /\ Place(F, j) >= 1
                      /\ Place(F, j) <= 2 * n - 1
    OBVIOUS
  <2> DEFINE r == Cardinality(SetUpTo(F, j))
  <2>1. r <= n /\ r >= 1
    BY <1>1, SetUpToCounts
  <2>2. j \in Nat
    OBVIOUS
  <2>3. r \in Nat
    BY <2>2, SetUpToCounts
  <2>4. Place(F, j) = 2 * r - 1
    BY DEF Place
  <2> HIDE DEF r, n
  <2> QED
    BY <1>3, <2>1, <2>3, <2>4
<1>5. /\ b \in Buffers /\ b.left >= 1 /\ Len(b.text) + b.left = SigLen
      /\ b.first \in BOOLEAN /\ (b.first <=> n = 0)
      /\ Len(b.text) \in Nat /\ Len(b.text) = Cut(n)
      /\ \A j \in 1..(k - 1) : Flags[j] \in F /\ Place(F, j) <= Len(b.text)
                                => b.text[Place(F, j)] = Flags[j]
      /\ \A j \in Nat : 1 <= j /\ 2 * j <= Len(b.text)
                                => b.text[2 * j] = ","
  BY LenProperties DEF BufferOK, Buffers
<1>6. /\ a \in Buffers /\ a.left >= 1 /\ Len(a.text) + a.left = SigLen
      /\ Len(a.text) \in Nat
      /\ Len(a.text) = IF n # 0 /\ Len(b.text) < room
                         THEN Len(b.text) + 1 ELSE Len(b.text)
      /\ \A j \in 1..Len(b.text) : a.text[j] = b.text[j]
      /\ n # 0 /\ Len(b.text) < room => a.text[Len(b.text) + 1] = ","
  <2>1. CASE b.first
    <3>1. a = b /\ n = 0
      BY <1>5, <2>1
    <3> HIDE DEF a, n
    <3> QED
      BY <1>5, <3>1
  <2>2. CASE ~b.first
    <3>1. a = Put(b, ",") /\ n # 0
      BY <1>5, <2>2
    <3> HIDE DEF a, n
    <3>2. /\ a \in Buffers /\ a.left >= 1 /\ Len(a.text) + a.left = SigLen
          /\ Len(a.text) = IF Len(b.text) < SigLen - 1
                             THEN Len(b.text) + 1 ELSE Len(b.text)
          /\ \A j \in 1..Len(b.text) : a.text[j] = b.text[j]
          /\ Len(b.text) < SigLen - 1 => a.text[Len(b.text) + 1] = ","
      BY <1>2, <1>5, <3>1, PutGives
    <3>4. Len(a.text) \in Nat
      BY <3>2, LenProperties DEF Buffers
    <3> HIDE DEF room
    <3> QED
      BY <1>1, <3>1, <3>2, <3>4
  <2> QED
    BY <2>1, <2>2
<1> HIDE DEF n, a
<1>7. /\ p \in Buffers /\ p.left >= 1 /\ Len(p.text) + p.left = SigLen
      /\ Len(p.text) = IF Len(a.text) < room
                         THEN Len(a.text) + 1 ELSE Len(a.text)
      /\ \A j \in 1..Len(a.text) : p.text[j] = a.text[j]
      /\ Len(a.text) < room => p.text[Len(a.text) + 1] = f
  BY <1>2, <1>6, PutGives
<1>8. q = [p EXCEPT !.first = FALSE]
  BY DEF csflagBit, a
<1> HIDE DEF p, f
<1>9. q \in Buffers /\ q.text = p.text /\ q.left = p.left /\ ~q.first
  <2>1. FALSE \in BOOLEAN
    OBVIOUS
  <2>2. q \in Buffers
    BY <1>7, <1>8, <2>1, Zenon DEF Buffers
  <2> QED
    BY <1>7, <1>8, <2>2 DEF Buffers
<1> HIDE DEF room
<1>10. Len(b.text) = IF (IF n = 0 THEN 0 ELSE 2 * n - 1) < room
                       THEN IF n = 0 THEN 0 ELSE 2 * n - 1 ELSE room
  BY <1>1, <1>5 DEF Cut
<1> DEFINE lb == Len(b.text)
           la == Len(a.text)
           lp == Len(p.text)
<1>11. /\ lp = IF 2 * n + 1 < room THEN 2 * n + 1 ELSE room
       /\ 2 * n + 1 <= lp => la = 2 * n /\ la < room
       /\ \A m \in Nat : 1 <= m /\ m <= 2 * n - 1 /\ m <= lp
                => m \in 1..lb /\ m \in 1..la
       /\ \A m \in Nat : 1 <= m /\ m <= lb => m \in 1..lb /\ m \in 1..la
       /\ \A j \in Nat : 1 <= j /\ 2 * j <= lp /\ ~(2 * j <= lb)
                => /\ n # 0 /\ lb < room /\ lb + 1 = 2 * j
                   /\ 2 * j \in 1..la
  <2>1. lb \in Nat /\ la \in Nat
    BY <1>5, <1>6
  <2>1a. lp \in Nat
    BY <1>7, <2>1
  <2>2. la = IF n # 0 /\ lb < room THEN lb + 1 ELSE lb
    BY <1>6
  <2>3. lp = IF la < room THEN la + 1 ELSE la
    BY <1>7
  <2>4. lb = IF (IF n = 0 THEN 0 ELSE 2 * n - 1) < room
               THEN IF n = 0 THEN 0 ELSE 2 * n - 1 ELSE room
    BY <1>10
  <2> HIDE DEF lb, la, lp
  <2> QED
    BY <1>1, <1>3, <2>1, <2>1a, <2>2, <2>3, <2>4, Lengths
<1>12. Len(p.text) = Cut(n + 1)
  BY <1>1, <1>3, <1>11 DEF Cut
<1>13. ASSUME NEW j \in 1..k, Flags[j] \in F, Place(F, j) <= Len(p.text)
       PROVE  p.text[Place(F, j)] = Flags[j]
  <2>1. CASE j = k
    <3>1. 2 * n + 1 <= Len(p.text) /\ Place(F, j) = 2 * n + 1
      BY <1>3, <1>13, <2>1
    <3>2. Len(a.text) = 2 * n /\ Len(a.text) < room
      BY <1>11, <3>1
    <3>3. p.text[2 * n + 1] = f
      BY <1>7, <3>2
    <3> QED
      BY <2>1, <3>1, <3>3 DEF f
  <2>2. CASE j # k
    <3>1. j \in 1..(k - 1)
      BY <1>1, <2>2
    <3>2. /\ Place(F, j) \in Nat /\ Place(F, j) >= 1
          /\ Place(F, j) <= 2 * n - 1
      BY <1>4, <1>13, <3>1
    <3> DEFINE m == Place(F, j)
    <3>3. m \in 1..Len(b.text) /\ m \in 1..Len(a.text) /\ m <= Len(b.text)
      <4>1. m \in Nat /\ 1 <= m /\ m <= 2 * n - 1 /\ m <= lp
        BY <1>13, <3>2
      <4> HIDE DEF m
      <4>2. m \in 1..lb /\ m \in 1..la
        BY <1>11, <4>1
      <4>3. lb \in Nat
        BY <1>5
      <4> QED
        BY <4>2, <4>3
    <3>4. b.text[m] = Flags[j]
      BY <1>5, <1>13, <3>1, <3>3
    <3> HIDE DEF m
    <3>5. p.text[m] = Flags[j]
      BY <1>6, <1>7, <3>3, <3>4
    <3> QED
      BY <3>5 DEF m
  <2> QED
    BY <2>1, <2>2
<1>14. ASSUME NEW j \in Nat, 1 <= j, 2 * j <= Len(p.text)
       PROVE  p.text[2 * j] = ","
  <2>1. CASE 2 * j <= Len(b.text)
    <3>0. 2 * j \in Nat /\ 1 <= 2 * j
      BY <1>14
    <3>1. 2 * j \in 1..Len(b.text) /\ 2 * j \in 1..Len(a.text)
      BY <1>11, <2>1, <3>0
    <3>2. b.text[2 * j] = ","
      BY <1>5, <1>14, <2>1
    <3> QED
      BY <1>6, <1>7, <3>1, <3>2
  <2>2. CASE ~(2 * j <= Len(b.text))
    <3>1. /\ n # 0 /\ Len(b.text) < room
          /\ Len(b.text) + 1 = 2 * j /\ 2 * j \in 1..Len(a.text)
      BY <1>11, <1>14, <2>2
    <3>2. a.text[2 * j] = ","
      BY <1>6, <3>1
    <3> QED
      BY <1>7, <3>1, <3>2
  <2> QED
    BY <2>1, <2>2
<1>15. Cardinality(SetUpTo(F, k)) # 0
  BY <1>3
<1> QED
  BY <1>3, <1>7, <1>9, <1>12, <1>13, <1>14, <1>15 DEF BufferOK

\* CSFLAG_BIT() for the k-th flag when it is not set.
LEMMA BufferKept ==
    ASSUME NEW F \in SUBSET AllFlags, NEW k \in 1..Len(Flags), Flags[k] \notin F,
           NEW b, BufferOK(b, F, k - 1)
    PROVE  BufferOK(b, F, k)
<1>1. k \in Nat /\ SetUpTo(F, k) = SetUpTo(F, k - 1)
  BY DEF SetUpTo
<1>2. ASSUME NEW j \in 1..k, Flags[j] \in F
      PROVE  j \in 1..(k - 1)
  BY <1>2
<1> QED
  BY <1>1, <1>2 DEF BufferOK

\* The buffer is right after any number of tests: no test is the first to
\* spoil it.
LEMMA TestedOK ==
    ASSUME NEW F \in SUBSET AllFlags, NEW k \in 0..Len(Flags)
    PROVE  BufferOK(Tested[k][F], F, k)
<1> DEFINE Bad == {n \in Nat : n <= Len(Flags) /\ ~BufferOK(Tested[n][F], F, n)}
<1>0. Len(Flags) \in Nat
  BY TraceAssumption
<1> SUFFICES ASSUME Bad # {} PROVE FALSE
  BY <1>0
<1>1. PICK n \in Bad : \A m \in Bad : n <= m
  <2>1. Bad \in SUBSET Nat
    OBVIOUS
  <2> HIDE DEF Bad
  <2> QED
    BY <2>1, Least, Zenon
<1>2. n \in 0..Len(Flags) /\ ~BufferOK(Tested[n][F], F, n)
  BY <1>0
<1>3. Tested[n] = Row(Tested[n - 1], n)
  <2>1. \A m \in 0..Len(Flags) :
            [j \in 0..Len(Flags) |-> Row(Tested[j - 1], j)][m]
                = Row(Tested[m - 1], m)
    OBVIOUS
  <2> QED
    BY <1>2, <2>1, TestedEquation
<1>4. Tested[n][F] = IF n = 0 THEN Empty
                     ELSE IF Flags[n] \in F
                       THEN csflagBit(Tested[n - 1][F], Flags[n])
                       ELSE Tested[n - 1][F]
  BY <1>3 DEF Row
<1>5. CASE n = 0
  <2>1. Tested[n][F] = Empty
    BY <1>4, <1>5
  <2>2. SetUpTo(F, n) = {} /\ Cardinality(SetUpTo(F, n)) = 0
    <3>1. SetUpTo(F, n) = {}
      BY <1>5 DEF SetUpTo
    <3> QED
      BY <3>1, FS_EmptySet
  <2>3. SigLen \in Nat /\ SigLen >= 1
    BY TraceAssumption
  <2>4. /\ Empty.text = <<>> /\ Empty.left = SigLen /\ Empty.first
        /\ Len(<<>>) = 0 /\ <<>> \in Seq(Chars)
    BY DEF Empty
  <2>5. Empty \in Buffers
    <3>1. TRUE \in BOOLEAN
      OBVIOUS
    <3> QED
      BY <2>3, <2>4, <3>1, Zenon DEF Empty, Buffers
  <2>6. Cut(0) = 0
    BY <2>3 DEF Cut
  <2>7. BufferOK(Empty, F, n)
    <3>1. /\ Empty.left >= 1 /\ Len(Empty.text) = 0
          /\ Len(Empty.text) + Empty.left = SigLen
      BY <2>3, <2>4
    <3>2. \A j \in 1..n : FALSE
      BY <1>5
    <3>3. \A j \in Nat : ~(1 <= j /\ 2 * j <= Len(Empty.text))
      BY <3>1
    <3> HIDE DEF Empty
    <3> QED
      BY <2>2, <2>4, <2>5, <2>6, <3>1, <3>2, <3>3 DEF BufferOK
  <2> QED
    BY <1>2, <2>1, <2>7
<1>6. CASE n # 0
  <2>1. /\ n \in 1..Len(Flags) /\ n - 1 \in Nat /\ n - 1 <= Len(Flags)
        /\ ~(n <= n - 1)
    BY <1>0, <1>2, <1>6
  <2>2. n - 1 \notin Bad
    BY <1>1, <2>1
  <2>3. BufferOK(Tested[n - 1][F], F, n - 1)
    BY <2>1, <2>2
  <2>4. CASE Flags[n] \in F
    <3>1. Tested[n][F] = csflagBit(Tested[n - 1][F], Flags[n])
      BY <1>4, <1>6, <2>4
    <3> QED
      BY <1>2, <2>1, <2>3, <2>4, <3>1, BufferStep
  <2>5. CASE Flags[n] \notin F
    <3>1. Tested[n][F] = Tested[n - 1][F]
      BY <1>4, <1>6, <2>5
    <3> QED
      BY <1>2, <2>1, <2>3, <2>5, <3>1, BufferKept
  <2> QED
    BY <2>4, <2>5
<1> QED
  BY <1>5, <1>6

\* spawn.c:19-59: whatever flags are set, and however small the buffer, the
\* text is theirs in order, cut where the buffer ends.
LEMMA BitsSpelled ==
    ASSUME NEW F \in SUBSET AllFlags
    PROVE  Len(csflag_bits(F)) < SigLen /\ Spelled(F, csflag_bits(F))
<1> DEFINE text == csflag_bits(F)
           n == Cardinality(SetUpTo(F, Len(Flags)))
<1>1. Len(Flags) \in 0..Len(Flags) /\ SigLen \in Nat /\ SigLen >= 1
  BY TraceAssumption
<1>2. BufferOK(Tested[Len(Flags)][F], F, Len(Flags))
  BY <1>1, TestedOK
<1>3. /\ Len(text) = Cut(n)
      /\ \A j \in 1..Len(Flags) : Flags[j] \in F /\ Place(F, j) <= Len(text)
                            => text[Place(F, j)] = Flags[j]
      /\ \A j \in Nat : 1 <= j /\ 2 * j <= Len(text) => text[2 * j] = ","
  BY <1>2 DEF BufferOK, csflag_bits
<1>4. n \in Nat
  BY TraceAssumption, SetUpToCounts
<1> HIDE DEF n, text
<1>5. Len(text) \in Nat /\ Len(text) < SigLen
  <2>1. Cut(n) \in Nat /\ Cut(n) < SigLen
    BY <1>1, <1>4 DEF Cut
  <2> QED
    BY <1>3, <2>1
<1>6. \A j \in 1..Len(text) : 2 * j <= Len(text) => text[2 * j] = ","
  <2>1. \A j \in 1..Len(text) : j \in Nat /\ 1 <= j
    BY <1>5
  <2> QED
    BY <1>3, <2>1
<1> QED
  BY <1>3, <1>5, <1>6 DEF Spelled, Cut, n, text

\* kernel.h:224-254: the copy ends in the buffer and within the name.
LEMMA NameCopied ==
    ASSUME NEW c \in NameLens \cup {Nobody}
    PROVE  cnp_name(c) < NameMax /\ (c # Nobody => cnp_name(c) <= c)
<1>1. NameMax \in Nat /\ NameMax >= 1 /\ NameLens \subseteq Nat
  BY TraceAssumption
<1>2. CASE c = Nobody
  BY <1>1, <1>2 DEF cnp_name
<1>3. CASE c # Nobody
  <2>1. c \in Nat
    BY <1>1, <1>3
  <2> QED
    BY <1>1, <1>3, <2>1 DEF cnp_name
<1> QED
  BY <1>2, <1>3

\* What a thread has copied or spelled last is what the two functions give
\* for a name and for flags a hook was called with.
OutOK(t) ==
    /\ out[t][1] = "copied" =>
        out[t][2] \in NameLens \cup {Nobody} /\ out[t][3] = cnp_name(out[t][2])
    /\ out[t][1] = "flags" =>
        out[t][2] \in SUBSET AllFlags /\ out[t][3] = csflag_bits(out[t][2])

OutInv == \A t \in Threads : OutOK(t)

\* Names and flags still to be copied are such arguments.
LEMMA PieceData ==
    ASSUME NEW x \in Pieces
    PROVE  /\ x[1] = "component" => x[2] \in NameLens \cup {Nobody}
           /\ x[1] = "flags" => x[2] \in SUBSET AllFlags
  BY DEF Pieces

LEMMA OutStep == TypeInv /\ CallInv /\ OutInv /\ [Next]_vars => OutInv'
<1> SUFFICES ASSUME TypeInv, CallInv, OutInv, [Next]_vars, NEW u \in Threads
             PROVE  OutOK(u)'
  BY DEF OutInv
<1>0. OutOK(u)
  BY DEF OutInv
<1>1. CASE out'[u] = out[u]
  BY <1>0, <1>1 DEF OutOK
<1>2. CASE \E p \in Procs : Spawn(p) \/ StartExit(p) \/ Reap(p)
  BY <1>1, <1>2 DEF Spawn, StartExit, Reap
<1>3. ASSUME NEW t \in Threads, Call(t)
      PROVE  OutOK(u)'
  BY <1>1, <1>3, CallEnters DEF Enter
<1>4. ASSUME NEW t \in Threads, Hook(t)
      PROVE  OutOK(u)'
  <2>0. CallOK(t)
    BY DEF CallInv
  <2>1. CASE u # t \/ Gate(t) \/ FindIdent(t) \/ Release(t) \/ Return(t)
    <3>1. out'[u] = out[u]
      BY <1>4, <2>1
         DEF Hook, Gate, NameKernel, NameExited, FindIdent, NameIdent,
             Release, NameProc, CopyName, SpellFlags, LogDebug, Return,
             Collected, TypeInv
    <3> QED
      BY <1>1, <3>1
  <2>2. CASE u = t /\ (NameKernel(t) \/ NameExited(t) \/ NameIdent(t)
                        \/ NameProc(t))
    <3>1. out'[u][1] = "name"
      BY <2>2
         DEF NameKernel, NameExited, NameIdent, NameProc, Collected, TypeInv
    <3> QED
      BY <3>1 DEF OutOK
  <2>3. CASE u = t /\ CopyName(t)
    <3>1. /\ out'[u] = <<"copied", Arg(t), cnp_name(Arg(t))>>
          /\ todo[t] # <<>> /\ Head(todo[t])[1] = "component"
      BY <2>3 DEF CopyName, NextIs, Collected, TypeInv
    <3>2. Arg(t) \in NameLens \cup {Nobody}
      BY <2>0, <3>1, TailFits, PieceData DEF Arg
    <3> QED
      BY <3>1, <3>2 DEF OutOK
  <2>4. CASE u = t /\ SpellFlags(t)
    <3>1. /\ out'[u] = <<"flags", Arg(t), csflag_bits(Arg(t))>>
          /\ todo[t] # <<>> /\ Head(todo[t])[1] = "flags"
      BY <2>4 DEF SpellFlags, NextIs, Collected, TypeInv
    <3>2. Arg(t) \in SUBSET AllFlags
      BY <2>0, <3>1, TailFits, PieceData DEF Arg
    <3> QED
      BY <3>1, <3>2 DEF OutOK
  <2>5. CASE u = t /\ LogDebug(t)
    <3>1. out'[u] = <<"nothing">>
      BY <2>5 DEF LogDebug, Nothing, TypeInv
    <3> QED
      BY <3>1 DEF OutOK
  <2> QED
    BY <1>4, <2>1, <2>2, <2>3, <2>4, <2>5 DEF Hook
<1>5. CASE WriteTrace \/ UNCHANGED vars
  BY <1>1, <1>5 DEF WriteTrace, vars
<1> QED
  BY <1>2, <1>3, <1>4, <1>5 DEF Next

LEMMA OutInductive == Spec => []OutInv
<1>1. Init => OutInv
  <2> SUFFICES ASSUME Init, NEW t \in Threads
               PROVE  OutOK(t)
    BY DEF OutInv
  <2>1. out[t] = <<"nothing">>
    BY DEF Init, Nothing
  <2> QED
    BY <2>1 DEF OutOK
<1>2. TraceInv /\ OutInv /\ [Next]_vars => OutInv'
  BY OutStep DEF TraceInv
<1> QED
  BY <1>1, <1>2, TraceInductive, PTL DEF Spec

\* kernel.h:224-254, spawn.c:19-59: for names of any length, buffers of any
\* size and any set of flags, nothing is written beyond a trace buffer and
\* nothing is read beyond a name.
THEOREM TraceInBuffer == Spec => []InBuffer
<1>1. OutInv => InBuffer
  <2> SUFFICES ASSUME OutInv, NEW t \in Threads
               PROVE  /\ out[t][1] = "copied" =>
                            /\ out[t][3] < NameMax
                            /\ out[t][2] # Nobody => out[t][3] <= out[t][2]
                      /\ out[t][1] = "flags" => Len(out[t][3]) < SigLen
    BY DEF InBuffer
  <2>1. OutOK(t)
    BY DEF OutInv
  <2> QED
    BY <2>1, NameCopied, BitsSpelled DEF OutOK
<1> QED
  BY <1>1, OutInductive, PTL

\* spawn.c:19-59: whatever flags are set, and however small the buffer, the
\* line shows them in the order of the tests and drops only the end.
THEOREM TraceFlagsSpelled == Spec => []FlagsSpelled
<1>1. OutInv => FlagsSpelled
  BY BitsSpelled DEF OutInv, OutOK, FlagsSpelled
<1> QED
  BY <1>1, OutInductive, PTL

-----------------------------------------------------------------------------
(* What ReapCompletes needs of the hooks.                                  *)

\* proc.c:38-45: a hook holds a reference from
\* proc_find_ident() to proc_rele() and at no other time, so that none is left
\* on any process when no thread is between the two: what has begun to exit
\* can be reaped then.
NoneLeftBehind ==
    (\A t \in Threads : pc[t] \notin {"name", "rele"})
        => \A p \in Procs : refs[p] = 0

\* For any number of threads and processes: the safety half of ReapCompletes.
THEOREM TraceNoneLeftBehind == Spec => []NoneLeftBehind
<1>1. TraceInv => NoneLeftBehind
  <2> SUFFICES ASSUME TraceInv, \A t \in Threads : pc[t] \notin {"name", "rele"},
                      NEW p \in Procs
               PROVE  refs[p] = 0
    BY DEF NoneLeftBehind
  <2>1. \A t \in Threads : ref[t] = Nobody
    BY DEF TraceInv, CallInv, CallOK
  <2>2. Nobody \notin Procs
    BY TraceAssumption
  <2>3. Holders(p) = {}
    BY <2>1, <2>2 DEF Holders
  <2> QED
    BY <2>3, FS_EmptySet DEF TraceInv, RefInv
<1> QED
  BY <1>1, TraceInductive, PTL
=============================================================================
