----------------------------- MODULE TraceHooks -----------------------------
(***************************************************************************)
(* The hooks that only trace, on threads that run beside fork, exit and a  *)
(* recycled pid.  A call collects what its line reports, piece by piece:   *)
(* the names of processes given by proc_ident_t or struct proc, the file   *)
(* name components, the code-signing flags.  What proc_selfname() reads    *)
(* off the current process takes no lock and is left out.                  *)
(***************************************************************************)
EXTENDS Integers, FiniteSets, Sequences

CONSTANTS
    Threads,    \* kernel threads that run hooks
    Procs,      \* process instances: what a proc_ident_t identifies
    Pids,       \* their numbers, used again after a process is gone
    Nobody,     \* no process, no lock owner, a null pointer
    Flags,      \* the CS_* bits in the order sebsd_csflag_bits() tests them
    SigLen,     \* sizeof(sig)
    NameMax,    \* SEBSD_TRACE_NAME_MAX
    NameLens    \* values of cn_namelen

ASSUME TraceAssumption ==
    /\ IsFiniteSet(Threads) /\ Nobody \notin Threads \cup Procs
    /\ SigLen \in Nat \ {0} /\ NameMax \in Nat \ {0}
    /\ NameLens \subseteq Nat
    /\ Flags \in Seq({Flags[k] : k \in 1..Len(Flags)})

VARIABLES
    trace,      \* sebsd_trace_enabled # 0
    listLock,   \* the owner of the kernel's proc_list_lock
    life,       \* what has become of each process
    pid,        \* p_pid
    refs,       \* references that keep a process from being reaped
    pc,         \* where each thread is in its hook
    wanted,     \* the hook's own filter lets the event through
    subject,    \* the struct proc argument, kept alive by the caller
    todo,       \* the pieces still to collect
    ref,        \* the process that sebsd_ident_name() has referenced
    out,        \* the piece collected last
    seenOn      \* history: tracing was on at some time during the call

procVars == <<life, pid, refs>>
callVars == <<wanted, subject, seenOn>>
vars == <<trace, listLock, procVars, pc, callVars, todo, ref, out>>

Nothing == <<"nothing">>
AllFlags == {Flags[k] : k \in 1..Len(Flags)}
Pieces ==
    {<<"ident", p>> : p \in Procs \cup {Nobody}}
        \cup {<<"proc", p>> : p \in Procs}
        \cup {<<"component", n>> : n \in NameLens \cup {Nobody}}
        \cup {<<"flags", F>> : F \in SUBSET AllFlags}

TypeOK ==
    /\ trace \in BOOLEAN
    /\ listLock \in Threads \cup {Nobody}
    /\ life \in [Procs -> {"unborn", "alive", "exiting", "gone"}]
    /\ pid \in [Procs -> Pids]
    /\ refs \in [Procs -> 0..Cardinality(Threads)]
    /\ pc \in [Threads -> {"idle", "gate", "collect", "name", "rele", "done"}]
    /\ wanted \in [Threads -> BOOLEAN]
    /\ subject \in [Threads -> Procs \cup {Nobody}]
    /\ \A t \in Threads : \A k \in 1..Len(todo[t]) : todo[t][k] \in Pieces
    /\ ref \in [Threads -> Procs \cup {Nobody}]
    /\ seenOn \in [Threads -> BOOLEAN]

Init ==
    /\ trace = FALSE
    /\ listLock = Nobody
    /\ life = [p \in Procs |-> "unborn"]
    /\ pid \in [Procs -> Pids]
    /\ refs = [p \in Procs |-> 0]
    /\ pc = [t \in Threads |-> "idle"]
    /\ wanted = [t \in Threads |-> TRUE]
    /\ subject = [t \in Threads |-> Nobody]
    /\ todo = [t \in Threads |-> <<>>]
    /\ ref = [t \in Threads |-> Nobody]
    /\ out = [t \in Threads |-> Nothing]
    /\ seenOn = [t \in Threads |-> FALSE]

-----------------------------------------------------------------------------
\* The kernel's side: a pid is free again once its process is reaped, and
\* that waits for the references on it.
Spawn(p) ==
    /\ life[p] = "unborn"
    /\ \A q \in Procs : pid[q] = pid[p] => life[q] \in {"unborn", "gone"}
    /\ life' = [life EXCEPT ![p] = "alive"]
    /\ UNCHANGED <<trace, listLock, pid, refs, pc, callVars, todo, ref, out>>

StartExit(p) ==
    /\ life[p] = "alive"
    /\ \A t \in Threads : subject[t] # p
    /\ life' = [life EXCEPT ![p] = "exiting"]
    /\ UNCHANGED <<trace, listLock, pid, refs, pc, callVars, todo, ref, out>>

Reap(p) ==
    /\ life[p] = "exiting"
    /\ refs[p] = 0
    /\ life' = [life EXCEPT ![p] = "gone"]
    /\ UNCHANGED <<trace, listLock, pid, refs, pc, callVars, todo, ref, out>>

\* proc_find(pid): the process that answers to a number now, if any.
FindPid(n) ==
    IF \E p \in Procs : life[p] = "alive" /\ pid[p] = n
      THEN CHOOSE p \in Procs : life[p] = "alive" /\ pid[p] = n
      ELSE Nobody

\* sedarwin.trace is written.
WriteTrace ==
    /\ trace' = ~trace
    /\ seenOn' = [t \in Threads |-> seenOn[t] \/ (trace' /\ pc[t] # "idle")]
    /\ UNCHANGED <<listLock, procVars, pc, wanted, subject, todo, ref, out>>

-----------------------------------------------------------------------------
\* The framework calls a hook; the caller may hold proc_list_lock.
Enter(t, filter, proc, pieces, held) ==
    /\ pc[t] = "idle"
    /\ held => listLock = Nobody
    /\ listLock' = IF held THEN t ELSE listLock
    /\ pc' = [pc EXCEPT ![t] = "gate"]
    /\ wanted' = [wanted EXCEPT ![t] = filter]
    /\ subject' = [subject EXCEPT ![t] = proc]
    /\ todo' = [todo EXCEPT ![t] = pieces]
    /\ seenOn' = [seenOn EXCEPT ![t] = trace]
    /\ UNCHANGED <<trace, procVars, ref, out>>

\* Hooks that report the current process and plain arguments only.
vnode_check_open(t) == Enter(t, TRUE, Nobody, <<>>, FALSE)
spawn_notify_exec_complete(t) == Enter(t, TRUE, Nobody, <<>>, FALSE)
file_check_mmap(t) == Enter(t, TRUE, Nobody, <<>>, FALSE)
proc_check_fork(t) == Enter(t, TRUE, Nobody, <<>>, FALSE)
socket_check_create(t) == Enter(t, TRUE, Nobody, <<>>, FALSE)
socket_check_listen(t) == Enter(t, TRUE, Nobody, <<>>, FALSE)

\* The address may be NULL; formatting it is bounded by snprintf().
socket_check_connect(t) ==
    \E hasAddr \in BOOLEAN : Enter(t, hasAddr, Nobody, <<>>, FALSE)

\* A struct componentname: the length of its name, or a null pointer.
Components == NameLens \cup {Nobody}

vnode_check_create(t) ==
    \E c \in Components :
        Enter(t, TRUE, Nobody, << <<"component", c>> >>, FALSE)

vnode_check_unlink(t) ==
    \E c \in Components :
        Enter(t, TRUE, Nobody, << <<"component", c>> >>, FALSE)

vnode_check_rename(t) ==
    \E from, to \in Components :
        Enter(t, TRUE, Nobody,
              << <<"component", from>>, <<"component", to>> >>, FALSE)

\* csflags may be NULL, which is no flag.
spawn_check_exec(t) ==
    \E F \in SUBSET AllFlags :
        Enter(t, TRUE, Nobody, << <<"flags", F>> >>, FALSE)

file_check_library_validation(t) ==
    \E p \in Procs :
        /\ life[p] = "alive"
        /\ Enter(t, TRUE, p, << <<"proc", p>> >>, FALSE)

pty_notify_grant(t) ==
    \E p \in Procs :
        /\ life[p] = "alive"
        /\ Enter(t, TRUE, p, << <<"proc", p>> >>, FALSE)

\* Exit and signal delivery may run with proc_list_lock held.
proc_notify_exit(t) ==
    \E p \in Procs, held \in BOOLEAN :
        /\ life[p] = "alive"
        /\ Enter(t, TRUE, p, << <<"proc", p>> >>, held)

\* An ident outlives its process, so either may be of one that is gone.
proc_check_signal(t) ==
    \E i \in Procs \cup {Nobody}, p \in Procs,
       traced \in BOOLEAN, held \in BOOLEAN :
        /\ i # Nobody => life[i] # "unborn"
        /\ life[p] # "unborn"
        /\ Enter(t, traced, Nobody, << <<"ident", i>>, <<"ident", p>> >>, held)

-----------------------------------------------------------------------------
Goto(t, from, to) == pc[t] = from /\ pc' = [pc EXCEPT ![t] = to]

\* Mutant: the hook's own filter decides alone.
GateUntested(t) ==
    /\ Goto(t, "gate", IF wanted[t] THEN "collect" ELSE "done")
    /\ todo' = [todo EXCEPT ![t] = IF wanted[t] THEN @ ELSE <<>>]
    /\ wanted' = [wanted EXCEPT ![t] = TRUE]
    /\ UNCHANGED <<trace, listLock, procVars, subject, seenOn, ref, out>>

\* if (!sebsd_tracing()) return, and then the hook's own filter.
Gate(t) ==
    /\ Goto(t, "gate", IF trace /\ wanted[t] THEN "collect" ELSE "done")
    /\ todo' = [todo EXCEPT ![t] = IF trace /\ wanted[t] THEN @ ELSE <<>>]
    /\ wanted' = [wanted EXCEPT ![t] = TRUE]
    /\ UNCHANGED <<trace, listLock, procVars, subject, seenOn, ref, out>>

NextIs(t, kind) ==
    pc[t] = "collect" /\ todo[t] # <<>> /\ Head(todo[t])[1] = kind

Arg(t) == Head(todo[t])[2]

\* A piece is done: what it shows goes to the line.
Collected(t, piece) ==
    /\ todo' = [todo EXCEPT ![t] = Tail(@)]
    /\ out' = [out EXCEPT ![t] = piece]

\* A null ident is the kernel: the name is <kernel>.
NameKernel(t) ==
    /\ NextIs(t, "ident")
    /\ Arg(t) = Nobody
    /\ Collected(t, <<"name", Nobody, Nobody>>)
    /\ UNCHANGED <<trace, listLock, procVars, pc, callVars, ref>>

\* proc_find_ident() finds the process gone: the name is <exited>.
NameExited(t) ==
    /\ NextIs(t, "ident")
    /\ Arg(t) # Nobody /\ listLock = Nobody
    /\ life[Arg(t)] # "alive"
    /\ Collected(t, <<"name", Arg(t), Nobody>>)
    /\ UNCHANGED <<trace, listLock, procVars, pc, callVars, ref>>

\* Mutant: the process is looked up by the number in the ident.
FindIdentByPid(t) ==
    /\ NextIs(t, "ident")
    /\ Arg(t) # Nobody /\ listLock = Nobody
    /\ LET p == FindPid(pid[Arg(t)])
       IN  /\ p # Nobody
           /\ refs' = [refs EXCEPT ![p] = @ + 1]
           /\ ref' = [ref EXCEPT ![t] = p]
    /\ Goto(t, "collect", "name")
    /\ UNCHANGED <<trace, listLock, life, pid, callVars, todo, out>>

\* proc_find_ident() takes the list lock, finds this very process, and
\* takes a reference on it.
FindIdent(t) ==
    /\ NextIs(t, "ident")
    /\ Arg(t) # Nobody /\ listLock = Nobody
    /\ life[Arg(t)] = "alive"
    /\ refs' = [refs EXCEPT ![Arg(t)] = @ + 1]
    /\ ref' = [ref EXCEPT ![t] = Arg(t)]
    /\ Goto(t, "collect", "name")
    /\ UNCHANGED <<trace, listLock, life, pid, callVars, todo, out>>

\* proc_name(proc_pid(p)) goes by the number and takes the list lock again.
\* A process that has begun to exit is not found; the name is empty then.
NameIdent(t) ==
    /\ Goto(t, "name", "rele")
    /\ listLock = Nobody
    /\ Collected(t, <<"name", Arg(t), FindPid(pid[ref[t]])>>)
    /\ UNCHANGED <<trace, listLock, procVars, callVars, ref>>

\* Mutant: the reference is never dropped.
ReleaseForgotten(t) ==
    /\ Goto(t, "rele", "collect")
    /\ ref' = [ref EXCEPT ![t] = Nobody]
    /\ UNCHANGED <<trace, listLock, procVars, callVars, todo, out>>

\* Mutant: the reference is dropped twice.
ReleaseTwice(t) ==
    /\ Goto(t, "rele", "collect")
    /\ refs' = [refs EXCEPT ![ref[t]] = @ - 2]
    /\ ref' = [ref EXCEPT ![t] = Nobody]
    /\ UNCHANGED <<trace, listLock, life, pid, callVars, todo, out>>

\* proc_rele(p)
Release(t) ==
    /\ Goto(t, "rele", "collect")
    /\ refs' = [refs EXCEPT ![ref[t]] = @ - 1]
    /\ ref' = [ref EXCEPT ![t] = Nobody]
    /\ UNCHANGED <<trace, listLock, life, pid, callVars, todo, out>>

\* sebsd_proc_name(proc_pid(p))
NameProc(t) ==
    /\ NextIs(t, "proc")
    /\ listLock = Nobody
    /\ Collected(t, <<"name", Arg(t), FindPid(pid[Arg(t)])>>)
    /\ UNCHANGED <<trace, listLock, procVars, pc, callVars, ref>>

-----------------------------------------------------------------------------
\* Mutant: a name of exactly the buffer's size is copied whole.
cnp_nameWhole(c) ==
    IF c = Nobody THEN 6 ELSE IF c > NameMax THEN NameMax - 1 ELSE c

\* sebsd_cnp_name(): the bytes copied, and so the index of the NUL.  The
\* six characters of "<none>" go through strlcpy().
cnp_name(c) ==
    IF c = Nobody THEN IF 6 < NameMax THEN 6 ELSE NameMax - 1
    ELSE IF c >= NameMax THEN NameMax - 1 ELSE c

CopyName(t) ==
    /\ NextIs(t, "component")
    /\ Collected(t, <<"copied", Arg(t), cnp_name(Arg(t))>>)
    /\ UNCHANGED <<trace, listLock, procVars, pc, callVars, ref>>

Put(b, c) ==
    IF b.left > 1 THEN [b EXCEPT !.text = Append(@, c), !.left = @ - 1] ELSE b

\* Mutant: first stays set, so that no comma is written.
csflagBitRunOn(b, f) == Put(b, f)

\* CSFLAG_BIT() for a flag that is set.
csflagBit(b, f) ==
    [Put(IF b.first THEN b ELSE Put(b, ","), f) EXCEPT !.first = FALSE]

\* The buffer after the first k tests.
Tested[k \in 0..Len(Flags)] ==
    [F \in SUBSET AllFlags |->
        IF k = 0 THEN [text |-> <<>>, left |-> SigLen, first |-> TRUE]
        ELSE IF Flags[k] \in F THEN csflagBit(Tested[k - 1][F], Flags[k])
        ELSE Tested[k - 1][F]]

csflag_bits(F) == Tested[Len(Flags)][F].text

SpellFlags(t) ==
    /\ NextIs(t, "flags")
    /\ Collected(t, <<"flags", Arg(t), csflag_bits(Arg(t))>>)
    /\ UNCHANGED <<trace, listLock, procVars, pc, callVars, ref>>

\* sebsd_log_debug() tests the switch once more and prints the line.
LogDebug(t) ==
    /\ todo[t] = <<>>
    /\ Goto(t, "collect", "done")
    /\ out' = [out EXCEPT ![t] = Nothing]
    /\ UNCHANGED <<trace, listLock, procVars, callVars, todo, ref>>

\* The hook returns 0 whatever it saw, and its caller drops the lock.
Return(t) ==
    /\ Goto(t, "done", "idle")
    /\ listLock' = IF listLock = t THEN Nobody ELSE listLock
    /\ subject' = [subject EXCEPT ![t] = Nobody]
    /\ seenOn' = [seenOn EXCEPT ![t] = FALSE]
    /\ UNCHANGED <<trace, procVars, wanted, todo, ref, out>>

-----------------------------------------------------------------------------
Call(t) ==
    \/ vnode_check_open(t) \/ vnode_check_create(t) \/ vnode_check_unlink(t)
    \/ vnode_check_rename(t)
    \/ spawn_check_exec(t) \/ spawn_notify_exec_complete(t)
    \/ file_check_mmap(t) \/ file_check_library_validation(t)
    \/ socket_check_create(t) \/ socket_check_connect(t)
    \/ socket_check_listen(t)
    \/ pty_notify_grant(t)
    \/ proc_check_signal(t) \/ proc_check_fork(t) \/ proc_notify_exit(t)

Hook(t) ==
    \/ Gate(t)
    \/ NameKernel(t) \/ NameExited(t) \/ FindIdent(t)
    \/ NameIdent(t) \/ Release(t)
    \/ NameProc(t) \/ CopyName(t) \/ SpellFlags(t)
    \/ LogDebug(t) \/ Return(t)

Next ==
    \/ \E p \in Procs : Spawn(p) \/ StartExit(p) \/ Reap(p)
    \/ WriteTrace
    \/ \E t \in Threads : Call(t) \/ Hook(t)

\* A thread in a hook is run on and a waiter gets the lock in its turn
\* (kernel mutexes wake their waiters); the kernel reaps what it can.
Fairness ==
    /\ \A t \in Threads : SF_vars(Hook(t))
    /\ \A p \in Procs : WF_vars(Reap(p))

Spec == Init /\ [][Next]_vars /\ Fairness

-----------------------------------------------------------------------------
(***************************************************************************)
(* sebsd_ident_name() and sebsd_proc_name() name processes by number, while *)
(* processes exit and numbers are used again: the name they report is that *)
(* of the process the hook was called about, or none because that process  *)
(* is no longer alive.  It is never that of another.                       *)
(***************************************************************************)
NamesRightProcess ==
    \A t \in Threads :
        (out[t][1] = "name" /\ out[t][2] # Nobody) =>
            \/ out[t][3] = out[t][2]
            \/ out[t][3] = Nobody /\ life[out[t][2]] # "alive"

\* The thread needs proc_list_lock while its own caller holds it.
Stuck(t) ==
    /\ listLock = t
    /\ \/ pc[t] = "name"
       \/ NextIs(t, "proc")
       \/ NextIs(t, "ident") /\ Arg(t) # Nobody

(***************************************************************************)
(* kernel.h:178-184 and proc.c:23-25: a signal or an exit that runs with   *)
(* proc_list_lock held can hang on it in a hook only if an operator has    *)
(* turned tracing on during the call or before it.                         *)
(***************************************************************************)
StuckOnlyIfTraced == \A t \in Threads : Stuck(t) => seenOn[t]

(***************************************************************************)
(* The trace buffers are on the kernel stack without a stack protector     *)
(* (kernel.h:224-232): no component or flag string is written beyond its   *)
(* buffer, and no more of a component is read than cn_namelen says.        *)
(***************************************************************************)
InBuffer ==
    \A t \in Threads :
        /\ out[t][1] = "copied" =>
            /\ out[t][3] < NameMax
            /\ out[t][2] # Nobody => out[t][3] <= out[t][2]
        /\ out[t][1] = "flags" => Len(out[t][3]) < SigLen

\* The flags of F among the first k, and where the k-th then is in the text.
SetUpTo(F, k) == {j \in 1..k : Flags[j] \in F}
Place(F, k) == 2 * Cardinality(SetUpTo(F, k)) - 1

(***************************************************************************)
(* sebsd_csflag_bits() spells the flags in order, separated by commas, and *)
(* cuts the text where the buffer ends; what it drops is at the end only.  *)
(***************************************************************************)
Spelled(F, text) ==
    LET n == Cardinality(SetUpTo(F, Len(Flags)))
        full == IF n = 0 THEN 0 ELSE 2 * n - 1
        room == SigLen - 1
    IN  /\ Len(text) = IF full < room THEN full ELSE room
        /\ \A k \in 1..Len(Flags) :
            Flags[k] \in F /\ Place(F, k) <= Len(text)
                => text[Place(F, k)] = Flags[k]
        /\ \A j \in 1..Len(text) : 2 * j <= Len(text) => text[2 * j] = ","

FlagsSpelled ==
    \A t \in Threads : out[t][1] = "flags" => Spelled(out[t][2], out[t][3])

(***************************************************************************)
(* A reference taken by a traced signal (proc_find_ident) does not keep    *)
(* its process from being reaped: unless a hook hangs on the list lock,    *)
(* every process that has begun to exit is gone in the end.                *)
(***************************************************************************)
ReapCompletes ==
    [](\A t \in Threads : ~Stuck(t)) =>
        \A p \in Procs : life[p] = "exiting" ~> life[p] = "gone"
=============================================================================
