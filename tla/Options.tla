------------------------------- MODULE Options -------------------------------
(***************************************************************************)
(* Command-line options of the script layer (hoomd_script/option.py).      *)
(*                                                                         *)
(* When the module is imported with _HOOMD_EXEC set, a fresh options       *)
(* object is created and _parse_command_line validates the arguments and   *)
(* copies them into it, configuring the engine's messenger on the way.     *)
(* Afterwards the job script may call set_notice_level, set_msg_file,      *)
(* set_autotuner_params and get_user in any order; every one of them first *)
(* calls _verify_init.  The messenger (globals.msg) and the MPI execution   *)
(* configuration belong to the engine: they are modelled only by what the  *)
(* calls made here do to them.                                             *)
(*                                                                         *)
(* A command line is abstracted to the raw string value of every option    *)
(* (or None when absent); int() is modelled by PyInt, shlex.split by       *)
(* ShlexSplit, both defined on the finite sets of strings a model uses.    *)
(* Any exception raised while the module is imported ends the process.     *)
(***************************************************************************)
EXTENDS Integers, Sequences, TLC

CONSTANTS
    None,          \* Python None
    NotAnInt,      \* result of int(s) on a string that is not an integer
    IntText,       \* function from integer strings to their value (int())
    WordsText,     \* function from --user strings to their shlex.split
    ModeArgs,      \* values the --mode option may take on the command line
    GpuArgs, NoticeArgs, MsgFileArgs, SharedFileArgs,
    NRankArgs, DomainArgs, UserArgs, FlagArgs,
    NoticeInputs,  \* arguments a script passes to set_notice_level
    Files,         \* file names a script passes to set_msg_file
    Periods,       \* periods a script passes to set_autotuner_params
    NRanksGlobal   \* hoomd.ExecutionConfiguration.getNRanksGlobal()

ASSUME NRanksGlobal \in Nat \ {0}

VARIABLES
    options,   \* globals.options: None or the options record
    msg,       \* the engine messenger: notice level and output sink
    mpi,       \* hoomd.is_MPI_available() of this build
    status,    \* "loading" before import finishes, "running", or "exited"
    exc        \* exception raised by the last call, or None

vars == <<options, msg, mpi, status, exc>>

ExecModes == {"cpu", "gpu", "auto"}
Flags == {"gpu_error_checking", "min_cpu", "ignore_display", "linear", "onelevel"}

\* int(s): the integer a string denotes, or NotAnInt (ValueError)
PyInt(s) == IF s \in DOMAIN IntText THEN IntText[s] ELSE NotAnInt

\* shlex.split(s)
ShlexSplit(s) == WordsText[s]

\* Python's a % b for b # 0: the result takes the sign of b
PyMod(a, b) == IF b > 0 THEN a % b ELSE -((-a) % (-b))

Sink == [kind : {"std"}] \cup [kind : {"file", "shared"}, name : Files]

CmdLine == [mode : ModeArgs, gpu : GpuArgs, notice_level : NoticeArgs,
            msg_file : MsgFileArgs, shared_msg_file : SharedFileArgs,
            nrank : NRankArgs, nx : DomainArgs, ny : DomainArgs,
            nz : DomainArgs, user : UserArgs, flags : FlagArgs]

\* options.__init__
NewOptions ==
    [mode |-> None, gpu |-> None, notice_level |-> 2, msg_file |-> None,
     shared_msg_file |-> None, nrank |-> None, nx |-> None, ny |-> None,
     nz |-> None, flags |-> {}, user |-> <<>>,
     autotuner_enable |-> TRUE, autotuner_period |-> 100000]

\* The first exception of a sequence of checks evaluated in order
FirstError(checks) ==
    IF \E i \in DOMAIN checks : checks[i] # None
    THEN checks[CHOOSE i \in DOMAIN checks :
                  checks[i] # None /\ \A j \in 1..(i-1) : checks[j] = None]
    ELSE None

\* --mode defaults to 'auto'
ModeOf(cl) == IF cl.mode = None THEN "auto" ELSE cl.mode

\* Mutant: the MPI-availability test of --nx/--ny/--nz dropped
DomainErrorNoMpiCheck(v) ==
    CASE v = None              -> None
      [] PyInt(v) = NotAnInt   -> "SystemExit"
      [] OTHER                 -> None

\* --nx, --ny, --nz: only in MPI builds, then int()
DomainError(v) ==
    CASE v = None              -> None
      [] ~mpi                  -> "RuntimeError"
      [] PyInt(v) = NotAnInt   -> "SystemExit"
      [] OTHER                 -> None

\* Mutant: the "--mode=cpu cannot be specified along with --gpu" check dropped
PreCopyErrorNoCpuGpuCheck(cl) ==
    FirstError(<<
        IF ModeOf(cl) \notin ExecModes THEN "SystemExit" ELSE None,
        IF cl.gpu # None /\ PyInt(cl.gpu) = NotAnInt THEN "SystemExit" ELSE None,
        IF cl.notice_level # None /\ PyInt(cl.notice_level) = NotAnInt
            THEN "SystemExit" ELSE None,
        DomainError(cl.nx), DomainError(cl.ny), DomainError(cl.nz) >>)

\* Every check made before anything is copied to globals.options
PreCopyError(cl) ==
    FirstError(<<
        IF ModeOf(cl) \notin ExecModes THEN "SystemExit" ELSE None,
        IF ModeOf(cl) = "cpu" /\ cl.gpu # None THEN "SystemExit" ELSE None,
        IF cl.gpu # None /\ PyInt(cl.gpu) = NotAnInt THEN "SystemExit" ELSE None,
        IF cl.notice_level # None /\ PyInt(cl.notice_level) = NotAnInt
            THEN "SystemExit" ELSE None,
        DomainError(cl.nx), DomainError(cl.ny), DomainError(cl.nz) >>)

\* --nrank: MPI only, int() unguarded, then the divisibility test
NRankError(cl) ==
    CASE cl.nrank = None                      -> None
      [] ~mpi                                 -> "RuntimeError"
      [] PyInt(cl.nrank) = NotAnInt           -> "ValueError"
      [] PyInt(cl.nrank) = 0                  -> "ZeroDivisionError"
      [] PyMod(NRanksGlobal, PyInt(cl.nrank)) # 0 -> "RuntimeError"
      [] OTHER                                -> None

IntOrNone(v) == IF v = None THEN None ELSE PyInt(v)

\* _parse_command_line: the copy into globals.options and the messenger
\* calls that follow it, up to the first exception, as <<options, msg, exc>>
ParseOutcome(o, m, cl) ==
    LET o1 == [o EXCEPT !.mode = IF cl.gpu # None /\ ModeOf(cl) = "auto"
                                  THEN "gpu" ELSE ModeOf(cl),
                        !.gpu = IntOrNone(cl.gpu),
                        !.nx = IntOrNone(cl.nx), !.ny = IntOrNone(cl.ny),
                        !.nz = IntOrNone(cl.nz), !.flags = cl.flags,
                        !.notice_level = IF cl.notice_level = None THEN @
                                         ELSE PyInt(cl.notice_level)]
        m1 == IF cl.notice_level = None THEN m
              ELSE [m EXCEPT !.level = PyInt(cl.notice_level)]
        o2 == IF cl.msg_file = None THEN o1
              ELSE [o1 EXCEPT !.msg_file = cl.msg_file]
        m2 == IF cl.msg_file = None THEN m1
              ELSE [m1 EXCEPT !.sink = [kind |-> "file", name |-> cl.msg_file]]
        sharedErr == IF cl.shared_msg_file # None /\ ~mpi
                     THEN "RuntimeError" ELSE None
        o3 == IF cl.shared_msg_file = None THEN o2
              ELSE [o2 EXCEPT !.shared_msg_file = cl.shared_msg_file]
        m3 == IF cl.shared_msg_file = None THEN m2
              ELSE [m2 EXCEPT !.sink = [kind |-> "shared",
                                         name |-> cl.shared_msg_file]]
        o4 == IF cl.nrank = None THEN o3
              ELSE [o3 EXCEPT !.nrank = PyInt(cl.nrank)]
        o5 == IF cl.user = None THEN o4
              ELSE [o4 EXCEPT !.user = ShlexSplit(cl.user)]
    IN CASE PreCopyError(cl) # None -> <<o, m, PreCopyError(cl)>>
         [] sharedErr # None        -> <<o2, m2, sharedErr>>
         [] NRankError(cl) # None   -> <<o3, m3, NRankError(cl)>>
         [] OTHER                   -> <<o5, m3, None>>

-----------------------------------------------------------------------------

Init ==
    /\ options = None
    /\ msg = [level |-> 2, sink |-> [kind |-> "std"]]
    /\ mpi \in BOOLEAN
    /\ status = "loading"
    /\ exc = None

\* Import with _HOOMD_EXEC set: globals.options = options(); parse.
\* An exception escapes the import and ends the process.
LoadWithExec(cl) ==
    /\ status = "loading"
    /\ LET r == ParseOutcome(NewOptions, msg, cl) IN
         /\ options' = r[1]
         /\ msg' = r[2]
         /\ exc' = r[3]
         /\ status' = IF r[3] = None THEN "running" ELSE "exited"
    /\ UNCHANGED mpi

\* Import without _HOOMD_EXEC: globals.options stays None
LoadWithoutExec ==
    /\ status = "loading"
    /\ status' = "running"
    /\ UNCHANGED <<options, msg, mpi, exc>>

\* _verify_init raising inside any of the four public calls
VerifyInitFails ==
    /\ status = "running"
    /\ options = None
    /\ exc' = "RuntimeError"
    /\ UNCHANGED <<options, msg, mpi, status>>

\* Mutant: the messenger call globals.msg.setNoticeLevel forgotten
SetNoticeLevelOptionsOnly(v) ==
    /\ status = "running"
    /\ options # None
    /\ IF PyInt(v) = NotAnInt
       THEN /\ exc' = "RuntimeError"
            /\ UNCHANGED <<options, msg>>
       ELSE /\ options' = [options EXCEPT !.notice_level = PyInt(v)]
            /\ exc' = None
            /\ UNCHANGED msg
    /\ UNCHANGED <<mpi, status>>

SetNoticeLevel(v) ==
    /\ status = "running"
    /\ options # None
    /\ IF PyInt(v) = NotAnInt
       THEN /\ exc' = "RuntimeError"
            /\ UNCHANGED <<options, msg>>
       ELSE /\ msg' = [msg EXCEPT !.level = PyInt(v)]
            /\ options' = [options EXCEPT !.notice_level = PyInt(v)]
            /\ exc' = None
    /\ UNCHANGED <<mpi, status>>

\* Mutant: the openStd branch dropped, openFile called with None too
SetMsgFileNoStdBranch(f) ==
    /\ status = "running"
    /\ options # None
    /\ msg' = [msg EXCEPT !.sink = [kind |-> "file", name |-> f]]
    /\ options' = [options EXCEPT !.msg_file = f]
    /\ exc' = None
    /\ UNCHANGED <<mpi, status>>

\* set_msg_file(fname): openFile, or openStd for None
SetMsgFile(f) ==
    /\ status = "running"
    /\ options # None
    /\ msg' = [msg EXCEPT !.sink = IF f = None THEN [kind |-> "std"]
                                   ELSE [kind |-> "file", name |-> f]]
    /\ options' = [options EXCEPT !.msg_file = f]
    /\ exc' = None
    /\ UNCHANGED <<mpi, status>>

SetAutotunerParams(enable, period) ==
    /\ status = "running"
    /\ options # None
    /\ options' = [options EXCEPT !.autotuner_period = period,
                                  !.autotuner_enable = enable]
    /\ exc' = None
    /\ UNCHANGED <<msg, mpi, status>>

\* get_user only reads; the step records that it returned normally
GetUser ==
    /\ status = "running"
    /\ options # None
    /\ exc' = None
    /\ UNCHANGED <<options, msg, mpi, status>>

Next ==
    \/ \E cl \in CmdLine : LoadWithExec(cl)
    \/ LoadWithoutExec
    \/ VerifyInitFails
    \/ \E v \in NoticeInputs : SetNoticeLevel(v)
    \/ \E f \in Files \cup {None} : SetMsgFile(f)
    \/ \E e \in BOOLEAN, p \in Periods : SetAutotunerParams(e, p)
    \/ GetUser

Spec == Init /\ [][Next]_vars

-----------------------------------------------------------------------------
(***************************************************************************)
(* Properties                                                              *)
(***************************************************************************)

\* Notice levels: the default 2 and int() of any text given
NoticeLevels == {2} \cup {IntText[k] : k \in DOMAIN IntText}

\* Every variable holds a value of its intended kind.
TypeOK ==
    /\ \/ options = None
       \/ /\ options.mode \in ModeArgs \cup ExecModes
          /\ options.gpu \in {None} \cup {IntText[k] : k \in DOMAIN IntText}
          /\ options.notice_level \in NoticeLevels
          /\ options.msg_file \in {None} \cup Files
          /\ options.nrank \in {None} \cup {IntText[k] : k \in DOMAIN IntText}
          /\ options.flags \subseteq Flags
          /\ options.user \in Seq(STRING)
    /\ msg.level \in NoticeLevels /\ msg.sink \in Sink
    /\ mpi \in BOOLEAN
    /\ status \in {"loading", "running", "exited"}
    /\ exc \in {None, "RuntimeError", "SystemExit", "ValueError",
                "ZeroDivisionError"}

\* Once the script runs with options, the execution mode is cpu, gpu or auto,
\* and a --gpu choice always runs in gpu mode: _parse_command_line rejects
\* --mode=cpu with --gpu and turns auto into gpu, and no later call of
\* option.py touches either field.
ExecutionModeSound ==
    status = "running" /\ options # None =>
        /\ options.mode \in ExecModes
        /\ options.gpu # None => options.mode = "gpu"

\* globals.options.notice_level always names the level the messenger really
\* uses: the parse and set_notice_level change the two together, and the
\* default of options() matches the messenger's initial level.
NoticeLevelAgrees ==
    options # None => options.notice_level = msg.level

\* In a build without MPI, a running script never holds MPI-only options:
\* --nx/--ny/--nz, --shared-msg-file and --nrank all raise before they are
\* stored.
MpiOptionsNeedMpi ==
    (status = "running" /\ options # None /\ ~mpi) =>
        /\ options.nx = None /\ options.ny = None /\ options.nz = None
        /\ options.shared_msg_file = None
        /\ options.nrank = None

\* An accepted --nrank is a partition size: a positive divisor of the
\* total number of ranks ("Total number of ranks is not a multiple of
\* --nrank" is the check's own error message).
NRankDividesRanks ==
    (status = "running" /\ options # None /\ options.nrank # None) =>
        /\ options.nrank > 0
        /\ NRanksGlobal % options.nrank = 0

=============================================================================
