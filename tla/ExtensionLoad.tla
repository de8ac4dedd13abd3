--------------------------- MODULE ExtensionLoad ---------------------------
(***************************************************************************)
(* LOAD mobilityduck, while queries run: LoadInternal and the two          *)
(* Configure...Once of mobilityduck_extension.cpp, in one process.         *)
(*                                                                         *)
(* A process may open several databases, and each loads the extension on a *)
(* thread of its own, while sessions of another already call MEOS.  The    *)
(* CSV files, MEOS itself and its error handler belong to the process and  *)
(* are set up under a std::once_flag each; the zone of new sessions belongs*)
(* to the database.  The sessions of MeosThread are those of Home; what is *)
(* in the CSV files is outside this module.                                *)
(***************************************************************************)
EXTENDS MeosThread

CONSTANTS
    Database,
    Home,     \* the database of the sessions
    Nobody    \* no thread

ASSUME DatabaseAssumption == Home \in Database
ASSUME NobodyAssumption   == Nobody \notin Thread

VARIABLES
    phase,      \* where the load of each database stands
    loader,     \* the thread that runs it
    once,       \* each once_flag: "new", "busy" or "done"
    configured, \* MEOS was given the path of the CSV file
    failure,    \* the exception kept for the CSV file
    handler     \* what MEOS does with an error: nothing yet, "exit" or "throw"

loading == <<phase, loader, once, configured, failure, handler>>
allVars == <<vars, loading>>

File  == {"srid", "ways"}
Flag  == File \union {"meos"}
Ended == {"unloaded", "failed", "loaded"}

\* The phase of the load that runs the function of a call_once.
Inside == [srid |-> "in srid", ways |-> "in ways", meos |-> "in meos"]
Phase  == Ended \union Flag \union {Inside[f] : f \in Flag} \union {"icu", "zone", "register"}

LoadInit ==
    /\ Init
    /\ phase = [d \in Database |-> "unloaded"]
    /\ loader = [d \in Database |-> Nobody]
    /\ once = [f \in Flag |-> "new"]
    /\ configured = [f \in File |-> FALSE]
    /\ failure = [f \in File |-> FALSE]
    /\ handler = "none"

Idle(t) == \A d \in Database : loader[d] # t

Goes(d, p) == phase' = [phase EXCEPT ![d] = p]

\* Mutant: a load that ends keeps its thread.
StaysOnThread(d, p) == Goes(d, p) /\ UNCHANGED loader

\* The load ends, well or with an exception, and its thread is free again.
Ends(d, p) == Goes(d, p) /\ loader' = [loader EXCEPT ![d] = Nobody]

\* LOAD, for the first time or again after it failed.
StartLoad(d, t) ==
    /\ phase[d] \in {"unloaded", "failed"} /\ Idle(t)
    /\ Goes(d, "srid")
    /\ loader' = [loader EXCEPT ![d] = t]
    /\ UNCHANGED <<vars, once, configured, failure, handler>>

-----------------------------------------------------------------------------
(* ConfigureMeosSridCsvOnce, then ConfigureMeosWaysCsvOnce.                *)

\* std::call_once runs its function in the first load that comes; the others
\* wait until it is done.
EnterOnce(d, f) ==
    /\ phase[d] = f /\ once[f] = "new"
    /\ once' = [once EXCEPT ![f] = "busy"]
    /\ Goes(d, Inside[f])
    /\ UNCHANGED <<vars, loader, configured, failure, handler>>

Returns(d, f) ==
    /\ once' = [once EXCEPT ![f] = "done"]
    /\ Goes(d, f) /\ UNCHANGED loader

\* The file that the environment names, or the embedded one, found or written.
Configure(d, f) ==
    /\ phase[d] = Inside[f]
    /\ configured' = [configured EXCEPT ![f] = TRUE]
    /\ Returns(d, f)
    /\ UNCHANGED <<vars, failure, handler>>

\* Mutants: the exception is lost, or leaves the call_once, whose flag a runtime
\* may then keep busy.
LostFailure(f)  == failure
KeptFailure(f)  == [failure EXCEPT ![f] = TRUE]
Thrown(d, f)    == Ends(d, "failed") /\ UNCHANGED <<once, failure>>
Caught(d, f)    == failure' = KeptFailure(f) /\ Returns(d, f)

CannotWrite(d, f) ==
    /\ phase[d] = Inside[f]
    /\ Caught(d, f)
    /\ UNCHANGED <<vars, configured, handler>>

Follower(f) == IF f = "srid" THEN "ways" ELSE "meos"

\* Behind the call_once: every load rethrows the failure that was kept.
LeaveOnce(d, f) ==
    /\ phase[d] = f /\ once[f] = "done"
    /\ IF failure[f] THEN Ends(d, "failed") ELSE Goes(d, Follower(f)) /\ UNCHANGED loader
    /\ UNCHANGED <<vars, once, configured, failure, handler>>

-----------------------------------------------------------------------------
(* The call_once of meos_init_flag.                                        *)

\* Mutant: MEOS is initialised by every load.
EveryLoad == once["meos"] # "busy"
FirstLoad == once["meos"] = "new"

\* meos_initialize and meos_initialize_timezone: until the next step an error of
\* MEOS ends the process.
InitializeMeos(d) ==
    /\ phase[d] = "meos" /\ FirstLoad
    /\ once' = [once EXCEPT !["meos"] = "busy"]
    /\ Goes(d, Inside["meos"])
    /\ handler' = "exit"
    /\ held' = [held EXCEPT ![loader[d]] = Default]
    /\ UNCHANGED <<settings, captured, ready, current, call, loader, configured, failure>>

\* meos_initialize_error_handler.
InstallHandler(d) ==
    /\ phase[d] = Inside["meos"]
    /\ handler' = "throw"
    /\ Returns(d, "meos")
    /\ UNCHANGED <<vars, configured, failure>>

LeaveMeosOnce(d) ==
    /\ phase[d] = "meos" /\ once["meos"] = "done"
    /\ Goes(d, "icu")
    /\ UNCHANGED <<vars, loader, once, configured, failure, handler>>

-----------------------------------------------------------------------------
(* The zone of new sessions, and the end of LoadInternal.                  *)

unchangedProcess == UNCHANGED <<loader, once, configured, failure, handler>>

\* AutoLoadExtension of ICU, which a session may have loaded already.  The ICU of
\* another database than Home is outside the model.
AutoLoadICU(d) ==
    /\ phase[d] = "icu"
    /\ Goes(d, "zone")
    /\ IF d = Home /\ ~ icu THEN LoadICU ELSE UNCHANGED vars
    /\ unchangedProcess

\* Mutant: the zone is set whether ICU is there or not.
ZoneAnyway == "zone"
WithoutICU == "register"

ICUUnavailable(d) ==
    /\ phase[d] = "icu" /\ (d = Home => ~ icu)
    /\ Goes(d, WithoutICU)
    /\ UNCHANGED vars
    /\ unchangedProcess

\* SetOptionByName.
SetDefaultZone(d) ==
    /\ phase[d] = "zone"
    /\ Goes(d, "register")
    /\ global' = IF d = Home THEN Default ELSE global
    /\ UNCHANGED <<icu, local, captured, threads, call>>
    /\ unchangedProcess

\* The types, functions, indexes and optimizers, then LoadSpatial.
Register(d) ==
    /\ phase[d] = "register"
    /\ Ends(d, "loaded")
    /\ UNCHANGED <<vars, once, configured, failure, handler>>

-----------------------------------------------------------------------------

LoadStep(d) ==
    \/ \E f \in File : EnterOnce(d, f) \/ Configure(d, f) \/ CannotWrite(d, f) \/ LeaveOnce(d, f)
    \/ InitializeMeos(d) \/ InstallHandler(d) \/ LeaveMeosOnce(d)
    \/ AutoLoadICU(d) \/ ICUUnavailable(d) \/ SetDefaultZone(d) \/ Register(d)

\* What sessions do with their settings needs no extension.
Settings ==
    \/ LoadICU \/ SetGlobalTimeZone
    \/ \E s \in Session : SetTimeZone(s) \/ EndQuery(s)

\* Queries use its functions once it is loaded, on threads that run no load.
Queries ==
    /\ phase[Home] = "loaded"
    /\ \/ \E s \in Session : CastInitLocal(s)
       \/ \E t \in Thread :
            /\ Idle(t)
            /\ \/ CallContextlessCast(t) \/ CallAggregate(t)
               \/ \E s \in Session : CallScalar(t, s) \/ CallCast(t, s)

LoadNext ==
    \/ \E d \in Database : LoadStep(d) \/ \E t \in Thread : StartLoad(d, t)
    \/ (Settings \/ Queries) /\ UNCHANGED loading

\* A thread that runs a load goes on with it.
LoadSpec ==
    /\ LoadInit /\ [][LoadNext]_allVars
    /\ \A d \in Database : WF_allVars(LoadStep(d))

-----------------------------------------------------------------------------
(* What a database that is loaded may rely on.                             *)

LoadTypeOK ==
    /\ TypeOK
    /\ phase \in [Database -> Phase]
    /\ loader \in [Database -> Thread \union {Nobody}]
    /\ \A d \in Database : loader[d] = Nobody <=> phase[d] \in Ended
    /\ once \in [Flag -> {"new", "busy", "done"}]
    /\ configured \in [File -> BOOLEAN]
    /\ failure \in [File -> BOOLEAN]
    /\ handler \in {"none", "exit", "throw"}

\* A load that succeeds left MEOS with the path of both CSV files, however many
\* loads of the process failed before it or run beside it (the kept exception
\* that is "rethrown to every caller").
LoadedIsConfigured ==
    \A d \in Database : phase[d] = "loaded" => \A f \in File : configured[f]

\* While a database of the process is loaded, and so its queries may call MEOS,
\* an error of MEOS becomes an exception: no other load leaves a window in which
\* it would end the process (meos_thread.hpp: "Repeating it per thread would reset
\* the process-global error handler to the exit-on-error default").
ErrorsAreThrown ==
    \A d \in Database : phase[d] = "loaded" => handler = "throw"

\* Every LOAD ends, well or with an exception, those that wait for another one
\* included ("a call_once whose function throws leaves later callers waiting on
\* the flag under MinGW's runtime").
LoadsEnd == \A d \in Database : phase[d] = "srid" ~> phase[d] \in Ended

\* Whatever loads run, the threads and sessions behave as MeosThread says; what
\* the load leaves on its own thread is what every thread starts with.
Threads == INSTANCE MeosThread WITH
               held <- [t \in Thread |-> IF ready[t] THEN held[t] ELSE NoZone]
ImplementsMeosThread == Threads!Spec
=============================================================================
