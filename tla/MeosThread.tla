----------------------------- MODULE MeosThread -----------------------------
(***************************************************************************)
(* The time zone of MEOS, which MEOS keeps per thread, against the         *)
(* TimeZone setting, which DuckDB keeps per session: meos_thread.hpp and   *)
(* the wrappers of meos_registration.hpp and meos_aggregate.hpp.           *)
(*                                                                         *)
(* A query runs on whatever worker threads are free, so a thread serves    *)
(* one session after the other.  A scalar reads the setting at every call, *)
(* a cast carries the zone its local state was made with, one for each     *)
(* thread that comes to run it, an aggregate only makes sure that the      *)
(* thread was initialised.                                                 *)
(*                                                                         *)
(* The index code calls MEOS on the thread as it finds it and changes      *)
(* nothing of what is modelled here, so it has no action.                  *)
(***************************************************************************)
EXTENDS Naturals, FiniteSets

CONSTANTS
    Thread,
    Session,
    Known,    \* the time zones MEOS knows
    Unknown,  \* time zones that ICU accepts and MEOS does not know
    Default,  \* MEOS_DEFAULT_TIMEZONE
    NoZone,   \* an empty zone
    MaxCasts  \* bound on the different local states of casts at a time

ASSUME ZoneAssumption == /\ Known \cap Unknown = {}
                         /\ NoZone \notin Known \union Unknown
                         /\ Default \in Known

VARIABLES
    icu,      \* the ICU extension is loaded, so that sessions have a TimeZone
    global,   \* the global value of TimeZone
    local,    \* the value each session set for itself
    captured, \* the local states of casts: <<session of the query, zone>>
    ready,    \* meos_thread_ready
    held,     \* the zone MEOS holds on each thread
    current,  \* MeosThreadTimezone()
    call      \* the last call of MEOS, if one for a session's scalar or cast

settings == <<icu, global, local>>
threads  == <<ready, held, current>>
vars     == <<settings, captured, threads, call>>

Zone   == Known \union Unknown

\* The zones that casts of the session's query carry.
Carried(s) == {z \in Zone \union {NoZone} : <<s, z>> \in captured}

NoCall == [asked |-> NoZone, in |-> NoZone, done |-> TRUE]

\* A process in which no session states a zone and no thread has called MEOS;
\* ExtensionLoad says how a database gets here and on.
Init ==
    /\ icu = FALSE
    /\ global = NoZone
    /\ local = [s \in Session |-> NoZone]
    /\ captured = {}
    /\ ready = [t \in Thread |-> FALSE]
    /\ held = [t \in Thread |-> NoZone]
    /\ current = [t \in Thread |-> Default]
    /\ call = NoCall

-----------------------------------------------------------------------------
(* The settings of the engine.                                             *)

\* The ICU extension, loaded by a session or by the load of this one, gives every
\* session the zone of the host.
LoadICU ==
    /\ ~ icu
    /\ icu' = TRUE
    /\ global' \in Zone
    /\ UNCHANGED <<local, captured, threads, call>>

\* SET TimeZone, between two queries of the session.
SetTimeZone(s) ==
    /\ icu /\ Carried(s) = {}
    /\ \E z \in Zone : local' = [local EXCEPT ![s] = z]
    /\ UNCHANGED <<icu, global, captured, threads, call>>

\* SET GLOBAL TimeZone, while queries of other sessions run.
SetGlobalTimeZone ==
    /\ icu
    /\ global' \in Zone
    /\ UNCHANGED <<icu, local, captured, threads, call>>

SessionTimezone(s) == IF local[s] # NoZone THEN local[s] ELSE global

-----------------------------------------------------------------------------
(* EnsureMeosThreadInitialized and FollowSessionTimezone.                  *)

Initialized(t) == IF ready[t] THEN held[t] ELSE Default

Switches(t, zone) == zone # NoZone /\ zone # current[t]

\* Mutants: the zone is recorded before MEOS is asked for it, or the record of
\* the zone that MEOS released is kept when the switch fails.
RecordedFirst(t, zone) == zone
RecordKept(t, zone)    == IF zone \in Known THEN zone ELSE current[t]

\* meos_initialize_timezone releases the zone before it loads the next one.
Loaded(zone)      == IF zone \in Known THEN zone ELSE NoZone
Recorded(t, zone) == IF zone \in Known THEN zone ELSE NoZone

FollowSessionTimezone(t, zone) ==
    /\ ready' = [ready EXCEPT ![t] = TRUE]
    /\ held' = [held EXCEPT ![t] =
                   IF Switches(t, zone) THEN Loaded(zone) ELSE Initialized(t)]
    /\ current' = [current EXCEPT ![t] =
                   IF Switches(t, zone) THEN Recorded(t, zone) ELSE @]

\* Whether the switch succeeds; if not the call ends in an exception.
Follows(t, zone) == Switches(t, zone) => zone \in Known

-----------------------------------------------------------------------------
(* What a query runs on a thread.                                          *)

CastsEnd(s) == captured' = {c \in captured : c[1] # s}

\* A call that follows the zone; its exception ends the query, and with it the
\* local states of the casts.
Calls(t, s, zone) ==
    /\ FollowSessionTimezone(t, zone)
    /\ call' = [asked |-> zone, in |-> held'[t], done |-> Follows(t, zone)]
    /\ IF Follows(t, zone) THEN UNCHANGED captured ELSE CastsEnd(s)
    /\ UNCHANGED settings

\* A scalar, or the init of a table function.
CallScalar(t, s) == Calls(t, s, SessionTimezone(s))

\* MeosCastInitLocal reads the setting once, for the casts that follow on the
\* thread that runs it; other threads of the query do so earlier or later.
CastInitLocal(s) ==
    /\ Cardinality(captured) < MaxCasts
    /\ captured' = captured \union {<<s, SessionTimezone(s)>>}
    /\ UNCHANGED <<settings, threads, call>>

CallCast(t, s) == \E zone \in Carried(s) : Calls(t, s, zone)

EndQuery(s) ==
    /\ Carried(s) # {}
    /\ CastsEnd(s)
    /\ UNCHANGED <<settings, threads, call>>

\* A cast made without a context carries no zone and runs in the thread's.
CallContextlessCast(t) ==
    /\ FollowSessionTimezone(t, NoZone)
    /\ call' = NoCall
    /\ UNCHANGED <<settings, captured>>

\* Update, Combine and Finalize of an aggregate, which runs in the thread's zone.
CallAggregate(t) ==
    /\ ready' = [ready EXCEPT ![t] = TRUE]
    /\ held' = [held EXCEPT ![t] = Initialized(t)]
    /\ call' = NoCall
    /\ UNCHANGED <<settings, captured, current>>

Next ==
    \/ LoadICU \/ SetGlobalTimeZone
    \/ \E s \in Session : SetTimeZone(s) \/ CastInitLocal(s) \/ EndQuery(s)
    \/ \E t \in Thread, s \in Session :
         CallScalar(t, s) \/ CallCast(t, s)
    \/ \E t \in Thread : CallContextlessCast(t) \/ CallAggregate(t)

Spec == Init /\ [][Next]_vars

-----------------------------------------------------------------------------
(* What a query may rely on.                                               *)

TypeOK ==
    /\ icu \in BOOLEAN
    /\ global \in Zone \union {NoZone}
    /\ local \in [Session -> Zone \union {NoZone}]
    /\ captured \subseteq Session \X (Zone \union {NoZone})
    /\ ready \in [Thread -> BOOLEAN]
    /\ held \in [Thread -> Known \union {NoZone}]
    /\ current \in [Thread -> Known \union {NoZone}]
    /\ call \in [asked : Zone \union {NoZone}, in : Known \union {NoZone}, done : BOOLEAN]

\* What a thread records of its zone is what MEOS holds there, an empty record
\* included, whatever sessions it served before (MeosThreadTimezone against the
\* order of release, load and record in FollowSessionTimezone).
ZoneRecorded ==
    \A t \in Thread : IF ready[t] THEN held[t] = current[t] ELSE current[t] = Default

\* A scalar or a cast that ends without an exception ran in the zone of its
\* session, the default zone as long as sessions state none, and one that fails
\* asked for a zone MEOS does not know: the zone another session left on the
\* thread, or failed to set there, makes no difference (session_timezone.test: "a
\* switch of zone between two reads leaves no trace of the zone it replaced").
\* Nothing is said of a cast whose local state is older than ICU: it carries no
\* zone, and runs in the one a session has meanwhile set on the thread.
InSessionZone ==
    call # NoCall =>
        IF ~ call.done THEN call.asked \in Unknown
        ELSE IF call.asked # NoZone THEN call.in = call.asked
        ELSE icu \/ call.in = Default
=============================================================================
