-------------------------- MODULE MeosThreadProofs --------------------------
(***************************************************************************)
(* A scalar or a cast runs in the zone of its session on every thread, for *)
(* any number of threads, sessions and zones; and whatever loads run beside*)
(* the queries, a database that is loaded finds MEOS configured, with the  *)
(* error handler in place, for any number of databases.                    *)
(***************************************************************************)
EXTENDS ExtensionLoad, TLAPS

\* Without ICU nobody states a zone; with it every session does.
ZonesOfICU ==
    IF icu THEN global \in Zone
    ELSE /\ global = NoZone /\ \A s \in Session : local[s] = NoZone
         /\ \A c \in captured : c[2] = NoZone

\* Without ICU no thread leaves the zone it starts in.
DefaultWithoutICU == ~ icu => \A t \in Thread : current[t] = Default

IInv == TypeOK /\ ZoneRecorded /\ InSessionZone /\ ZonesOfICU /\ DefaultWithoutICU

-----------------------------------------------------------------------------

\* FollowSessionTimezone keeps the record of the zone, and reaches the zone asked
\* for or fails on one MEOS does not know.
LEMMA Following ==
    ASSUME IInv, NEW t \in Thread, NEW z \in Zone \union {NoZone},
           ~ icu => z = NoZone,
           FollowSessionTimezone(t, z)
    PROVE  /\ ready' \in [Thread -> BOOLEAN]
           /\ held' \in [Thread -> Known \union {NoZone}]
           /\ current' \in [Thread -> Known \union {NoZone}]
           /\ ZoneRecorded'
           /\ Follows(t, z) /\ z # NoZone => held'[t] = z
           /\ Follows(t, z) /\ ~ icu => held'[t] = Default
           /\ ~ Follows(t, z) => z \in Unknown
           /\ ~ icu => \A u \in Thread : current'[u] = Default
<1> USE ZoneAssumption DEF IInv, TypeOK, Zone, FollowSessionTimezone
<1>1. ready' \in [Thread -> BOOLEAN]
  OBVIOUS
<1>2. held' \in [Thread -> Known \union {NoZone}]
  BY DEF Loaded, Initialized
<1>3. current' \in [Thread -> Known \union {NoZone}]
  BY DEF Recorded
<1>4. ZoneRecorded'
  BY DEF ZoneRecorded, Loaded, Recorded, Initialized, Switches
<1>5. Follows(t, z) /\ z # NoZone => held'[t] = z
  BY DEF Follows, Switches, Loaded, Initialized, ZoneRecorded
<1>6. Follows(t, z) /\ ~ icu => held'[t] = Default
  BY DEF Follows, Switches, Loaded, Initialized, ZoneRecorded, DefaultWithoutICU
<1>7. ~ Follows(t, z) => z \in Unknown
  BY DEF Follows, Switches
<1>8. ~ icu => \A u \in Thread : current'[u] = Default
  BY DEF Switches, DefaultWithoutICU
<1> QED BY <1>1, <1>2, <1>3, <1>4, <1>5, <1>6, <1>7, <1>8

\* A call that follows a zone its session states keeps the invariant.
LEMMA CallKeepsIInv ==
    ASSUME IInv, NEW t \in Thread, NEW s \in Session, NEW z \in Zone \union {NoZone},
           ~ icu => z = NoZone,
           Calls(t, s, z)
    PROVE  IInv'
<1>1. FollowSessionTimezone(t, z) /\ UNCHANGED settings
  BY DEF Calls
<1>2. /\ ready' \in [Thread -> BOOLEAN]
      /\ held' \in [Thread -> Known \union {NoZone}]
      /\ current' \in [Thread -> Known \union {NoZone}]
      /\ ZoneRecorded'
      /\ Follows(t, z) /\ z # NoZone => held'[t] = z
      /\ Follows(t, z) /\ ~ icu => held'[t] = Default
      /\ ~ Follows(t, z) => z \in Unknown
      /\ ~ icu => \A u \in Thread : current'[u] = Default
  BY <1>1, Following
<1>3. captured' \subseteq captured
  BY DEF Calls, CastsEnd
<1>4. TypeOK'
  BY <1>1, <1>2, <1>3 DEF IInv, TypeOK, Calls, settings, Follows
<1>5. InSessionZone'
  BY <1>1, <1>2 DEF InSessionZone, Calls, settings
<1>6. ZonesOfICU' /\ DefaultWithoutICU'
  BY <1>1, <1>2, <1>3 DEF IInv, ZonesOfICU, DefaultWithoutICU, settings
<1> QED BY <1>2, <1>4, <1>5, <1>6 DEF IInv

\* A session states no zone without ICU.
LEMMA SessionStates ==
    ASSUME IInv, NEW s \in Session
    PROVE  /\ SessionTimezone(s) \in Zone \union {NoZone}
           /\ ~ icu => SessionTimezone(s) = NoZone
BY ZoneAssumption DEF IInv, TypeOK, ZonesOfICU, SessionTimezone, Zone

LEMMA InitIInv == Init => IInv
<1> SUFFICES ASSUME Init PROVE IInv
  OBVIOUS
<1>1. TypeOK
  BY ZoneAssumption DEF Init, TypeOK, NoCall, Zone
<1>2. InSessionZone
  BY DEF Init, InSessionZone
<1>3. ZoneRecorded /\ ZonesOfICU /\ DefaultWithoutICU
  BY DEF Init, ZoneRecorded, ZonesOfICU, DefaultWithoutICU
<1> QED BY <1>1, <1>2, <1>3 DEF IInv

LEMMA StepIInv == IInv /\ [Next]_vars => IInv'
<1> SUFFICES ASSUME IInv, [Next]_vars PROVE IInv'
  OBVIOUS
<1> USE ZoneAssumption
<1>0. CASE LoadICU
  BY <1>0 DEF LoadICU, threads, IInv, TypeOK, ZoneRecorded, InSessionZone,
              ZonesOfICU, DefaultWithoutICU
<1>1. CASE SetGlobalTimeZone
  BY <1>1 DEF SetGlobalTimeZone, threads, IInv, TypeOK, ZoneRecorded, InSessionZone,
              ZonesOfICU, DefaultWithoutICU
<1>2. ASSUME NEW s \in Session, SetTimeZone(s) PROVE IInv'
  <2> USE <1>2 DEF SetTimeZone, threads
  <2>1. TypeOK'
    BY DEF IInv, TypeOK
  <2>2. ZonesOfICU'
    BY DEF IInv, ZonesOfICU
  <2>3. ZoneRecorded' /\ InSessionZone' /\ DefaultWithoutICU'
    BY DEF IInv, ZoneRecorded, InSessionZone, DefaultWithoutICU
  <2> QED BY <2>1, <2>2, <2>3 DEF IInv
<1>3. ASSUME NEW s \in Session, CastInitLocal(s) PROVE IInv'
  <2> USE <1>3 DEF CastInitLocal, settings, threads
  <2>1. TypeOK' /\ ZonesOfICU'
    BY SessionStates DEF IInv, TypeOK, ZonesOfICU
  <2>2. ZoneRecorded' /\ InSessionZone' /\ DefaultWithoutICU'
    BY DEF IInv, ZoneRecorded, InSessionZone, DefaultWithoutICU
  <2> QED BY <2>1, <2>2 DEF IInv
<1>4. ASSUME NEW s \in Session, EndQuery(s) PROVE IInv'
  BY <1>4 DEF EndQuery, CastsEnd, settings, threads, IInv, TypeOK, ZoneRecorded, InSessionZone,
              ZonesOfICU, DefaultWithoutICU
<1>5. ASSUME NEW t \in Thread, NEW s \in Session, CallScalar(t, s) PROVE IInv'
  BY <1>5, SessionStates, CallKeepsIInv DEF CallScalar
<1>6. ASSUME NEW t \in Thread, NEW s \in Session, CallCast(t, s) PROVE IInv'
  BY <1>6, CallKeepsIInv DEF CallCast, Carried, IInv, ZonesOfICU
<1>7. ASSUME NEW t \in Thread, CallContextlessCast(t) PROVE IInv'
  <2> USE <1>7 DEF CallContextlessCast, FollowSessionTimezone, Switches, settings
  <2>1. TypeOK'
    BY DEF IInv, TypeOK, NoCall, Initialized
  <2>2. ZoneRecorded'
    BY DEF IInv, TypeOK, ZoneRecorded, Initialized
  <2>3. InSessionZone' /\ ZonesOfICU' /\ DefaultWithoutICU'
    BY DEF IInv, TypeOK, InSessionZone, NoCall, ZonesOfICU, DefaultWithoutICU
  <2> QED BY <2>1, <2>2, <2>3 DEF IInv
<1>8. ASSUME NEW t \in Thread, CallAggregate(t) PROVE IInv'
  <2> USE <1>8 DEF CallAggregate, settings
  <2>1. TypeOK'
    BY DEF IInv, TypeOK, NoCall, Initialized
  <2>2. ZoneRecorded'
    BY DEF IInv, TypeOK, ZoneRecorded, Initialized
  <2>3. InSessionZone' /\ ZonesOfICU' /\ DefaultWithoutICU'
    BY DEF IInv, InSessionZone, NoCall, ZonesOfICU, DefaultWithoutICU
  <2> QED BY <2>1, <2>2, <2>3 DEF IInv
<1>9. CASE UNCHANGED vars
  BY <1>9 DEF vars, settings, threads, IInv, TypeOK, ZoneRecorded, InSessionZone,
               ZonesOfICU, DefaultWithoutICU
<1> QED BY <1>0, <1>1, <1>2, <1>3, <1>4, <1>5, <1>6, <1>7, <1>8, <1>9 DEF Next

-----------------------------------------------------------------------------

\* A thread holds a zone MEOS knows or none, whatever sessions it serves.
THEOREM TypeCorrect == Spec => []TypeOK
<1>1. IInv => TypeOK
  BY DEF IInv
<1> QED BY <1>1, InitIInv, StepIInv, PTL DEF Spec

\* What a thread records of its zone is what MEOS holds there.
THEOREM RecordIsTrue == Spec => []ZoneRecorded
<1>1. IInv => ZoneRecorded
  BY DEF IInv
<1> QED BY <1>1, InitIInv, StepIInv, PTL DEF Spec

\* A scalar or a cast runs in the zone of its session, or fails on a zone MEOS
\* does not know.
THEOREM CallsFollowTheSession == Spec => []InSessionZone
<1>1. IInv => InSessionZone
  BY DEF IInv
<1> QED BY <1>1, InitIInv, StepIInv, PTL DEF Spec

-----------------------------------------------------------------------------
(* The loads.                                                              *)

\* The phases behind the call_once of each flag.
Behind(f) ==
    CASE f = "srid" -> Phase \ {"unloaded", "failed", "srid", "in srid"}
      [] f = "ways" -> {"meos", "in meos", "icu", "zone", "register", "loaded"}
      [] f = "meos" -> {"icu", "zone", "register", "loaded"}

\* A load inside a call_once is the only one, and the flag says so.
Alone(f, inside) ==
    \A d \in Database : phase[d] = inside =>
        once[f] = "busy" /\ \A e \in Database : phase[e] = inside => e = d

OneInside == Alone("srid", "in srid") /\ Alone("ways", "in ways") /\ Alone("meos", "in meos")

\* A flag that is done left its work or its exception behind, and no load is
\* past it otherwise.
DoneFile(f) ==
    /\ once[f] = "done" => configured[f] \/ failure[f]
    /\ \A d \in Database : phase[d] \in Behind(f) => once[f] = "done" /\ configured[f]

DoneMeos ==
    /\ once["meos"] = "done" => handler = "throw"
    /\ \A d \in Database : phase[d] \in Behind("meos") => once["meos"] = "done"

DoneFlags == DoneFile("srid") /\ DoneFile("ways") /\ DoneMeos

\* No query calls MEOS before it has its error handler.
ReadyAfterLoad == \A t \in Thread : ready[t] => once["meos"] = "done"

\* The zone of new sessions is set where ICU knows the setting.
ZoneOfICU == phase[Home] = "zone" => icu

LInv == IInv /\ LoadTypeOK /\ OneInside /\ DoneFlags /\ ReadyAfterLoad /\ ZoneOfICU

LEMMA Phases ==
    /\ Inside["srid"] = "in srid" /\ Inside["ways"] = "in ways" /\ Inside["meos"] = "in meos"
    /\ Flag = {"srid", "ways", "meos"} /\ File = {"srid", "ways"}
    /\ Phase = {"unloaded", "failed", "loaded", "srid", "ways", "meos", "in srid", "in ways",
                "in meos", "icu", "zone", "register"}
    /\ Behind("srid") = {"ways", "in ways", "meos", "in meos", "icu", "zone", "register", "loaded"}
    /\ Behind("ways") = {"meos", "in meos", "icu", "zone", "register", "loaded"}
    /\ Behind("meos") = {"icu", "zone", "register", "loaded"}
<1>1. Inside["srid"] = "in srid" /\ Inside["ways"] = "in ways" /\ Inside["meos"] = "in meos"
  BY DEF Inside
<1>2. Flag = {"srid", "ways", "meos"} /\ File = {"srid", "ways"}
  BY DEF Flag, File
<1>3. Phase = {"unloaded", "failed", "loaded", "srid", "ways", "meos", "in srid", "in ways",
               "in meos", "icu", "zone", "register"}
  BY <1>1, <1>2 DEF Phase, Ended
<1>4. Behind("srid") = Phase \ {"unloaded", "failed", "srid", "in srid"}
  BY DEF Behind
<1>5. Behind("ways") = {"meos", "in meos", "icu", "zone", "register", "loaded"}
  BY DEF Behind
<1>6. Behind("meos") = {"icu", "zone", "register", "loaded"}
  BY DEF Behind
<1>7. Behind("srid") = {"ways", "in ways", "meos", "in meos", "icu", "zone", "register", "loaded"}
  BY <1>3, <1>4
<1> QED BY <1>1, <1>2, <1>3, <1>5, <1>6, <1>7

LEMMA InitLInv == LoadInit => LInv
<1> SUFFICES ASSUME LoadInit PROVE LInv
  OBVIOUS
<1>1. IInv /\ TypeOK
  BY InitIInv DEF LoadInit, IInv
<1>2. LoadTypeOK
  BY <1>1, Phases DEF LoadInit, LoadTypeOK, Ended
<1>3. OneInside
  BY Phases DEF LoadInit, OneInside, Alone
<1>4. DoneFlags
  <2>1. \A f \in Flag : once[f] = "new"
    BY DEF LoadInit
  <2>2. \A d \in Database :
          /\ phase[d] \notin Behind("srid")
          /\ phase[d] \notin Behind("ways")
          /\ phase[d] \notin Behind("meos")
    BY Phases DEF LoadInit
  <2> QED BY <2>1, <2>2, Phases DEF DoneFlags, DoneFile, DoneMeos
<1>5. ReadyAfterLoad
  BY DEF LoadInit, Init, ReadyAfterLoad
<1>6. ZoneOfICU
  BY DatabaseAssumption DEF LoadInit, ZoneOfICU
<1> QED BY <1>1, <1>2, <1>3, <1>4, <1>5, <1>6 DEF LInv

\* The variables of MeosThread keep their invariant when none of them changes.
LEMMA Stutter == IInv /\ UNCHANGED vars => IInv'
BY StepIInv

\* What the loads rely on survives a step of the sessions.
LEMMA SessionStep ==
    ASSUME LInv, (Settings \/ Queries) /\ UNCHANGED loading
    PROVE  LInv'
<1>1. Next
  BY DEF Settings, Queries, Next
<1>2. IInv'
  BY <1>1, StepIInv DEF LInv
<1>3. LoadTypeOK' /\ OneInside' /\ DoneFlags'
  BY <1>2 DEF LInv, IInv, LoadTypeOK, OneInside, Alone, DoneFlags, DoneFile, DoneMeos, loading
<1>4. ReadyAfterLoad'
  <2>1. CASE Queries
    BY <2>1, DatabaseAssumption, Phases
       DEF LInv, DoneFlags, DoneMeos, ReadyAfterLoad, Queries, loading
  <2>2. CASE Settings
    <3>1. UNCHANGED ready
      BY <2>2 DEF Settings, LoadICU, SetGlobalTimeZone, SetTimeZone, EndQuery, threads
    <3> QED BY <3>1 DEF LInv, ReadyAfterLoad, loading
  <2> QED BY <2>1, <2>2
<1>5. ZoneOfICU'
  <2>1. icu => icu'
    BY <1>1 DEF Next, LoadICU, SetGlobalTimeZone, SetTimeZone, CastInitLocal, EndQuery, CallScalar,
                CallCast, Calls, CallContextlessCast, CallAggregate, settings
  <2> QED BY <2>1 DEF LInv, ZoneOfICU, loading
<1> QED BY <1>2, <1>3, <1>4, <1>5 DEF LInv

\* A load that goes on keeps its thread, one that ends gives it back.
ThreadsOfLoads ==
    /\ phase \in [Database -> Phase]
    /\ loader \in [Database -> Thread \union {Nobody}]
    /\ \A d \in Database : loader[d] = Nobody <=> phase[d] \in Ended

LEMMA LoadGoes ==
    ASSUME LoadTypeOK, NEW d \in Database, NEW p \in Phase \ Ended,
           phase[d] \notin Ended, Goes(d, p), UNCHANGED loader
    PROVE  ThreadsOfLoads'
BY DEF LoadTypeOK, Goes, ThreadsOfLoads

LEMMA LoadEnds ==
    ASSUME LoadTypeOK, NEW d \in Database, NEW p \in Ended, Ends(d, p)
    PROVE  ThreadsOfLoads'
BY NobodyAssumption DEF LoadTypeOK, Goes, Ends, ThreadsOfLoads, Phase

\* Only the load that enters a call_once, or the one inside it, changes who is
\* inside.
LEMMA EnterAlone ==
    ASSUME LoadTypeOK, NEW f, NEW inside, NEW d \in Database,
           Alone(f, inside), once[f] # "busy", once'[f] = "busy", Goes(d, inside)
    PROVE  Alone(f, inside)'
BY DEF LoadTypeOK, Alone, Goes

LEMMA KeepAlone ==
    ASSUME LoadTypeOK, NEW f, NEW inside, NEW d \in Database, NEW p,
           Alone(f, inside), Goes(d, p), p # inside,
           once'[f] = once[f] \/ phase[d] = inside
    PROVE  Alone(f, inside)'
BY DEF LoadTypeOK, Alone, Goes

\* A load gets behind a flag only when the flag is done and has configured MEOS.
LEMMA KeepDoneFile ==
    ASSUME LoadTypeOK, NEW f, NEW d \in Database, NEW p,
           DoneFile(f), Goes(d, p),
           once[f] = "done" => once'[f] = "done",
           configured[f] => configured'[f],
           once'[f] = "done" => configured'[f] \/ failure'[f],
           p \in Behind(f) => phase[d] \in Behind(f) \/ (once[f] = "done" /\ configured[f])
    PROVE  DoneFile(f)'
BY DEF LoadTypeOK, DoneFile, Goes

LEMMA KeepDoneMeos ==
    ASSUME LoadTypeOK, NEW d \in Database, NEW p,
           DoneMeos, Goes(d, p),
           once["meos"] = "done" => once'["meos"] = "done",
           once'["meos"] = "done" => handler' = "throw",
           p \in Behind("meos") => phase[d] \in Behind("meos") \/ once["meos"] = "done"
    PROVE  DoneMeos'
BY DEF LoadTypeOK, DoneMeos, Goes

LEMMA KeepZoneOfICU ==
    ASSUME LoadTypeOK, NEW d \in Database, NEW p,
           ZoneOfICU, Goes(d, p), icu => icu', d = Home /\ p = "zone" => icu'
    PROVE  ZoneOfICU'
BY DatabaseAssumption DEF LoadTypeOK, Goes, ZoneOfICU

LEMMA FileStep ==
    ASSUME LInv, NEW d \in Database, NEW f \in File,
           EnterOnce(d, f) \/ Configure(d, f) \/ CannotWrite(d, f) \/ LeaveOnce(d, f)
    PROVE  LInv'
<1> USE Phases
<1>0. f = "srid" \/ f = "ways"
  OBVIOUS
<1>1. IInv' /\ ReadyAfterLoad' /\ ZoneOfICU' /\ UNCHANGED vars
  <2>1. UNCHANGED vars
    BY DEF EnterOnce, Configure, CannotWrite, LeaveOnce
  <2>2. once'["meos"] = once["meos"]
    BY <1>0 DEF EnterOnce, Configure, CannotWrite, LeaveOnce, Caught, Returns, LInv, LoadTypeOK
  <2>3. PICK p \in Phase : Goes(d, p) /\ p # "zone"
    BY <1>0 DEF EnterOnce, Configure, CannotWrite, LeaveOnce, Caught, Returns, Ends, Follower
  <2>4. ZoneOfICU'
    BY <2>1, <2>3, KeepZoneOfICU DEF LInv, vars, settings
  <2> QED BY <2>1, <2>2, <2>4, Stutter DEF LInv, ReadyAfterLoad, vars, threads
<1>2. CASE EnterOnce(d, f)
  <2> USE <1>0, <1>2 DEF EnterOnce, Goes
  <2>1. LoadTypeOK'
    <3>1. ThreadsOfLoads'
      BY LoadGoes DEF LInv, Ended
    <3> QED BY <1>1, <3>1 DEF LInv, IInv, LoadTypeOK, ThreadsOfLoads
  <2>2. OneInside'
    <3>1. CASE f = "srid"
      BY <3>1, EnterAlone, KeepAlone DEF LInv, LoadTypeOK, OneInside
    <3>2. CASE f = "ways"
      BY <3>2, EnterAlone, KeepAlone DEF LInv, LoadTypeOK, OneInside
    <3> QED BY <3>1, <3>2
  <2>3. DoneFlags'
    <3>1. CASE f = "srid"
      BY <3>1, KeepDoneFile, KeepDoneMeos DEF LInv, LoadTypeOK, DoneFlags, DoneFile, DoneMeos
    <3>2. CASE f = "ways"
      BY <3>2, KeepDoneFile, KeepDoneMeos DEF LInv, LoadTypeOK, DoneFlags, DoneFile, DoneMeos
    <3> QED BY <3>1, <3>2
  <2> QED BY <1>1, <2>1, <2>2, <2>3 DEF LInv
<1>3. CASE Configure(d, f)
  <2> USE <1>0, <1>3 DEF Configure, Goes, Returns
  <2>1. LoadTypeOK'
    <3>1. ThreadsOfLoads'
      BY LoadGoes DEF LInv, Ended
    <3> QED BY <1>1, <3>1 DEF LInv, IInv, LoadTypeOK, ThreadsOfLoads
  <2>2. OneInside'
    <3>1. CASE f = "srid"
      BY <3>1, KeepAlone DEF LInv, LoadTypeOK, OneInside
    <3>2. CASE f = "ways"
      BY <3>2, KeepAlone DEF LInv, LoadTypeOK, OneInside
    <3> QED BY <3>1, <3>2
  <2>3. DoneFlags'
    <3>1. CASE f = "srid"
      BY <3>1, KeepDoneFile, KeepDoneMeos DEF LInv, LoadTypeOK, DoneFlags, DoneFile, DoneMeos
    <3>2. CASE f = "ways"
      BY <3>2, KeepDoneFile, KeepDoneMeos DEF LInv, LoadTypeOK, DoneFlags, DoneFile, DoneMeos
    <3> QED BY <3>1, <3>2
  <2> QED BY <1>1, <2>1, <2>2, <2>3 DEF LInv
<1>4. CASE CannotWrite(d, f)
  <2> USE <1>0, <1>4 DEF CannotWrite, Caught, KeptFailure, Goes, Returns
  <2>1. LoadTypeOK'
    <3>1. ThreadsOfLoads'
      BY LoadGoes DEF LInv, Ended
    <3> QED BY <1>1, <3>1 DEF LInv, IInv, LoadTypeOK, ThreadsOfLoads
  <2>2. OneInside'
    <3>1. CASE f = "srid"
      BY <3>1, KeepAlone DEF LInv, LoadTypeOK, OneInside
    <3>2. CASE f = "ways"
      BY <3>2, KeepAlone DEF LInv, LoadTypeOK, OneInside
    <3> QED BY <3>1, <3>2
  <2>3. DoneFlags'
    <3>1. CASE f = "srid"
      BY <3>1, KeepDoneFile, KeepDoneMeos DEF LInv, LoadTypeOK, DoneFlags, DoneFile, DoneMeos
    <3>2. CASE f = "ways"
      BY <3>2, KeepDoneFile, KeepDoneMeos DEF LInv, LoadTypeOK, DoneFlags, DoneFile, DoneMeos
    <3> QED BY <3>1, <3>2
  <2> QED BY <1>1, <2>1, <2>2, <2>3 DEF LInv
<1>5. CASE LeaveOnce(d, f)
  <2>1. /\ phase[d] = f /\ once[f] = "done"
        /\ UNCHANGED <<once, configured, failure, handler>>
        /\ IF failure[f] THEN Ends(d, "failed") ELSE Goes(d, Follower(f)) /\ UNCHANGED loader
    BY <1>5 DEF LeaveOnce
  <2>2. /\ LoadTypeOK /\ Alone("srid", "in srid") /\ Alone("ways", "in ways")
        /\ Alone("meos", "in meos") /\ DoneFile("srid") /\ DoneFile("ways") /\ DoneMeos
    BY DEF LInv, OneInside, DoneFlags
  <2>3. ASSUME NEW p \in Phase, p \notin {"in srid", "in ways", "in meos"}, Goes(d, p)
        PROVE  OneInside'
    <3>1. Alone("srid", "in srid")'
      BY <2>1, <2>2, <2>3, KeepAlone
    <3>2. Alone("ways", "in ways")'
      BY <2>1, <2>2, <2>3, KeepAlone
    <3>3. Alone("meos", "in meos")'
      BY <2>1, <2>2, <2>3, KeepAlone
    <3> QED BY <3>1, <3>2, <3>3 DEF OneInside
  <2>4. ASSUME NEW p \in Phase, Goes(d, p),
               p = "failed" \/ (f = "srid" /\ p = "ways" /\ configured["srid"])
                            \/ (f = "ways" /\ p = "meos" /\ configured["ways"])
        PROVE  DoneFlags'
    <3>1. DoneFile("srid")'
      BY <2>1, <2>2, <2>4, KeepDoneFile DEF DoneFile
    <3>2. DoneFile("ways")'
      BY <2>1, <2>2, <2>4, KeepDoneFile DEF DoneFile
    <3>3. DoneMeos'
      BY <2>1, <2>2, <2>4, KeepDoneMeos DEF DoneMeos
    <3> QED BY <3>1, <3>2, <3>3 DEF DoneFlags
  <2>5. CASE failure[f]
    <3>1. Ends(d, "failed") /\ Goes(d, "failed")
      BY <2>1, <2>5 DEF Ends
    <3>2. OneInside' /\ DoneFlags'
      BY <2>3, <2>4, <3>1
    <3>3. ThreadsOfLoads'
      BY <2>2, <3>1, LoadEnds DEF Ended
    <3> QED BY <1>1, <2>1, <2>2, <3>2, <3>3 DEF LInv, IInv, LoadTypeOK, ThreadsOfLoads
  <2>6. CASE ~ failure[f]
    <3>1. Goes(d, Follower(f)) /\ UNCHANGED loader
      BY <2>1, <2>6
    <3>2. configured[f]
      BY <1>0, <2>1, <2>2, <2>6 DEF DoneFile
    <3>3. \/ f = "srid" /\ Follower(f) = "ways"
          \/ f = "ways" /\ Follower(f) = "meos"
      BY <1>0 DEF Follower
    <3>4. OneInside' /\ DoneFlags'
      BY <2>3, <2>4, <3>1, <3>2, <3>3
    <3>5. ThreadsOfLoads'
      BY <2>1, <2>2, <3>1, <3>3, LoadGoes DEF Ended
    <3> QED BY <1>1, <2>1, <2>2, <3>4, <3>5 DEF LInv, IInv, LoadTypeOK, ThreadsOfLoads
  <2> QED BY <2>5, <2>6
<1> QED BY <1>2, <1>3, <1>4, <1>5

LEMMA MeosStep ==
    ASSUME LInv, NEW d \in Database,
           InitializeMeos(d) \/ InstallHandler(d) \/ LeaveMeosOnce(d)
    PROVE  LInv'
<1> USE Phases
<1>0. /\ LoadTypeOK /\ Alone("srid", "in srid") /\ Alone("ways", "in ways")
      /\ Alone("meos", "in meos") /\ DoneFile("srid") /\ DoneFile("ways") /\ DoneMeos
  BY DEF LInv, OneInside, DoneFlags
<1>4. ZoneOfICU'
  <2>1. PICK p \in Phase : Goes(d, p) /\ p # "zone"
    BY DEF InitializeMeos, InstallHandler, LeaveMeosOnce, Returns
  <2>2. UNCHANGED icu
    BY DEF InitializeMeos, InstallHandler, LeaveMeosOnce, vars, settings
  <2> QED BY <1>0, <2>1, <2>2, KeepZoneOfICU DEF LInv
<1>1. CASE InitializeMeos(d)
  <2> USE <1>1 DEF InitializeMeos
  <2>1. IInv'
    <3>1. loader[d] \in Thread
      BY <1>0 DEF LoadTypeOK, Ended
    <3>2. \A t \in Thread : ~ ready[t]
      BY DEF LInv, ReadyAfterLoad, FirstLoad
    <3> QED BY <3>1, <3>2, ZoneAssumption
            DEF LInv, IInv, TypeOK, ZoneRecorded, InSessionZone, ZonesOfICU, DefaultWithoutICU,
                settings
  <2>2. OneInside'
    BY <1>0, EnterAlone, KeepAlone DEF OneInside, FirstLoad, LoadTypeOK
  <2>3. DoneFlags'
    BY <1>0, KeepDoneFile, KeepDoneMeos DEF DoneFlags, DoneFile, DoneMeos, FirstLoad, LoadTypeOK
  <2>4. ReadyAfterLoad'
    BY DEF LInv, ReadyAfterLoad, FirstLoad
  <2>5. ThreadsOfLoads'
    BY <1>0, LoadGoes DEF Ended
  <2> QED BY <1>0, <1>4, <2>1, <2>2, <2>3, <2>4, <2>5 DEF LInv, IInv, LoadTypeOK, ThreadsOfLoads
<1>2. CASE InstallHandler(d)
  <2> USE <1>2 DEF InstallHandler, Returns
  <2>1. IInv' /\ UNCHANGED ready
    BY Stutter DEF LInv, vars, threads
  <2>2. OneInside'
    BY <1>0, KeepAlone DEF OneInside, LoadTypeOK
  <2>3. DoneFlags'
    BY <1>0, KeepDoneFile, KeepDoneMeos DEF DoneFlags, DoneFile, DoneMeos, LoadTypeOK
  <2>4. ReadyAfterLoad'
    BY <1>0, <2>1 DEF LInv, ReadyAfterLoad, LoadTypeOK
  <2>5. ThreadsOfLoads'
    BY <1>0, LoadGoes DEF Ended
  <2> QED BY <1>0, <1>4, <2>1, <2>2, <2>3, <2>4, <2>5 DEF LInv, IInv, LoadTypeOK, ThreadsOfLoads
<1>3. CASE LeaveMeosOnce(d)
  <2> USE <1>3 DEF LeaveMeosOnce
  <2>1. IInv' /\ UNCHANGED ready
    BY Stutter DEF LInv, vars, threads
  <2>2. OneInside'
    BY <1>0, KeepAlone DEF OneInside
  <2>3. DoneFlags'
    BY <1>0, KeepDoneFile, KeepDoneMeos DEF DoneFlags, DoneFile, DoneMeos
  <2>4. ReadyAfterLoad'
    BY <2>1 DEF LInv, ReadyAfterLoad
  <2>5. ThreadsOfLoads'
    BY <1>0, LoadGoes DEF Ended
  <2> QED BY <1>0, <1>4, <2>1, <2>2, <2>3, <2>4, <2>5 DEF LInv, IInv, LoadTypeOK, ThreadsOfLoads
<1> QED BY <1>1, <1>2, <1>3

\* The rest of LoadInternal, behind all flags.
LEMMA LastStep ==
    ASSUME LInv, NEW d \in Database,
           AutoLoadICU(d) \/ ICUUnavailable(d) \/ SetDefaultZone(d) \/ Register(d)
    PROVE  LInv'
<1> USE Phases
<1>0. /\ LoadTypeOK /\ Alone("srid", "in srid") /\ Alone("ways", "in ways")
      /\ Alone("meos", "in meos") /\ DoneFile("srid") /\ DoneFile("ways") /\ DoneMeos
  BY DEF LInv, OneInside, DoneFlags
<1>1. UNCHANGED <<once, configured, failure, handler, ready>>
  BY DEF AutoLoadICU, ICUUnavailable, SetDefaultZone, Register, unchangedProcess, LoadICU,
         vars, threads
<1>2. PICK p \in {"zone", "register", "loaded"} :
        /\ Goes(d, p)
        /\ phase[d] \in {"icu", "zone", "register"}
        /\ \/ p # "loaded" /\ UNCHANGED loader
           \/ p = "loaded" /\ Ends(d, p)
  BY DEF AutoLoadICU, ICUUnavailable, SetDefaultZone, Register, unchangedProcess, WithoutICU, Ends
<1>3. OneInside'
  BY <1>0, <1>1, <1>2, KeepAlone DEF OneInside
<1>4. DoneFlags'
  BY <1>0, <1>1, <1>2, KeepDoneFile, KeepDoneMeos DEF DoneFlags, DoneFile, DoneMeos
<1>5. ReadyAfterLoad'
  BY <1>1 DEF LInv, ReadyAfterLoad
<1>6. ThreadsOfLoads'
  <2>1. CASE p = "loaded" /\ Ends(d, p)
    BY <1>0, <2>1, LoadEnds DEF Ended
  <2>2. CASE p # "loaded" /\ UNCHANGED loader
    BY <1>0, <1>2, <2>2, LoadGoes DEF Ended
  <2> QED BY <1>2, <2>1, <2>2
<1>7. Next \/ UNCHANGED vars
  <2>1. CASE AutoLoadICU(d)
    BY <2>1 DEF AutoLoadICU, Next
  <2>2. CASE ICUUnavailable(d) \/ Register(d)
    BY <2>2 DEF ICUUnavailable, Register
  <2>3. CASE SetDefaultZone(d)
    <3>1. CASE d = Home
      BY <2>3, <3>1, ZoneAssumption
         DEF SetDefaultZone, SetGlobalTimeZone, Next, Zone, LInv, ZoneOfICU
    <3>2. CASE d # Home
      BY <2>3, <3>2 DEF SetDefaultZone, vars, settings
    <3> QED BY <3>1, <3>2
  <2> QED BY <2>1, <2>2, <2>3
<1>8. IInv'
  BY <1>7, StepIInv DEF LInv
<1>9. ZoneOfICU'
  <2>1. icu => icu'
    BY <1>7 DEF AutoLoadICU, ICUUnavailable, SetDefaultZone, Register, LoadICU, vars, settings
  <2>2. CASE AutoLoadICU(d)
    <3>1. ASSUME d = Home PROVE icu'
      <4>1. CASE ~ icu
        BY <2>2, <3>1, <4>1 DEF AutoLoadICU, LoadICU
      <4> QED BY <2>1, <4>1
    <3>2. Goes(d, "zone")
      BY <2>2 DEF AutoLoadICU
    <3> QED BY <1>0, <2>1, <3>1, <3>2, KeepZoneOfICU DEF LInv
  <2>3. CASE ICUUnavailable(d) \/ SetDefaultZone(d) \/ Register(d)
    <3>1. Goes(d, "register") \/ Goes(d, "loaded")
      BY <2>3 DEF ICUUnavailable, SetDefaultZone, Register, Ends, WithoutICU
    <3> QED BY <1>0, <2>1, <3>1, KeepZoneOfICU DEF LInv
  <2> QED BY <2>2, <2>3
<1> QED BY <1>0, <1>1, <1>3, <1>4, <1>5, <1>6, <1>8, <1>9
        DEF LInv, IInv, LoadTypeOK, ThreadsOfLoads

LEMMA StartStep ==
    ASSUME LInv, NEW d \in Database, NEW t \in Thread, StartLoad(d, t)
    PROVE  LInv'
<1> USE Phases
<1>0. /\ LoadTypeOK /\ Alone("srid", "in srid") /\ Alone("ways", "in ways")
      /\ Alone("meos", "in meos") /\ DoneFile("srid") /\ DoneFile("ways") /\ DoneMeos
  BY DEF LInv, OneInside, DoneFlags
<1>1. /\ UNCHANGED <<vars, once, configured, failure, handler>>
      /\ Goes(d, "srid")
      /\ loader' = [loader EXCEPT ![d] = t]
  BY DEF StartLoad
<1>2. OneInside'
  BY <1>0, <1>1, KeepAlone DEF OneInside
<1>3. DoneFlags'
  BY <1>0, <1>1, KeepDoneFile, KeepDoneMeos DEF DoneFlags, DoneFile, DoneMeos
<1>4. IInv'
  BY <1>1, Stutter DEF LInv
<1>5. ReadyAfterLoad' /\ ZoneOfICU'
  BY <1>0, <1>1, KeepZoneOfICU DEF LInv, ReadyAfterLoad, vars, settings, threads
<1>6. ThreadsOfLoads'
  BY <1>0, <1>1, NobodyAssumption DEF Goes, LoadTypeOK, ThreadsOfLoads, Ended
<1> QED BY <1>0, <1>1, <1>2, <1>3, <1>4, <1>5, <1>6 DEF LInv, IInv, LoadTypeOK, ThreadsOfLoads

LEMMA StepLInv == LInv /\ [LoadNext]_allVars => LInv'
<1> SUFFICES ASSUME LInv, [LoadNext]_allVars PROVE LInv'
  OBVIOUS
<1>1. ASSUME NEW d \in Database, LoadStep(d) PROVE LInv'
  BY <1>1, FileStep, MeosStep, LastStep DEF LoadStep
<1>2. ASSUME NEW d \in Database, NEW t \in Thread, StartLoad(d, t) PROVE LInv'
  BY <1>2, StartStep
<1>3. CASE (Settings \/ Queries) /\ UNCHANGED loading
  BY <1>3, SessionStep
<1>4. CASE UNCHANGED allVars
  <2>1. IInv'
    BY <1>4, Stutter DEF LInv, allVars
  <2>2. LoadTypeOK' /\ OneInside' /\ DoneFlags' /\ ReadyAfterLoad' /\ ZoneOfICU'
    BY <1>4, <2>1
       DEF LInv, IInv, LoadTypeOK, OneInside, Alone, DoneFlags, DoneFile, DoneMeos, ReadyAfterLoad,
           ZoneOfICU, allVars, loading, vars, settings, threads
  <2> QED BY <2>1, <2>2 DEF LInv
<1> QED BY <1>1, <1>2, <1>3, <1>4 DEF LoadNext

-----------------------------------------------------------------------------

\* Every variable of the load keeps its type, and a thread belongs to a load as
\* long as it runs, however it ends.
THEOREM LoadTypeCorrect == LoadSpec => []LoadTypeOK
<1>1. LInv => LoadTypeOK
  BY DEF LInv
<1> QED BY <1>1, InitLInv, StepLInv, PTL DEF LoadSpec

\* A load that succeeds left MEOS with both CSV files, whatever failed before.
THEOREM LoadConfigures == LoadSpec => []LoadedIsConfigured
<1>1. LInv => LoadedIsConfigured
  BY Phases DEF LInv, DoneFlags, DoneFile, LoadedIsConfigured
<1> QED BY <1>1, InitLInv, StepLInv, PTL DEF LoadSpec

\* No load takes the error handler away from the queries of a loaded database.
THEOREM HandlerStays == LoadSpec => []ErrorsAreThrown
<1>1. LInv => ErrorsAreThrown
  BY Phases DEF LInv, DoneFlags, DoneMeos, ErrorsAreThrown
<1> QED BY <1>1, InitLInv, StepLInv, PTL DEF LoadSpec

-----------------------------------------------------------------------------
(* What a load waits for, and that it never starts over: with these, the   *)
(* fairness of LoadSpec is all that LoadsEnd needs.                        *)

\* A flag is busy only while some load runs its function.
HasRunner(f) == once[f] = "busy" => \E d \in Database : phase[d] = Inside[f]
HaveRunners  == \A f \in Flag : HasRunner(f)

\* A load that waits at a call_once waits for exactly one other load, which is
\* inside and so not waiting itself: no flag stays busy behind an exception
\* ("leaves later callers waiting on the flag"), and no two loads wait for each
\* other.
WaitsForOneInside ==
    \A d \in Database, f \in Flag :
        phase[d] = f /\ once[f] = "busy" =>
            \E e \in Database \ {d} :
                phase[e] = Inside[f] /\ \A o \in Database : phase[o] = Inside[f] => o = e

\* How far a load is that stands at p: a call_once that is done counts as passed.
Reached(p, flags) ==
    CASE p = "srid" -> IF flags["srid"] = "done" THEN 3 ELSE 1
      [] p = "in srid" -> 2
      [] p = "ways" -> IF flags["ways"] = "done" THEN 6 ELSE 4
      [] p = "in ways" -> 5
      [] p = "meos" -> IF flags["meos"] = "done" THEN 9 ELSE 7
      [] p = "in meos" -> 8
      [] p = "icu" -> 10 [] p = "zone" -> 11 [] p = "register" -> 12
      [] p \in Ended -> 13
Progress(d) == Reached(phase[d], once)

\* No step sets a running load back, and each of its own brings it on: whatever
\* the other loads do, a load ends within twelve steps of its own.
MovesOn ==
    \A d \in Database : phase[d] \notin Ended =>
        /\ Progress(d)' >= Progress(d)
        /\ LoadStep(d) => Progress(d)' > Progress(d)
LoadsMoveOn == [][MovesOn]_allVars

\* The three kinds of steps a load takes: into a call_once, out of it, or on.
Enters(d, f) ==
    /\ phase[d] = f /\ once[f] = "new"
    /\ once' = [once EXCEPT ![f] = "busy"] /\ Goes(d, Inside[f])

Leaves(d, f) ==
    /\ phase[d] = Inside[f]
    /\ once' = [once EXCEPT ![f] = "done"] /\ Goes(d, f)

NextPhases(p) ==
    CASE p = "srid" -> {"ways", "failed"}
      [] p = "ways" -> {"meos", "failed"}
      [] p = "meos" -> {"icu"}
      [] p = "icu"  -> {"zone", "register"}
      [] p = "zone" -> {"register"}
      [] p = "register" -> {"loaded"}

GoesOnFrom(d, p) ==
    /\ phase[d] = p /\ (p \in Flag => once[p] = "done")
    /\ UNCHANGED once /\ \E q \in NextPhases(p) : Goes(d, q)

LEMMA KindsOfSteps ==
    ASSUME NEW d \in Database, LoadStep(d)
    PROVE  \/ \E f \in Flag : Enters(d, f) \/ Leaves(d, f)
           \/ \E p \in {"srid", "ways", "meos", "icu", "zone", "register"} : GoesOnFrom(d, p)
<1> USE Phases
<1>1. ASSUME NEW f \in File, EnterOnce(d, f) PROVE Enters(d, f)
  BY <1>1 DEF EnterOnce, Enters
<1>2. ASSUME NEW f \in File, Configure(d, f) \/ CannotWrite(d, f) PROVE Leaves(d, f)
  BY <1>2 DEF Configure, CannotWrite, Caught, Returns, Leaves
<1>3. ASSUME NEW f \in File, LeaveOnce(d, f) PROVE GoesOnFrom(d, f)
  <2>1. \E q \in {Follower(f), "failed"} : Goes(d, q)
    BY <1>3 DEF LeaveOnce, Ends
  <2>2. NextPhases(f) = {Follower(f), "failed"}
    BY DEF NextPhases, Follower
  <2> QED BY <1>3, <2>1, <2>2 DEF LeaveOnce, GoesOnFrom
<1>4. ASSUME InitializeMeos(d) PROVE Enters(d, "meos")
  BY <1>4 DEF InitializeMeos, FirstLoad, Enters
<1>5. ASSUME InstallHandler(d) PROVE Leaves(d, "meos")
  BY <1>5 DEF InstallHandler, Returns, Leaves
<1>6. ASSUME LeaveMeosOnce(d) PROVE GoesOnFrom(d, "meos")
  BY <1>6 DEF LeaveMeosOnce, GoesOnFrom, NextPhases
<1>7. ASSUME AutoLoadICU(d) \/ ICUUnavailable(d) PROVE GoesOnFrom(d, "icu")
  BY <1>7 DEF AutoLoadICU, ICUUnavailable, WithoutICU, unchangedProcess, GoesOnFrom, NextPhases
<1>8. ASSUME SetDefaultZone(d) PROVE GoesOnFrom(d, "zone")
  BY <1>8 DEF SetDefaultZone, unchangedProcess, GoesOnFrom, NextPhases
<1>9. ASSUME Register(d) PROVE GoesOnFrom(d, "register")
  BY <1>9 DEF Register, Ends, GoesOnFrom, NextPhases
<1> QED BY <1>1, <1>2, <1>3, <1>4, <1>5, <1>6, <1>7, <1>8, <1>9 DEF LoadStep

LEMMA RunnerStays ==
    ASSUME LoadTypeOK, NEW f \in Flag, NEW d \in Database, NEW p,
           HasRunner(f), Goes(d, p),
           once'[f] = "busy" => p = Inside[f] \/ (once[f] = "busy" /\ phase[d] # Inside[f])
    PROVE  HasRunner(f)'
BY DEF LoadTypeOK, HasRunner, Goes

LEMMA LoadKeepsRunners ==
    ASSUME LInv, HaveRunners, NEW d \in Database, LoadStep(d)
    PROVE  HaveRunners'
<1>0. LoadTypeOK /\ once \in [Flag -> {"new", "busy", "done"}] /\ phase \in [Database -> Phase]
  BY DEF LInv, LoadTypeOK
<1>1. ASSUME NEW g \in Flag, Enters(d, g), NEW f \in Flag PROVE HasRunner(f)'
  BY <1>0, <1>1, Phases, RunnerStays DEF Enters, HaveRunners
<1>2. ASSUME NEW g \in Flag, Leaves(d, g), NEW f \in Flag PROVE HasRunner(f)'
  BY <1>0, <1>2, Phases, RunnerStays DEF Leaves, HaveRunners
<1>3. ASSUME NEW p \in {"srid", "ways", "meos", "icu", "zone", "register"}, GoesOnFrom(d, p),
             NEW f \in Flag
      PROVE  HasRunner(f)'
  BY <1>0, <1>3, Phases, RunnerStays DEF GoesOnFrom, HaveRunners, NextPhases
<1> QED BY <1>1, <1>2, <1>3, KindsOfSteps DEF HaveRunners

LEMMA RunnersStay == LInv /\ HaveRunners /\ [LoadNext]_allVars => HaveRunners'
<1> SUFFICES ASSUME LInv, HaveRunners, [LoadNext]_allVars PROVE HaveRunners'
  OBVIOUS
<1>1. ASSUME NEW d \in Database, NEW t \in Thread, StartLoad(d, t) PROVE HaveRunners'
  <2>1. ASSUME NEW f \in Flag PROVE HasRunner(f)'
    BY <1>1, <2>1, Phases, RunnerStays DEF LInv, HaveRunners, StartLoad
  <2> QED BY <2>1 DEF HaveRunners
<1>2. CASE UNCHANGED <<phase, once>>
  BY <1>2 DEF HaveRunners, HasRunner
<1> QED BY <1>1, <1>2, LoadKeepsRunners DEF LoadNext, loading, allVars

\* A load that waits at a call_once waits for one other load, which is inside.
THEOREM NobodyWaitsForNobody == LoadSpec => []WaitsForOneInside
<1>1. LoadInit => HaveRunners
  BY DEF LoadInit, HaveRunners, HasRunner
<1>2. LInv /\ HaveRunners => WaitsForOneInside
  <2> SUFFICES ASSUME LInv, HaveRunners, NEW d \in Database, NEW f \in Flag,
                      phase[d] = f, once[f] = "busy"
               PROVE  \E e \in Database \ {d} :
                        phase[e] = Inside[f] /\ \A o \in Database : phase[o] = Inside[f] => o = e
    BY DEF WaitsForOneInside
  <2>1. PICK e \in Database : phase[e] = Inside[f]
    BY DEF HaveRunners, HasRunner
  <2>2. Alone(f, Inside[f])
    BY Phases DEF LInv, OneInside
  <2>3. Inside[f] # f
    BY Phases
  <2> QED BY <2>1, <2>2, <2>3 DEF Alone
<1> QED BY <1>1, <1>2, InitLInv, StepLInv, RunnersStay, PTL DEF LoadSpec

LEMMA ReachedIs ==
    ASSUME NEW flags
    PROVE  /\ Reached("srid", flags) = IF flags["srid"] = "done" THEN 3 ELSE 1
           /\ Reached("in srid", flags) = 2
           /\ Reached("ways", flags) = IF flags["ways"] = "done" THEN 6 ELSE 4
           /\ Reached("in ways", flags) = 5
           /\ Reached("meos", flags) = IF flags["meos"] = "done" THEN 9 ELSE 7
           /\ Reached("in meos", flags) = 8
           /\ Reached("icu", flags) = 10 /\ Reached("zone", flags) = 11
           /\ Reached("register", flags) = 12
           /\ Reached("loaded", flags) = 13 /\ Reached("failed", flags) = 13
           /\ Reached("unloaded", flags) = 13
BY DEF Reached, Ended

\* A flag that is done brings on the loads that wait there.
LEMMA ReachedGrows ==
    ASSUME NEW p \in Phase, NEW old, NEW new,
           \A f \in Flag : old[f] = "done" => new[f] = "done"
    PROVE  Reached(p, old) \in Nat /\ Reached(p, new) \in Nat /\ Reached(p, new) >= Reached(p, old)
<1>1. <<Reached(p, old), Reached(p, new)>> \in
          {<<1, 1>>, <<1, 3>>, <<3, 3>>, <<2, 2>>, <<4, 4>>, <<4, 6>>, <<6, 6>>, <<5, 5>>,
           <<7, 7>>, <<7, 9>>, <<9, 9>>, <<8, 8>>, <<10, 10>>, <<11, 11>>, <<12, 12>>, <<13, 13>>}
  <2>1. CASE p = "srid"
    BY <2>1, Phases, ReachedIs
  <2>2. CASE p = "ways"
    BY <2>2, Phases, ReachedIs
  <2>3. CASE p = "meos"
    BY <2>3, Phases, ReachedIs
  <2>4. CASE p \notin Flag
    <3>1. Reached(p, old) = Reached(p, new) /\ Reached(p, old) \in {2, 5, 8, 10, 11, 12, 13}
      <4>1. p \in {"unloaded", "failed", "loaded", "in srid", "in ways", "in meos", "icu", "zone",
                   "register"}
        BY <2>4, Phases
      <4>2. CASE p \in {"unloaded", "failed", "loaded", "register"}
        BY <4>2, ReachedIs
      <4>3. CASE p \in {"in srid", "in ways"}
        BY <4>3, ReachedIs
      <4>4. CASE p = "in meos"
        BY <4>4, ReachedIs
      <4>5. CASE p \in {"icu", "zone"}
        BY <4>5, ReachedIs
      <4> QED BY <4>1, <4>2, <4>3, <4>4, <4>5
    <3> QED BY <3>1
  <2> QED BY <2>1, <2>2, <2>3, <2>4, Phases
<1>2. \A m, n : <<m, n>> \in
          {<<1, 1>>, <<1, 3>>, <<3, 3>>, <<2, 2>>, <<4, 4>>, <<4, 6>>, <<6, 6>>, <<5, 5>>,
           <<7, 7>>, <<7, 9>>, <<9, 9>>, <<8, 8>>, <<10, 10>>, <<11, 11>>, <<12, 12>>, <<13, 13>>}
        => m \in Nat /\ n \in Nat /\ n >= m
  OBVIOUS
<1> QED BY <1>1, <1>2

LEMMA SmallPairs ==
    ASSUME NEW m, NEW n,
           <<m, n>> \in {<<1, 2>>, <<2, 3>>, <<4, 5>>, <<5, 6>>, <<7, 8>>, <<8, 9>>, <<3, 4>>, <<3, 6>>,
                        <<3, 13>>, <<6, 7>>, <<6, 9>>, <<6, 13>>, <<9, 10>>, <<10, 11>>, <<10, 12>>,
                        <<11, 12>>, <<12, 13>>}
    PROVE  n > m
OBVIOUS

\* The load that takes a step gets further, and what it does to a flag brings
\* those that wait there further too.
LEMMA LoadMovesOn ==
    ASSUME LInv, NEW d \in Database, LoadStep(d)
    PROVE  /\ Progress(d)' > Progress(d)
           /\ \A e \in Database \ {d} : Progress(e)' >= Progress(e)
<1> DEFINE To(p) == /\ phase'[d] = p
                   /\ \A e \in Database \ {d} : phase'[e] = phase[e]
                   /\ \A f \in Flag : once[f] = "done" => once'[f] = "done"
<1>0. phase \in [Database -> Phase] /\ once \in [Flag -> {"new", "busy", "done"}]
  BY DEF LInv, LoadTypeOK
<1>1. ASSUME NEW p, To(p), Reached(p, once') > Reached(phase[d], once)
      PROVE  /\ Progress(d)' > Progress(d)
             /\ \A e \in Database \ {d} : Progress(e)' >= Progress(e)
  BY <1>0, <1>1, ReachedGrows DEF Progress
<1>2. ASSUME NEW f \in Flag, Enters(d, f)
      PROVE  To(Inside[f]) /\ Reached(Inside[f], once') > Reached(phase[d], once)
  <2>1. To(Inside[f])
    BY <1>0, <1>2 DEF Enters, Goes
  <2>2. phase[d] = f /\ once[f] = "new"
    BY <1>2 DEF Enters
  <2>3. <<Reached(f, once), Reached(Inside[f], once')>> \in {<<1, 2>>, <<4, 5>>, <<7, 8>>}
    <3>1. CASE f = "srid"
      <4>1. Reached("srid", once) = 1 /\ Reached("in srid", once') = 2
        BY <2>2, <3>1, ReachedIs
      <4> QED BY <3>1, <4>1, Phases
    <3>2. CASE f = "ways"
      <4>1. Reached("ways", once) = 4 /\ Reached("in ways", once') = 5
        BY <2>2, <3>2, ReachedIs
      <4> QED BY <3>2, <4>1, Phases
    <3>3. CASE f = "meos"
      <4>1. Reached("meos", once) = 7 /\ Reached("in meos", once') = 8
        BY <2>2, <3>3, ReachedIs
      <4> QED BY <3>3, <4>1, Phases
    <3> QED BY <3>1, <3>2, <3>3, Phases
  <2>4. Reached(Inside[f], once') > Reached(f, once)
    BY <2>3, SmallPairs
  <2> QED BY <2>1, <2>2, <2>4
<1>3. ASSUME NEW f \in Flag, Leaves(d, f)
      PROVE  To(f) /\ Reached(f, once') > Reached(phase[d], once)
  <2>1. To(f) /\ once'[f] = "done"
    BY <1>0, <1>3 DEF Leaves, Goes
  <2>2. phase[d] = Inside[f]
    BY <1>3 DEF Leaves
  <2>3. <<Reached(Inside[f], once), Reached(f, once')>> \in {<<2, 3>>, <<5, 6>>, <<8, 9>>}
    <3>1. CASE f = "srid"
      <4>1. Reached("in srid", once) = 2 /\ Reached("srid", once') = 3
        BY <2>1, <3>1, ReachedIs
      <4> QED BY <3>1, <4>1, Phases
    <3>2. CASE f = "ways"
      <4>1. Reached("in ways", once) = 5 /\ Reached("ways", once') = 6
        BY <2>1, <3>2, ReachedIs
      <4> QED BY <3>2, <4>1, Phases
    <3>3. CASE f = "meos"
      <4>1. Reached("in meos", once) = 8 /\ Reached("meos", once') = 9
        BY <2>1, <3>3, ReachedIs
      <4> QED BY <3>3, <4>1, Phases
    <3> QED BY <3>1, <3>2, <3>3, Phases
  <2>4. Reached(f, once') > Reached(Inside[f], once)
    BY <2>3, SmallPairs
  <2> QED BY <2>1, <2>2, <2>4
<1>4. ASSUME NEW p \in {"srid", "ways", "meos", "icu", "zone", "register"}, GoesOnFrom(d, p)
      PROVE  \E q \in NextPhases(p) : To(q) /\ Reached(q, once') > Reached(phase[d], once)
  <2>1. PICK q \in NextPhases(p) : To(q)
    BY <1>0, <1>4 DEF GoesOnFrom, Goes
  <2>2. Reached(q, once) > Reached(p, once)
    <3>1. p \in Flag => once[p] = "done"
      BY <1>4 DEF GoesOnFrom
    <3>2. <<p, q>> \in {<<"srid", "ways">>, <<"srid", "failed">>, <<"ways", "meos">>,
                        <<"ways", "failed">>, <<"meos", "icu">>, <<"icu", "zone">>,
                        <<"icu", "register">>, <<"zone", "register">>, <<"register", "loaded">>}
      BY DEF NextPhases
    <3>3. <<Reached(p, once), Reached(q, once)>> \in
              {<<3, 4>>, <<3, 6>>, <<3, 13>>, <<6, 7>>, <<6, 9>>, <<6, 13>>, <<9, 10>>, <<10, 11>>,
               <<10, 12>>, <<11, 12>>, <<12, 13>>}
      <4>1. CASE p = "srid"
        BY <3>1, <3>2, <4>1, Phases, ReachedIs
      <4>2. CASE p = "ways"
        BY <3>1, <3>2, <4>2, Phases, ReachedIs
      <4>3. CASE p = "meos"
        BY <3>1, <3>2, <4>3, Phases, ReachedIs
      <4>4. CASE p \in {"icu", "zone", "register"}
        BY <3>2, <4>4, ReachedIs
      <4> QED BY <3>2, <4>1, <4>2, <4>3, <4>4
    <3> QED BY <3>3, SmallPairs
  <2>3. phase[d] = p /\ once' = once
    BY <1>4 DEF GoesOnFrom
  <2> QED BY <2>1, <2>2, <2>3
<1> HIDE DEF To
<1>5. \E p : To(p) /\ Reached(p, once') > Reached(phase[d], once)
  BY <1>2, <1>3, <1>4, KindsOfSteps
<1> QED BY <1>1, <1>5

\* No step sets a running load back, and its own bring it on.
THEOREM LoadsGetOn == LoadSpec => LoadsMoveOn
<1>1. LInv /\ [LoadNext]_allVars => [MovesOn]_allVars
  <2> SUFFICES ASSUME LInv, [LoadNext]_allVars, NEW d \in Database, phase[d] \notin Ended
               PROVE  Progress(d)' >= Progress(d) /\ (LoadStep(d) => Progress(d)' > Progress(d))
    BY DEF MovesOn
  <2>1. phase[d] \in Phase /\ Progress(d) \in Nat
    BY ReachedGrows DEF LInv, LoadTypeOK, Progress
  <2>2. CASE LoadStep(d)
    <3>1. Progress(d)' > Progress(d)
      BY <2>2, LoadMovesOn
    <3>2. phase'[d] \in Phase
      BY StepLInv DEF LInv, LoadTypeOK
    <3>3. Progress(d)' \in Nat
      BY <3>2, ReachedGrows DEF Progress
    <3> QED BY <2>1, <3>1, <3>3
  <2>3. ASSUME ~ LoadStep(d) PROVE Progress(d)' >= Progress(d)
    <3>1. ASSUME NEW e \in Database, LoadStep(e) PROVE Progress(d)' >= Progress(d)
      BY <2>3, <3>1, LoadMovesOn
    <3>2. ASSUME UNCHANGED <<phase[d], once>> PROVE Progress(d)' >= Progress(d)
      BY <2>1, <3>2 DEF Progress
    <3>3. ASSUME NEW e \in Database, NEW t \in Thread, StartLoad(e, t)
          PROVE  UNCHANGED <<phase[d], once>>
      BY <3>3 DEF StartLoad, Goes, LInv, LoadTypeOK, Ended
    <3>4. UNCHANGED loading => UNCHANGED <<phase[d], once>>
      BY DEF loading
    <3> QED BY <3>1, <3>2, <3>3, <3>4 DEF LoadNext, allVars
  <2> QED BY <2>2, <2>3
<1> QED BY <1>1, InitLInv, StepLInv, PTL DEF LoadSpec, LoadsMoveOn

-----------------------------------------------------------------------------
(* Refinement.                                                             *)

\* A call of a session runs on a thread whose zone MeosThread sees as it is, or
\* on one that nobody has initialised.
LEMMA QueryMaps ==
    ASSUME LInv, Queries
    PROVE  Threads!Next
<1> DEFINE seen == [t \in Thread |-> IF ready[t] THEN held[t] ELSE NoZone]
<1>0. TypeOK
  BY DEF LInv, IInv
<1>1. ASSUME NEW t \in Thread, ready'[t], NEW h,
             ready' = [ready EXCEPT ![t] = TRUE], held' = [held EXCEPT ![t] = h]
      PROVE  seen' = [seen EXCEPT ![t] = h]
  BY <1>0, <1>1 DEF TypeOK
<1>2. \A t \in Thread : Threads!Initialized(t) = Initialized(t)
  BY DEF Threads!Initialized, Initialized
<1>3. ASSUME NEW t \in Thread, NEW z, FollowSessionTimezone(t, z)
      PROVE  Threads!FollowSessionTimezone(t, z) /\ seen'[t] = held'[t]
  <2>1. ready'[t]
    BY <1>0, <1>3 DEF FollowSessionTimezone, TypeOK
  <2>2. seen' = [seen EXCEPT ![t] = IF Switches(t, z) THEN Loaded(z) ELSE Initialized(t)]
    BY <1>1, <1>3, <2>1 DEF FollowSessionTimezone
  <2>3. seen'[t] = held'[t]
    BY <2>1
  <2> QED BY <1>2, <1>3, <2>2, <2>3
          DEF FollowSessionTimezone, Threads!FollowSessionTimezone, Switches, Threads!Switches,
              Loaded, Threads!Loaded, Recorded, Threads!Recorded
<1>4. ASSUME NEW t \in Thread, NEW s \in Session, NEW z \in Zone \union {NoZone}, Calls(t, s, z)
      PROVE  Threads!Calls(t, s, z)
  BY <1>3, <1>4
     DEF Calls, Threads!Calls, Follows, Threads!Follows, Switches, Threads!Switches, CastsEnd,
         Threads!CastsEnd, settings, Threads!settings
<1>5. ASSUME NEW s \in Session, CastInitLocal(s) PROVE Threads!CastInitLocal(s)
  BY <1>5 DEF CastInitLocal, Threads!CastInitLocal, SessionTimezone, Threads!SessionTimezone,
              settings, Threads!settings, threads, Threads!threads, Cardinality, Threads!Cardinality
<1>6. ASSUME NEW t \in Thread, CallContextlessCast(t) PROVE Threads!CallContextlessCast(t)
  BY <1>3, <1>6 DEF CallContextlessCast, Threads!CallContextlessCast, NoCall, Threads!NoCall,
                    settings, Threads!settings
<1>7. ASSUME NEW t \in Thread, CallAggregate(t) PROVE Threads!CallAggregate(t)
  <2>1. seen' = [seen EXCEPT ![t] = Initialized(t)]
    BY <1>0, <1>1, <1>7 DEF CallAggregate, TypeOK
  <2> QED BY <1>2, <1>7, <2>1 DEF CallAggregate, Threads!CallAggregate, NoCall, Threads!NoCall,
                    settings, Threads!settings
<1>8. ASSUME NEW t \in Thread, NEW s \in Session, CallScalar(t, s) PROVE Threads!CallScalar(t, s)
  <2>1. PICK z \in Zone \union {NoZone} : z = SessionTimezone(s)
    BY SessionStates DEF LInv
  <2>2. Threads!SessionTimezone(s) = z
    BY <2>1 DEF SessionTimezone, Threads!SessionTimezone
  <2>3. Calls(t, s, z)
    BY <1>8, <2>1 DEF CallScalar, Calls, FollowSessionTimezone, Follows, Switches
  <2>4. Threads!Calls(t, s, z)
    BY <1>4, <2>3
  <2> QED BY <2>2, <2>4 DEF Threads!CallScalar, Threads!Calls, Threads!FollowSessionTimezone,
                            Threads!Follows, Threads!Switches
<1>9. ASSUME NEW t \in Thread, NEW s \in Session, CallCast(t, s) PROVE Threads!CallCast(t, s)
  <2>1. PICK z \in Carried(s) : Calls(t, s, z)
    BY <1>9 DEF CallCast
  <2>2. z \in Zone \union {NoZone} /\ z \in Threads!Carried(s)
    BY DEF Carried, Threads!Carried, Zone, Threads!Zone
  <2>3. Threads!Calls(t, s, z)
    BY <1>4, <2>1, <2>2
  <2> QED BY <2>2, <2>3 DEF Threads!CallCast
<1> QED BY <1>5, <1>6, <1>7, <1>8, <1>9 DEF Queries, Threads!Next

LEMMA SettingMaps ==
    ASSUME Settings
    PROVE  Threads!Next
<1>1. ASSUME LoadICU PROVE Threads!LoadICU
  BY <1>1 DEF LoadICU, Threads!LoadICU, Zone, Threads!Zone, threads, Threads!threads
<1>2. ASSUME SetGlobalTimeZone PROVE Threads!SetGlobalTimeZone
  BY <1>2 DEF SetGlobalTimeZone, Threads!SetGlobalTimeZone, Zone, Threads!Zone, threads,
              Threads!threads
<1>3. ASSUME NEW s \in Session, SetTimeZone(s) PROVE Threads!SetTimeZone(s)
  BY <1>3 DEF SetTimeZone, Threads!SetTimeZone, Zone, Threads!Zone, Carried, Threads!Carried,
              threads, Threads!threads
<1>4. ASSUME NEW s \in Session, EndQuery(s) PROVE Threads!EndQuery(s)
  BY <1>4 DEF EndQuery, Threads!EndQuery, Carried, Threads!Carried, Zone, Threads!Zone, CastsEnd,
              Threads!CastsEnd, settings, Threads!settings, threads, Threads!threads
<1> QED BY <1>1, <1>2, <1>3, <1>4 DEF Settings, Threads!Next

LEMMA UnchangedMaps == UNCHANGED vars => UNCHANGED Threads!vars
BY DEF vars, settings, threads, Threads!vars, Threads!settings, Threads!threads

\* A load initialises MEOS on a thread nobody has used, which MeosThread does not
\* see, and sets the zone of new sessions where SET GLOBAL TimeZone could.
LEMMA LoadMaps ==
    ASSUME LInv, NEW d \in Database, LoadStep(d)
    PROVE  Threads!Next \/ UNCHANGED Threads!vars
<1>1. CASE InitializeMeos(d)
  <2>1. \A t \in Thread : ~ ready[t]
    BY <1>1 DEF InitializeMeos, FirstLoad, LInv, ReadyAfterLoad
  <2> QED BY <1>1, <2>1 DEF InitializeMeos, settings, Threads!vars, Threads!settings,
                            Threads!threads
<1>2. CASE AutoLoadICU(d)
  <2>1. LoadICU \/ UNCHANGED vars
    BY <1>2 DEF AutoLoadICU
  <2> QED BY <2>1, SettingMaps, UnchangedMaps DEF Settings
<1>3. CASE SetDefaultZone(d)
  <2>1. CASE d = Home
    <3>1. SetGlobalTimeZone
      BY <1>3, <2>1, ZoneAssumption DEF SetDefaultZone, SetGlobalTimeZone, Zone, LInv, ZoneOfICU
    <3> QED BY <3>1, SettingMaps DEF Settings
  <2>2. CASE d # Home
    BY <1>3, <2>2, UnchangedMaps DEF SetDefaultZone, vars, settings
  <2> QED BY <2>1, <2>2
<1>4. CASE UNCHANGED vars
  BY <1>4, UnchangedMaps
<1> QED BY <1>1, <1>2, <1>3, <1>4
        DEF LoadStep, EnterOnce, Configure, CannotWrite, LeaveOnce, InstallHandler, LeaveMeosOnce,
            ICUUnavailable, Register

\* Whatever loads run and fail, in whatever databases of the process, the threads
\* and the sessions of a database behave as MeosThread says.
THEOREM LoadsKeepThreads == LoadSpec => ImplementsMeosThread
<1>1. LoadInit => Threads!Init
  <2> SUFFICES ASSUME LoadInit PROVE Threads!Init
    OBVIOUS
  <2>1. \A t \in Thread : ~ ready[t]
    BY DEF LoadInit, Init
  <2>2. [t \in Thread |-> IF ready[t] THEN held[t] ELSE NoZone] = [t \in Thread |-> NoZone]
    BY <2>1
  <2> QED BY <2>2 DEF LoadInit, Init, Threads!Init, NoCall, Threads!NoCall
<1>2. LInv /\ [LoadNext]_allVars => [Threads!Next]_(Threads!vars)
  <2> SUFFICES ASSUME LInv, [LoadNext]_allVars PROVE [Threads!Next]_(Threads!vars)
    OBVIOUS
  <2>1. ASSUME NEW d \in Database, NEW t \in Thread, StartLoad(d, t) PROVE UNCHANGED Threads!vars
    BY <2>1, UnchangedMaps DEF StartLoad
  <2>2. CASE UNCHANGED allVars
    BY <2>2, UnchangedMaps DEF allVars
  <2> QED BY <2>1, <2>2, LoadMaps, QueryMaps, SettingMaps DEF LoadNext
<1> QED BY <1>1, <1>2, InitLInv, StepLInv, PTL DEF LoadSpec, ImplementsMeosThread, Threads!Spec
=============================================================================
