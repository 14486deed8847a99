----------------------------- MODULE Environment -----------------------------
(***************************************************************************)
(* exodbc::Environment (src/Environment.cpp): the environment handles, the *)
(* ODBC version set on each and remembered, the settings of the driver     *)
(* manager, and ListDataSources, which asks the driver manager for one     *)
(* data source at a time in two passes while others add and remove them.   *)
(***************************************************************************)
EXTENDS Integers, Sequences, FiniteSets

CONSTANTS
  Envs,        \* Environment objects
  Dsns,        \* names of data sources, in the order they are listed: 1..n
  SystemDsns,  \* those of the system; the others are the user's
  MaxLength,   \* bound: the longest description
  None,        \* no environment
  FaultSets    \* the sets of faults to be considered, below

(***************************************************************************)
(*   "change"         data sources are added and removed during a listing  *)
(*   "dm_fails"       SQLDataSources returns SQL_ERROR                     *)
(*   "version_fails"  the version cannot be set, or read back              *)
(*   "odd_version"    the driver manager reports a version it was not set  *)
(*                    to, and that the library does not know               *)
(*   "settings"       callers change the settings of the driver manager    *)
(***************************************************************************)
FaultKinds == {"change", "dm_fails", "version_fails", "odd_version", "settings"}

ASSUME FaultsAssumption == FaultSets \subseteq SUBSET FaultKinds
ASSUME LengthAssumption == MaxLength \in Nat \ {0}
ASSUME DsnsAssumption == Dsns \subseteq Nat \ {0} /\ SystemDsns \subseteq Dsns
ASSUME NoneAssumption == None \notin Envs

VARIABLES
  allocated,  \* the environments whose handle is allocated
  version,    \* m_odbcVersion of each
  dmVersion,  \* SQL_ATTR_ODBC_VERSION of each, at the driver manager
  settings,   \* trace, trace file and pooling of the driver manager
  pooled,     \* the pooling and matching each environment has got
  sources,    \* the length of the description of each data source there is
  scan,       \* the listing that is under way
  result,     \* the listing that has ended last
  seen,       \* the data sources there have been since it began
  changed,    \* something has changed since it began
  faults      \* what happens beyond the discipline in this behaviour

vars == <<allocated, version, dmVersion, settings, pooled, sources, scan, result, seen, changed, faults>>
handles == <<allocated, version, dmVersion>>

UNKNOWN == 0
Versions == {2, 3, 380}
Odd == 4

NoSources == [d \in {} |-> 0]
NoResult == [res |-> "none", mode |-> "all", listed |-> << >>]
Idle == [on |-> None, pass |-> 0, mode |-> "all", at |-> 0, longest |-> 0, name |-> 0, listed |-> << >>]

\* The caller of ListDataSources waits for it; what is called afterwards leaves
\* what was listed behind.
NotListing == scan = Idle /\ scan' = Idle /\ result' = NoResult /\ seen' = {} /\ changed' = FALSE

-----------------------------------------------------------------------------
(* The handle and its version. *)

\* ReadOdbcVersion: what the driver manager reports, if the library knows it.
Known(v, before) == IF v \in Versions THEN v ELSE before

Reported(v) == {v} \union (IF "odd_version" \in faults THEN {Odd} ELSE {})

\* SetOdbcVersion on an allocated handle, with the version read back.
Sets(e, v) ==
  \E now \in Reported(v) :
    dmVersion' = [dmVersion EXCEPT ![e] = now] /\ version' = [version EXCEPT ![e] = Known(now, @)]

SetFails(e, v) ==
  /\ "version_fails" \in faults
  /\ dmVersion' \in {dmVersion, [dmVersion EXCEPT ![e] = v]}
  /\ UNCHANGED version

SetOdbcVersion(e) ==
  /\ NotListing /\ e \in allocated
  /\ \E v \in Versions : Sets(e, v) \/ SetFails(e, v)
  /\ UNCHANGED <<allocated, settings, pooled, sources, faults>>

\* Init, which asserts that there is no handle; it is kept if the version fails.
InitEnv(e) ==
  /\ NotListing /\ e \notin allocated
  /\ allocated' = allocated \union {e}
  /\ pooled' = [pooled EXCEPT ![e].pooling = settings.pooling]
  /\ \E v \in Versions : Sets(e, v) \/ SetFails(e, v)
  /\ UNCHANGED <<settings, sources, faults>>

\* The copy constructor: a handle of its own, with the version of the other.  If
\* Init throws there is no copy.  A version not known is looked up first.
Copy(e, other) ==
  LET v == IF version[other] = UNKNOWN /\ other \in allocated
           THEN Known(dmVersion[other], UNKNOWN) ELSE version[other]
  IN /\ NotListing /\ e # other /\ e \notin allocated
     /\ v # UNKNOWN
     /\ allocated' = allocated \union {e}
     /\ pooled' = [pooled EXCEPT ![e].pooling = settings.pooling]
     /\ \E now \in Reported(v) :
          /\ dmVersion' = [dmVersion EXCEPT ![e] = now]
          /\ version' = [version EXCEPT ![e] = Known(now, UNKNOWN), ![other] = v]
     /\ UNCHANGED <<settings, sources, faults>>

\* GetOdbcVersion asks the driver manager only for what is not known.
GetOdbcVersion(e) ==
  /\ NotListing /\ e \in allocated /\ version[e] = UNKNOWN
  /\ version' = [version EXCEPT ![e] = Known(dmVersion[e], @)]
  /\ UNCHANGED <<allocated, dmVersion, settings, pooled, sources, faults>>

\* The destructor frees the handle; the object can be built anew.
DestroyEnv(e) ==
  /\ NotListing /\ e \in allocated
  /\ allocated' = allocated \ {e}
  /\ version' = [version EXCEPT ![e] = UNKNOWN] /\ dmVersion' = [dmVersion EXCEPT ![e] = UNKNOWN]
  /\ pooled' = [pooled EXCEPT ![e] = [pooling |-> "off", match |-> "strict"]]
  /\ UNCHANGED <<settings, sources, faults>>

-----------------------------------------------------------------------------
(* Settings of the driver manager, for all of the program. *)

\* SetTrace and SetTracefile; GetTrace and GetTracefile read them back, the file
\* into a buffer for MAX_PATH characters.
SetTrace == \E on \in BOOLEAN : settings' = [settings EXCEPT !.trace = on]
SetTracefile == \E f \in {"short", "beyond MAX_PATH"} : settings' = [settings EXCEPT !.file = f]
GetTracefile(s) == IF s.file = "beyond MAX_PATH" THEN "cut" ELSE s.file

\* EnableConnectionPooling is for environments allocated from now on.
EnableConnectionPooling ==
  \E p \in {"off", "on"} : settings' = [settings EXCEPT !.pooling = p]

ChangeSettings ==
  /\ NotListing /\ "settings" \in faults
  /\ SetTrace \/ SetTracefile \/ EnableConnectionPooling
  /\ UNCHANGED <<handles, pooled, sources, faults>>

SetConnctionPoolingMatch(e) ==
  /\ NotListing /\ "settings" \in faults /\ e \in allocated
  /\ \E m \in {"strict", "relaxed"} : pooled' = [pooled EXCEPT ![e].match = m]
  /\ UNCHANGED <<handles, settings, sources, faults>>

-----------------------------------------------------------------------------
(* ListDataSources. *)

\* The data sources a mode lists, and the first of them after another: the driver
\* manager looks at what there is at each call.
Of(mode) == CASE mode = "all"    -> DOMAIN sources
              [] mode = "system" -> DOMAIN sources \cap SystemDsns
              [] mode = "user"   -> DOMAIN sources \ SystemDsns
After(mode, d) == {n \in Of(mode) : n > d}
Least(S) == CHOOSE n \in S : \A m \in S : n <= m

\* Slip: the length is that of the description seen last.
LastLength(a, b) == b

Longer(a, b) == IF a > b THEN a ELSE b

\* An entry of the result: whole, or cut off at the longest description of the
\* first pass.
Entry(d, longest) == [dsn |-> d, text |-> IF sources[d] <= longest THEN "whole" ELSE "cut"]

Throw == scan' = Idle /\ result' = [res |-> "failed", mode |-> scan.mode, listed |-> << >>]
Return(list) == scan' = Idle /\ result' = [res |-> "ok", mode |-> scan.mode, listed |-> list]

Begin(e) ==
  /\ scan = Idle /\ e \in allocated
  /\ \E mode \in {"all", "system", "user"} : scan' = [Idle EXCEPT !.on = e, !.pass = 1, !.mode = mode]
  /\ seen' = DOMAIN sources /\ changed' = FALSE /\ result' = NoResult
  /\ UNCHANGED <<handles, settings, pooled, sources, faults>>

\* The first pass remembers the length of the longest description.
AskLength ==
  /\ scan.pass = 1
  /\ LET rest == After(scan.mode, scan.at) IN
       \/ "dm_fails" \in faults /\ Throw
       \/ /\ rest # {}
          /\ scan' = [scan EXCEPT !.at = Least(rest), !.name = Least(rest),
                                  !.longest = Longer(@, sources[Least(rest)])]
          /\ UNCHANGED result
       \/ rest = {} /\ scan.at = 0 /\ Return(<< >>)
       \/ /\ rest = {} /\ scan.at # 0
          /\ scan' = [scan EXCEPT !.pass = 2, !.at = 0] /\ UNCHANGED result
  /\ UNCHANGED <<handles, settings, pooled, sources, seen, changed, faults>>

\* Slip: what the first call of the second pass returns is not looked at.
FirstTextUnchecked ==
  LET rest == After(scan.mode, 0) IN
    \/ "dm_fails" \in faults /\ scan' = [scan EXCEPT !.pass = 3,
         !.listed = <<[dsn |-> scan.name, text |-> "garbage"]>>] /\ UNCHANGED result
    \/ /\ rest = {}
       /\ scan' = [scan EXCEPT !.pass = 3, !.listed = <<[dsn |-> scan.name, text |-> "garbage"]>>]
       /\ UNCHANGED result
    \/ /\ rest # {}
       /\ scan' = [scan EXCEPT !.pass = 3, !.at = Least(rest), !.name = Least(rest),
                               !.listed = <<Entry(Least(rest), scan.longest)>>]
       /\ UNCHANGED result

\* The first call of the second pass is only asked whether there is no data: after
\* an error the name found last is stored, with a buffer nobody has written.
FirstText ==
  LET rest == After(scan.mode, 0) IN
    \/ "dm_fails" \in faults /\ scan' = [scan EXCEPT !.pass = 3,
         !.listed = <<[dsn |-> scan.name, text |-> "garbage"]>>] /\ UNCHANGED result
    \/ rest = {} /\ Throw
    \/ /\ rest # {}
       /\ scan' = [scan EXCEPT !.pass = 3, !.at = Least(rest), !.name = Least(rest),
                               !.listed = <<Entry(Least(rest), scan.longest)>>]
       /\ UNCHANGED result

AskFirstText ==
  scan.pass = 2 /\ FirstText /\ UNCHANGED <<handles, settings, pooled, sources, seen, changed, faults>>

AskNextText ==
  /\ scan.pass = 3
  /\ LET rest == After(scan.mode, scan.at) IN
       \/ "dm_fails" \in faults /\ Throw
       \/ rest = {} /\ Return(scan.listed)
       \/ /\ rest # {}
          /\ scan' = [scan EXCEPT !.at = Least(rest), !.name = Least(rest),
                                  !.listed = Append(@, Entry(Least(rest), scan.longest))]
          /\ UNCHANGED result
  /\ UNCHANGED <<handles, settings, pooled, sources, seen, changed, faults>>

-----------------------------------------------------------------------------
\* Others add and remove data sources, or describe them anew.
Add(d) == \E n \in 1 .. MaxLength :
            sources' = [x \in DOMAIN sources \union {d} |-> IF x = d THEN n ELSE sources[x]]
Remove(d) == d \in DOMAIN sources /\ sources' = [x \in DOMAIN sources \ {d} |-> sources[x]]

SourcesChange ==
  /\ \E d \in Dsns : Add(d) \/ Remove(d)
  /\ \/ NotListing
     \/ /\ "change" \in faults /\ scan # Idle
        /\ changed' = TRUE /\ seen' = seen \union DOMAIN sources'
        /\ UNCHANGED <<scan, result>>
  /\ UNCHANGED <<handles, settings, pooled, faults>>

Init ==
  /\ faults \in FaultSets
  /\ allocated = {} /\ version = [e \in Envs |-> UNKNOWN] /\ dmVersion = [e \in Envs |-> UNKNOWN]
  /\ settings = [trace |-> FALSE, file |-> "short", pooling |-> "off"]
  /\ pooled = [e \in Envs |-> [pooling |-> "off", match |-> "strict"]]
  /\ sources = NoSources /\ scan = Idle /\ result = NoResult /\ seen = {} /\ changed = FALSE

Next ==
  \/ \E e \in Envs : \/ InitEnv(e) \/ SetOdbcVersion(e) \/ GetOdbcVersion(e) \/ DestroyEnv(e)
                     \/ SetConnctionPoolingMatch(e) \/ Begin(e)
                     \/ \E other \in Envs : Copy(e, other)
  \/ ChangeSettings \/ SourcesChange
  \/ AskLength \/ AskFirstText \/ AskNextText

Spec == Init /\ [][Next]_vars

-----------------------------------------------------------------------------
(* What makes it correct. *)

Without(kinds) == faults \cap kinds = {}

DriverSettings == [trace : BOOLEAN, file : {"short", "beyond MAX_PATH"}, pooling : {"off", "on"}]

TypeOK ==
  /\ faults \in FaultSets
  /\ allocated \subseteq Envs
  /\ version \in [Envs -> Versions \union {UNKNOWN}]
  /\ dmVersion \in [Envs -> Versions \union {UNKNOWN, Odd}]
  /\ settings \in DriverSettings
  /\ DOMAIN sources \subseteq Dsns /\ seen \subseteq Dsns
  /\ scan.on \in Envs \union {None} /\ scan.pass \in 0 .. 3
  /\ result.res \in {"none", "ok", "failed"}

\* The version remembered is the one the driver manager works with, for a handle
\* and for a copy of it, and a handle has one: Init can be tried again unless
\* setting the version has failed once.
VersionCurrent ==
  /\ Without({"version_fails", "odd_version"}) => \A e \in Envs : version[e] = dmVersion[e]
  /\ Without({"version_fails", "odd_version"}) => \A e \in Envs : e \in allocated <=> version[e] # UNKNOWN

\* A listing that returns, and during which nothing has changed, has all the data
\* sources of its kind, each once, in order, and each with its whole description.
ListingWhole ==
  (Without({"dm_fails"}) /\ result.res = "ok" /\ ~changed) =>
    /\ {result.listed[i].dsn : i \in DOMAIN result.listed} = Of(result.mode)
    /\ Len(result.listed) = Cardinality(Of(result.mode))
    /\ \A i \in DOMAIN result.listed : result.listed[i].text = "whole"

\* Whatever others do meanwhile, a listing that returns has only data sources there
\* have been since it began, none twice, and descriptions that have been read.
NothingInvented ==
  (Without({"dm_fails"}) /\ result.res = "ok") =>
    /\ \A i \in DOMAIN result.listed :
         result.listed[i].dsn \in seen /\ result.listed[i].text # "garbage"
    /\ \A i, j \in DOMAIN result.listed : i < j => result.listed[i].dsn < result.listed[j].dsn
=============================================================================
