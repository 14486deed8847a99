-------------------------- MODULE EnvironmentProofs --------------------------
(***************************************************************************)
(* What an Environment promises, for any number of environments and data   *)
(* sources: the version it remembers is the one the driver manager works   *)
(* with, and a listing of the data sources is whole if nothing changes     *)
(* while it is made, and never invents one.                                *)
(***************************************************************************)
EXTENDS Environment, FiniteSetTheorems, WellFoundedInduction, TLAPS

Modes == {"all", "system", "user"}
Entries == [dsn : Nat, text : {"whole", "cut", "garbage"}]

Scans == [on : Envs \union {None}, pass : {0, 1, 2, 3}, mode : Modes, at : Nat,
          longest : Nat, name : Nat, listed : Seq(Entries)]
Results == [res : {"none", "ok", "failed"}, mode : Modes, listed : Seq(Entries)]

Types ==
  /\ TypeOK
  /\ sources \in [DOMAIN sources -> Nat]
  /\ scan \in Scans
  /\ result \in Results

\* What a list of entries has, whoever holds it.
Names(list) == {list[i].dsn : i \in DOMAIN list}
Ascending(list) == \A i, j \in DOMAIN list : i < j => list[i].dsn < list[j].dsn
Read(list) == \A i \in DOMAIN list : list[i].dsn \in seen /\ list[i].text # "garbage"
Whole(list) == \A i \in DOMAIN list : list[i].text = "whole"
UpTo(list, d) == \A i \in DOMAIN list : list[i].dsn <= d

(* The two passes, while nothing has changed: the first has measured all there
   is up to where it stands, the second has listed all there is up to where it
   stands, and no description is longer than the first has found. *)
Measured == \A d \in Of(scan.mode) : (scan.pass # 1 \/ d <= scan.at) => sources[d] <= scan.longest
Listed == Names(scan.listed) = {d \in Of(scan.mode) : d <= scan.at} /\ Whole(scan.listed)

Passes ==
  /\ scan.pass = 0 <=> scan = Idle
  /\ scan.pass # 0 => result = NoResult /\ DOMAIN sources \subseteq seen
  /\ scan.pass = 3 => Ascending(scan.listed) /\ Read(scan.listed) /\ UpTo(scan.listed, scan.at)
  /\ scan.pass # 0 /\ ~changed => Measured
  /\ scan.pass = 3 /\ ~changed => Listed

(* Both properties of a listing speak of what it returns; Passes is what they
   follow from when it does. *)
IInv == Types /\ (Without({"dm_fails"}) => Passes) /\ ListingWhole /\ NothingInvented

-----------------------------------------------------------------------------
(* Sets of names and lists of entries. *)

LEMMA LeastIsLeast ==
  ASSUME NEW S \in SUBSET Nat, S # {}
  PROVE  Least(S) \in S /\ \A m \in S : Least(S) <= m
<1>1. PICK n \in S : TRUE
  OBVIOUS
<1> DEFINE R == OpToRel(<, Nat)
<1>2. ASSUME NEW k \in Nat, NEW m \in Nat, ~(<<k, m>> \in R) PROVE m <= k
  <2>1. <<k, m>> \in Nat \X Nat
    OBVIOUS
  <2>2. ~(k < m)
    BY <1>2, <2>1 DEF OpToRel
  <2> QED BY <2>2
<1>3. IsWellFoundedOn(R, Nat)
  BY NatLessThanWellFounded
<1> HIDE DEF R
<1>4. PICK m \in S : \A k \in S : ~(<<k, m>> \in R)
  BY <1>1, <1>3, WFMin
<1>5. \A k \in S : m <= k
  BY <1>2, <1>4
<1> QED BY <1>5 DEF Least

LEMMA LeastAfter ==
  ASSUME DOMAIN sources \subseteq Dsns, NEW mode \in Modes, NEW d \in Nat,
         After(mode, d) # {}
  PROVE  /\ Least(After(mode, d)) \in DOMAIN sources
         /\ Least(After(mode, d)) \in Nat
         /\ Least(After(mode, d)) > d
         /\ {n \in Of(mode) : n <= Least(After(mode, d))}
              = {n \in Of(mode) : n <= d} \union {Least(After(mode, d))}
<1>1. Of(mode) \subseteq DOMAIN sources
  BY DEF Of, Modes
<1>2. Of(mode) \subseteq Nat
  BY <1>1, DsnsAssumption
<1>3. /\ Least(After(mode, d)) \in After(mode, d)
      /\ \A m \in After(mode, d) : Least(After(mode, d)) <= m
  BY <1>2, LeastIsLeast DEF After
<1> DEFINE l == Least(After(mode, d))
<1>4. l \in Of(mode) /\ l > d /\ \A n \in Of(mode) : n > d => l <= n
  BY <1>3 DEF After
<1> HIDE DEF l
<1>5. ASSUME NEW n \in Of(mode) PROVE n <= l <=> n <= d \/ n = l
  BY <1>2, <1>4, <1>5
<1>6. {n \in Of(mode) : n <= l} = {n \in Of(mode) : n <= d} \union {l}
  BY <1>4, <1>5
<1> QED BY <1>1, <1>2, <1>4, <1>6 DEF l

LEMMA AppendEntry ==
  ASSUME NEW list \in Seq(Entries), NEW e \in Entries
  PROVE  /\ Append(list, e) \in Seq(Entries)
         /\ Names(Append(list, e)) = Names(list) \union {e.dsn}
         /\ Read(list) /\ e.dsn \in seen /\ e.text # "garbage" => Read(Append(list, e))
         /\ Whole(list) /\ e.text = "whole" => Whole(Append(list, e))
         /\ \A d \in Nat : Ascending(list) /\ UpTo(list, d) /\ e.dsn > d =>
              Ascending(Append(list, e)) /\ UpTo(Append(list, e), e.dsn)
<1> DEFINE more == Append(list, e)
<1>1. /\ more \in Seq(Entries) /\ DOMAIN more = 1 .. Len(list) + 1 /\ DOMAIN list = 1 .. Len(list)
      /\ Len(list) \in Nat /\ more[Len(list) + 1] = e
      /\ \A i \in DOMAIN list : more[i] = list[i]
  OBVIOUS
<1>a. DOMAIN more = DOMAIN list \union {Len(list) + 1}
  BY <1>1
<1> HIDE DEF more
<1>2. Names(more) = Names(list) \union {e.dsn}
  BY <1>1, <1>a DEF Names
<1>3. Read(list) /\ e.dsn \in seen /\ e.text # "garbage" => Read(more)
  BY <1>1, <1>a DEF Read
<1>4. Whole(list) /\ e.text = "whole" => Whole(more)
  BY <1>1, <1>a DEF Whole
<1>5. ASSUME NEW d \in Nat, Ascending(list), UpTo(list, d), e.dsn > d
      PROVE  Ascending(more) /\ UpTo(more, e.dsn)
  <2>0. \A i \in DOMAIN list : list[i] \in Entries
    OBVIOUS
  <2>1. \A i \in DOMAIN list : list[i].dsn \in Nat /\ list[i].dsn <= d /\ list[i].dsn < e.dsn
    BY <1>5, <2>0 DEF UpTo, Entries
  <2>2. UpTo(more, e.dsn)
    BY <1>1, <1>a, <1>5, <2>1 DEF UpTo, Entries
  <2>3. ASSUME NEW i \in DOMAIN more, NEW j \in DOMAIN more, i < j
        PROVE  more[i].dsn < more[j].dsn
    <3>1. i \in DOMAIN list
      BY <1>1, <2>3
    <3>2. CASE j \in DOMAIN list
      BY <1>1, <1>5, <2>3, <3>1, <3>2 DEF Ascending
    <3>3. CASE j = Len(list) + 1
      BY <1>1, <2>1, <3>1, <3>3
    <3> QED BY <1>a, <3>2, <3>3
  <2> QED BY <2>2, <2>3 DEF Ascending
<1> QED BY <1>1, <1>2, <1>3, <1>4, <1>5 DEF more

LEMMA AscendingCounts ==
  ASSUME NEW list \in Seq(Entries), Ascending(list)
  PROVE  Len(list) = Cardinality(Names(list))
<1> DEFINE f == [i \in 1 .. Len(list) |-> list[i].dsn]
<1>1. Len(list) \in Nat /\ DOMAIN list = 1 .. Len(list)
  OBVIOUS
<1>a. \A i \in 1 .. Len(list) : list[i] \in Entries
  BY <1>1
<1>b. \A i \in 1 .. Len(list) : list[i].dsn \in Nat
  BY <1>a DEF Entries
<1>2. ASSUME NEW i \in 1 .. Len(list), NEW j \in 1 .. Len(list), list[i].dsn = list[j].dsn
      PROVE  i = j
  <2>1. ~(i < j) /\ ~(j < i)
    BY <1>1, <1>2, <1>b DEF Ascending
  <2> QED BY <2>1
<1>3. f \in Bijection(1 .. Len(list), Names(list))
  BY <1>1, <1>2 DEF Names, Bijection, Injection, Surjection, IsInjective
<1>4. ExistsBijection(1 .. Len(list), Names(list))
  BY <1>3 DEF ExistsBijection
<1> QED BY <1>1, <1>4, FS_CountingElements

LEMMA EntryRead ==
  ASSUME NEW d \in DOMAIN sources, d \in Nat, NEW longest \in Nat
  PROVE  /\ Entry(d, longest) \in Entries
         /\ Entry(d, longest).dsn = d /\ Entry(d, longest).text # "garbage"
         /\ sources[d] <= longest => Entry(d, longest).text = "whole"
  BY DEF Entry, Entries

-----------------------------------------------------------------------------
(* The handles and their versions. *)

LEMMA NextHandles == TypeOK /\ [Next]_vars => (allocated \subseteq Envs)'
                                             /\ (version \in [Envs -> Versions \union {UNKNOWN}])'
                                             /\ (dmVersion \in [Envs -> Versions \union {UNKNOWN, Odd}])'
<1> SUFFICES ASSUME TypeOK, [Next]_vars
    PROVE /\ (allocated \subseteq Envs)'
          /\ (version \in [Envs -> Versions \union {UNKNOWN}])'
          /\ (dmVersion \in [Envs -> Versions \union {UNKNOWN, Odd}])'
  OBVIOUS
<1> USE DEF TypeOK, handles
<1>1. ASSUME NEW e \in Envs, NEW v \in Versions, Sets(e, v) \/ SetFails(e, v)
      PROVE  /\ version' \in [Envs -> Versions \union {UNKNOWN}]
             /\ dmVersion' \in [Envs -> Versions \union {UNKNOWN, Odd}]
  <2>1. Reported(v) \subseteq Versions \union {Odd}
    BY DEF Reported
  <2>2. \A now \in Reported(v) : Known(now, version[e]) \in Versions \union {UNKNOWN}
    BY <2>1 DEF Known
  <2> QED BY <1>1, <2>1, <2>2 DEF Sets, SetFails
<1>2. ASSUME NEW e \in Envs, InitEnv(e) \/ SetOdbcVersion(e)
      PROVE  /\ allocated' \subseteq Envs
             /\ version' \in [Envs -> Versions \union {UNKNOWN}]
             /\ dmVersion' \in [Envs -> Versions \union {UNKNOWN, Odd}]
  BY <1>1, <1>2 DEF InitEnv, SetOdbcVersion
<1>3. ASSUME NEW e \in Envs, GetOdbcVersion(e) \/ DestroyEnv(e)
      PROVE  /\ allocated' \subseteq Envs
             /\ version' \in [Envs -> Versions \union {UNKNOWN}]
             /\ dmVersion' \in [Envs -> Versions \union {UNKNOWN, Odd}]
  BY <1>3 DEF GetOdbcVersion, DestroyEnv, Known
<1>4. ASSUME NEW e \in Envs, NEW other \in Envs, Copy(e, other)
      PROVE  /\ allocated' \subseteq Envs
             /\ version' \in [Envs -> Versions \union {UNKNOWN}]
             /\ dmVersion' \in [Envs -> Versions \union {UNKNOWN, Odd}]
  <2> DEFINE v == IF version[other] = UNKNOWN /\ other \in allocated
                  THEN Known(dmVersion[other], UNKNOWN) ELSE version[other]
  <2>1. v \in Versions
    BY <1>4 DEF Copy, Known
  <2>2. PICK now \in Reported(v) :
          /\ dmVersion' = [dmVersion EXCEPT ![e] = now]
          /\ version' = [version EXCEPT ![e] = Known(now, UNKNOWN), ![other] = v]
    BY <1>4 DEF Copy
  <2>3. now \in Versions \union {Odd} /\ Known(now, UNKNOWN) \in Versions \union {UNKNOWN}
    BY <2>1, <2>2 DEF Reported, Known
  <2> HIDE DEF v
  <2> QED BY <1>4, <2>1, <2>2, <2>3 DEF Copy
<1>5. CASE UNCHANGED handles
  BY <1>5
<1> QED
  BY <1>2, <1>3, <1>4, <1>5 DEF Next, vars, ChangeSettings, SetConnctionPoolingMatch, Begin,
     SourcesChange, AskLength, AskFirstText, AskNextText

LEMMA FaultsStay == [Next]_vars => faults' = faults
<1> SUFFICES ASSUME [Next]_vars PROVE faults' = faults
  OBVIOUS
<1>1. ASSUME NEW e \in Envs, NEW other \in Envs, Copy(e, other) PROVE faults' = faults
  BY <1>1 DEF Copy
<1>2. ASSUME NEW e \in Envs, InitEnv(e) \/ SetOdbcVersion(e) \/ GetOdbcVersion(e) \/ DestroyEnv(e)
                              \/ SetConnctionPoolingMatch(e) \/ Begin(e)
      PROVE  faults' = faults
  BY <1>2 DEF InitEnv, SetOdbcVersion, GetOdbcVersion, DestroyEnv, SetConnctionPoolingMatch, Begin
<1>3. CASE ChangeSettings \/ SourcesChange \/ AskLength \/ AskFirstText \/ AskNextText
  BY <1>3 DEF ChangeSettings, SourcesChange, AskLength, AskFirstText, AskNextText
<1>4. CASE UNCHANGED vars
  BY <1>4 DEF vars
<1> QED BY <1>1, <1>2, <1>3, <1>4 DEF Next

LEMMA SettingsTyped == settings \in DriverSettings /\ [Next]_vars => settings' \in DriverSettings
<1> SUFFICES ASSUME settings \in DriverSettings, [Next]_vars PROVE settings' \in DriverSettings
  OBVIOUS
<1>1. ASSUME NEW e \in Envs, NEW other \in Envs, Copy(e, other) PROVE settings' = settings
  BY <1>1 DEF Copy
<1>2. ASSUME NEW e \in Envs, InitEnv(e) \/ SetOdbcVersion(e) \/ GetOdbcVersion(e) \/ DestroyEnv(e)
                              \/ SetConnctionPoolingMatch(e) \/ Begin(e)
      PROVE  settings' = settings
  BY <1>2 DEF InitEnv, SetOdbcVersion, GetOdbcVersion, DestroyEnv, SetConnctionPoolingMatch, Begin
<1>3. CASE SourcesChange \/ AskLength \/ AskFirstText \/ AskNextText
  BY <1>3 DEF SourcesChange, AskLength, AskFirstText, AskNextText
<1>4. CASE ChangeSettings
  BY <1>4 DEF ChangeSettings, SetTrace, SetTracefile, EnableConnectionPooling, DriverSettings
<1>5. CASE UNCHANGED vars
  BY <1>5 DEF vars
<1> QED BY <1>1, <1>2, <1>3, <1>4, <1>5 DEF Next

LEMMA NextVersionCurrent == TypeOK /\ VersionCurrent /\ [Next]_vars => VersionCurrent'
<1> SUFFICES ASSUME TypeOK, VersionCurrent, [Next]_vars,
                    Without({"version_fails", "odd_version"})
             PROVE  \A e \in Envs : version'[e] = dmVersion'[e]
                                    /\ (e \in allocated' <=> version'[e] # UNKNOWN)
  <2> QED BY FaultsStay DEF VersionCurrent, Without
<1> USE DEF TypeOK, handles
<1>0. /\ \A e \in Envs : version[e] = dmVersion[e] /\ (e \in allocated <=> version[e] # UNKNOWN)
      /\ "version_fails" \notin faults /\ "odd_version" \notin faults
      /\ UNKNOWN \notin Versions
  BY DEF VersionCurrent, Without, UNKNOWN, Versions
<1>1. ASSUME NEW e \in Envs, NEW v \in Versions, Sets(e, v) \/ SetFails(e, v)
      PROVE  version' = [version EXCEPT ![e] = v] /\ dmVersion' = [dmVersion EXCEPT ![e] = v]
  BY <1>0, <1>1 DEF Sets, SetFails, Reported, Known
<1>2. ASSUME NEW e \in Envs, InitEnv(e) \/ SetOdbcVersion(e)
      PROVE  \A f \in Envs : version'[f] = dmVersion'[f] /\ (f \in allocated' <=> version'[f] # UNKNOWN)
  BY <1>0, <1>1, <1>2 DEF InitEnv, SetOdbcVersion
<1>3. ASSUME NEW e \in Envs, GetOdbcVersion(e) \/ DestroyEnv(e)
      PROVE  \A f \in Envs : version'[f] = dmVersion'[f] /\ (f \in allocated' <=> version'[f] # UNKNOWN)
  BY <1>0, <1>3 DEF GetOdbcVersion, DestroyEnv
<1>4. ASSUME NEW e \in Envs, NEW other \in Envs, Copy(e, other)
      PROVE  \A f \in Envs : version'[f] = dmVersion'[f] /\ (f \in allocated' <=> version'[f] # UNKNOWN)
  <2>1. version[other] \in Versions /\ e # other
    BY <1>0, <1>4 DEF Copy
  <2>2. /\ version' = [version EXCEPT ![e] = version[other], ![other] = version[other]]
        /\ dmVersion' = [dmVersion EXCEPT ![e] = version[other]]
    BY <1>0, <1>4, <2>1 DEF Copy, Reported, Known
  <2> QED BY <1>0, <1>4, <2>1, <2>2 DEF Copy
<1>5. CASE UNCHANGED handles
  BY <1>0, <1>5
<1> QED
  BY <1>2, <1>3, <1>4, <1>5 DEF Next, vars, ChangeSettings, SetConnctionPoolingMatch, Begin,
     SourcesChange, AskLength, AskFirstText, AskNextText

-----------------------------------------------------------------------------
(* The listing.  A step that leaves it alone, and the five that do not. *)

listing == <<sources, scan, result, seen, changed>>

(* What the seven steps of the listing have to keep. *)
Kept ==
  /\ sources' \in [DOMAIN sources' -> Nat] /\ DOMAIN sources' \subseteq Dsns /\ seen' \subseteq Dsns
  /\ scan' \in Scans
  /\ result' \in Results
  /\ Without({"dm_fails"}) => Passes'
  /\ ListingWhole' /\ NothingInvented'

LEMMA IdleTyped ==
  /\ Idle \in Scans
  /\ NoResult \in Results
  /\ NoResult.res = "none" /\ Idle.pass = 0
  BY DEF Idle, NoResult, Modes, Scans, Results

(* What an update of the listing changes. *)
LEMMA ScanTyped ==
  ASSUME NEW s \in Scans
  PROVE  /\ s.pass \in {0, 1, 2, 3} /\ s.mode \in Modes /\ s.at \in Nat /\ s.longest \in Nat
         /\ s.listed \in Seq(Entries)
  BY DEF Scans

LEMMA ToSecondPass ==
  ASSUME NEW s \in Scans, NEW t, t = [s EXCEPT !.pass = 2, !.at = 0]
  PROVE  t \in Scans /\ t.pass = 2 /\ t.mode = s.mode /\ t.longest = s.longest
  BY DEF Scans

LEMMA ToUnread ==
  ASSUME NEW s \in Scans, NEW list \in Seq(Entries), NEW t,
         t = [s EXCEPT !.pass = 3, !.listed = list]
  PROVE  t \in Scans
  BY DEF Scans

LEMMA NotListingKeeps ==
  ASSUME IInv, NotListing, faults' = faults,
         sources' \in [DOMAIN sources' -> Nat] /\ DOMAIN sources' \subseteq Dsns
  PROVE  Kept
<1>1. Passes'
  BY IdleTyped DEF NotListing, Passes
<1>2. ListingWhole' /\ NothingInvented'
  BY IdleTyped DEF NotListing, ListingWhole, NothingInvented
<1> QED BY <1>1, <1>2, IdleTyped DEF NotListing, Kept

LEMMA AloneKeeps == ASSUME IInv, UNCHANGED listing, faults' = faults PROVE Kept
<1>1. (Without({"dm_fails"}) => Passes) => (Without({"dm_fails"}) => Passes')
  BY DEF listing, Passes, Without, Measured, Listed, Of, Names, Ascending, Read, Whole, UpTo
<1>2. ListingWhole' /\ NothingInvented'
  BY DEF IInv, listing, ListingWhole, NothingInvented, Without, Of
<1> QED BY <1>1, <1>2 DEF IInv, Types, TypeOK, Kept, listing

LEMMA BeginKeeps == ASSUME IInv, NEW e \in Envs, Begin(e) PROVE Kept
<1> USE DEF IInv, Types, TypeOK
<1>1. PICK mode \in Modes : scan' = [Idle EXCEPT !.on = e, !.pass = 1, !.mode = mode]
  BY DEF Begin, Modes
<1>2. scan' = [on |-> e, pass |-> 1, mode |-> mode, at |-> 0, longest |-> 0, name |-> 0, listed |-> << >>]
  BY <1>1 DEF Idle
<1>a. scan' \in Scans
  BY <1>2 DEF Scans, Modes
<1>3. /\ scan' \in Scans
      /\ result' = NoResult /\ sources' = sources /\ seen' = DOMAIN sources /\ changed' = FALSE
  BY <1>a DEF Begin
<1>4. \A d \in Of(mode) : d > 0
  BY DsnsAssumption DEF Of, Modes
<1>5. Of(mode)' = Of(mode)
  BY <1>3 DEF Of
<1>6. Passes'
  <2>1. Measured'
    BY <1>2, <1>3, <1>4, <1>5, DsnsAssumption DEF Measured, Of, Modes
  <2>2. scan'.pass = 1 /\ scan' # Idle
    BY <1>2 DEF Idle
  <2> QED BY <1>3, <2>1, <2>2 DEF Passes, Idle
<1>7. ListingWhole' /\ NothingInvented'
  BY <1>3, IdleTyped DEF ListingWhole, NothingInvented
<1>8. sources' \in [DOMAIN sources' -> Nat] /\ DOMAIN sources' \subseteq Dsns /\ seen' \subseteq Dsns
  BY <1>3
<1>9. result' \in Results
  BY <1>3, IdleTyped
<1> QED BY <1>3, <1>6, <1>7, <1>8, <1>9 DEF Kept

LEMMA ChangeKeeps ==
  ASSUME IInv, SourcesChange, faults' = faults PROVE Kept
<1> USE DEF IInv, Types, TypeOK
<1>1. sources' \in [DOMAIN sources' -> Nat] /\ DOMAIN sources' \subseteq Dsns
  BY DEF SourcesChange, Add, Remove
<1>2. CASE NotListing
  BY <1>1, <1>2, NotListingKeeps
<1>3. CASE /\ "change" \in faults /\ scan # Idle
           /\ changed' = TRUE /\ seen' = seen \union DOMAIN sources'
           /\ UNCHANGED <<scan, result>>
  <2>1. Without({"dm_fails"}) => Passes'
    <3>1. SUFFICES ASSUME Passes PROVE Passes'
      BY DEF Without
    <3> QED BY <1>3, <3>1 DEF Passes, Read, Ascending, UpTo
  <2>2. ListingWhole' /\ NothingInvented'
    BY <1>3 DEF ListingWhole, NothingInvented, Without
  <2> QED BY <1>1, <1>3, <2>1, <2>2 DEF Kept
<1> QED BY <1>2, <1>3 DEF SourcesChange

LEMMA ResultStays ==
  ASSUME ListingWhole, NothingInvented, UNCHANGED <<result, sources, seen, changed, faults>>
  PROVE  ListingWhole' /\ NothingInvented'
  BY DEF ListingWhole, NothingInvented, Of, Without

LEMMA PassesGoOn ==
  ASSUME Passes, scan.pass # 0, UNCHANGED <<result, sources, seen, changed>>,
         scan'.pass \in 1 .. 2, ~changed => Measured'
  PROVE  Passes'
<1>1. scan' # Idle
  BY DEF Idle
<1> QED BY <1>1 DEF Passes

(* A description is asked for: the listing reaches the next data source. *)
LEMMA ThrowKeeps ==
  ASSUME IInv, Throw, UNCHANGED <<sources, seen, changed, faults>>
  PROVE  Kept
<1>0. scan.mode \in Modes
  BY ScanTyped DEF IInv, Types
<1>1. scan' = Idle /\ result' \in Results /\ result'.res = "failed"
  BY <1>0 DEF Throw, Results
<1>2. Passes'
  BY <1>1, IdleTyped DEF Passes
<1>3. ListingWhole' /\ NothingInvented'
  BY <1>1 DEF ListingWhole, NothingInvented
<1> QED BY <1>1, <1>2, <1>3, IdleTyped DEF Kept, IInv, Types, TypeOK

LEMMA AskLengthKeeps == ASSUME IInv, AskLength, faults' = faults PROVE Kept
<1> USE DEF IInv, Types, TypeOK
<1> DEFINE rest == After(scan.mode, scan.at)
<1>1. scan.pass = 1 /\ sources' = sources /\ seen' = seen /\ changed' = changed
  BY DEF AskLength
<1>2. scan.mode \in Modes /\ scan.at \in Nat /\ scan.longest \in Nat
  BY ScanTyped
<1>3. CASE "dm_fails" \in faults /\ Throw
  BY <1>1, <1>2, <1>3, ThrowKeeps
<1>4. CASE rest # {} /\ UNCHANGED result
           /\ scan' = [scan EXCEPT !.at = Least(rest), !.name = Least(rest),
                                   !.longest = Longer(@, sources[Least(rest)])]
  <2>1. /\ Least(rest) \in DOMAIN sources /\ Least(rest) \in Nat
        /\ {n \in Of(scan.mode) : n <= Least(rest)}
             = {n \in Of(scan.mode) : n <= scan.at} \union {Least(rest)}
    BY <1>2, <1>4, LeastAfter
  <2> HIDE DEF rest
  <2>2. sources[Least(rest)] \in Nat
    BY <2>1
  <2>3. Longer(scan.longest, sources[Least(rest)]) \in Nat
    BY <1>2, <2>2 DEF Longer
  <2>4. /\ scan' \in Scans
        /\ scan'.pass = 1 /\ scan'.mode = scan.mode /\ scan'.at = Least(rest)
        /\ scan'.longest = Longer(scan.longest, sources[Least(rest)])
    <3>1. scan \in Scans
      OBVIOUS
    <3> HIDE DEF IInv, Types, TypeOK
    <3>2. /\ Least(rest) \in Nat /\ Longer(scan.longest, sources[Least(rest)]) \in Nat
          /\ scan' = [scan EXCEPT !.at = Least(rest), !.name = Least(rest),
                                  !.longest = Longer(scan.longest, sources[Least(rest)])]
      BY <1>4, <2>1, <2>3
    <3> QED BY <1>1, <3>1, <3>2 DEF Scans
  <2>5. Passes /\ ~changed => Measured'
    <3>0. Of(scan.mode)' = Of(scan.mode)
      BY <1>1, <2>4 DEF Of
    <3> SUFFICES ASSUME Measured, NEW d \in Of(scan.mode), d <= Least(rest)
                 PROVE  sources[d] <= Longer(scan.longest, sources[Least(rest)])
      BY <1>1, <2>4, <3>0 DEF Passes, Measured
    <3>1. sources[d] \in Nat
      BY <1>2 DEF Of, Modes
    <3>2. CASE d = Least(rest)
      BY <1>2, <2>2, <3>2 DEF Longer
    <3>3. CASE d <= scan.at
      <4>1. sources[d] <= scan.longest
        BY <1>1, <3>3 DEF Measured
      <4> QED BY <1>2, <2>2, <3>1, <4>1 DEF Longer
    <3> QED BY <2>1, <3>2, <3>3
  <2>6. Passes => Passes'
    BY <1>1, <1>4, <2>4, <2>5, PassesGoOn
  <2>7. ListingWhole' /\ NothingInvented'
    BY <1>1, <1>4, ResultStays
  <2> QED BY <1>1, <1>4, <2>4, <2>6, <2>7 DEF Kept, Without
<1>5. CASE rest = {} /\ scan.at = 0 /\ Return(<< >>)
  <2>1. Of(scan.mode) = {}
    <3>1. Of(scan.mode) \subseteq Nat \ {0}
      BY <1>2, DsnsAssumption DEF Of, Modes
    <3> QED BY <1>5, <3>1 DEF After
  <2>2. scan' = Idle /\ result' = [res |-> "ok", mode |-> scan.mode, listed |-> << >>]
    BY <1>5 DEF Return
  <2>3. Passes'
    BY <2>2, IdleTyped DEF Passes
  <2>4. ListingWhole' /\ NothingInvented'
    <3>1. result'.mode = scan.mode /\ result'.listed = << >>
      BY <2>2
    <3>2. Of(result.mode)' = {}
      BY <1>1, <2>1, <3>1 DEF Of
    <3>3. Cardinality({}) = 0
      BY FS_EmptySet
    <3> QED BY <3>1, <3>2, <3>3 DEF ListingWhole, NothingInvented
  <2>5. result' \in Results
    BY <1>2, <2>2 DEF Results
  <2> QED BY <1>1, <2>2, <2>3, <2>4, <2>5, IdleTyped DEF Kept
<1>6. CASE /\ rest = {} /\ scan.at # 0
           /\ scan' = [scan EXCEPT !.pass = 2, !.at = 0] /\ UNCHANGED result
  <2> HIDE DEF rest
  <2>1. /\ scan' \in Scans
        /\ scan'.pass = 2 /\ scan'.mode = scan.mode /\ scan'.longest = scan.longest
    BY <1>6, ToSecondPass
  <2>2. Passes /\ ~changed => Measured'
    <3>0. Of(scan.mode)' = Of(scan.mode)
      BY <1>1, <2>1 DEF Of
    <3> SUFFICES ASSUME Measured, NEW d \in Of(scan.mode)
                 PROVE  sources[d] <= scan.longest
      BY <1>1, <2>1, <3>0 DEF Passes, Measured
    <3>1. d \in Nat
      BY <1>2, DsnsAssumption DEF Of, Modes
    <3>2. d <= scan.at
      BY <1>2, <1>6, <3>1 DEF After, rest
    <3> QED BY <1>1, <3>2 DEF Measured
  <2>3. Passes => Passes'
    BY <1>1, <1>6, <2>1, <2>2, PassesGoOn
  <2>4. ListingWhole' /\ NothingInvented'
    BY <1>1, <1>6, ResultStays
  <2> QED BY <1>1, <1>6, <2>1, <2>3, <2>4 DEF Kept, Without
<1> QED BY <1>3, <1>4, <1>5, <1>6 DEF AskLength

LEMMA FirstTextKeeps == ASSUME IInv, AskFirstText, faults' = faults PROVE Kept
<1> DEFINE rest == After(scan.mode, 0)
<1>1. /\ scan.pass = 2 /\ sources' = sources /\ seen' = seen /\ changed' = changed
      /\ scan \in Scans /\ DOMAIN sources \subseteq Dsns /\ seen \subseteq Dsns
      /\ sources \in [DOMAIN sources -> Nat] /\ result \in Results
  BY DEF AskFirstText, IInv, Types, TypeOK
<1>2. scan.mode \in Modes /\ scan.at \in Nat /\ scan.longest \in Nat
  BY <1>1, ScanTyped
<1>3. CASE /\ "dm_fails" \in faults /\ UNCHANGED result
           /\ scan' = [scan EXCEPT !.pass = 3,
                                   !.listed = <<[dsn |-> scan.name, text |-> "garbage"]>>]
  <2>1. <<[dsn |-> scan.name, text |-> "garbage"]>> \in Seq(Entries)
    BY <1>1 DEF Scans, Entries
  <2>2. scan' \in Scans
    BY <1>1, <1>3, <2>1, ToUnread
  <2>3. ~ Without({"dm_fails"}) /\ ~ Without({"dm_fails"})'
    BY <1>3 DEF Without
  <2> QED BY <1>1, <1>3, <2>2, <2>3 DEF Kept, ListingWhole, NothingInvented
<1>4. CASE rest = {} /\ Throw
  BY <1>1, <1>4, ThrowKeeps
<1>5. CASE rest # {} /\ UNCHANGED result
           /\ scan' = [scan EXCEPT !.pass = 3, !.at = Least(rest), !.name = Least(rest),
                                   !.listed = <<Entry(Least(rest), scan.longest)>>]
  <2> DEFINE l == Least(rest)
             entry == Entry(l, scan.longest)
  <2>1. /\ l \in DOMAIN sources /\ l \in Nat
        /\ {n \in Of(scan.mode) : n <= l} = {n \in Of(scan.mode) : n <= 0} \union {l}
    BY <1>1, <1>2, <1>5, LeastAfter
  <2>2. {n \in Of(scan.mode) : n <= 0} = {}
    BY <1>1, <1>2, DsnsAssumption DEF Of, Modes
  <2> HIDE DEF l, rest
  <2>3. /\ entry \in Entries /\ entry.dsn = l /\ entry.text # "garbage"
        /\ sources[l] <= scan.longest => entry.text = "whole"
    BY <1>2, <2>1, EntryRead
  <2> HIDE DEF entry
  <2>4. <<entry>> \in Seq(Entries)
    BY <2>3
  <2>5. /\ scan' \in Scans /\ scan'.pass = 3 /\ scan'.mode = scan.mode /\ scan'.at = l
        /\ scan'.longest = scan.longest /\ scan'.listed = <<entry>>
    <3>1. /\ l \in Nat /\ <<entry>> \in Seq(Entries)
          /\ scan' = [scan EXCEPT !.pass = 3, !.at = l, !.name = l, !.listed = <<entry>>]
      BY <1>5, <2>1, <2>4 DEF l, entry
    <3> QED BY <1>1, <3>1 DEF Scans
  <2>6. /\ Names(<<entry>>) = {l} /\ Ascending(<<entry>>) /\ UpTo(<<entry>>, l)
        /\ entry.text = "whole" => Whole(<<entry>>)
    BY <2>1, <2>3 DEF Names, Ascending, UpTo, Whole
  <2>7. Passes => Passes'
    <3> SUFFICES ASSUME Passes PROVE Passes'
      OBVIOUS
    <3>1. result' = NoResult /\ DOMAIN sources' \subseteq seen'
      BY <1>1, <1>5 DEF Passes
    <3>2. Read(scan.listed)'
      BY <1>1, <2>1, <2>3, <2>5, <3>1 DEF Read
    <3>3. Of(scan.mode)' = Of(scan.mode)
      BY <1>1, <2>5 DEF Of
    <3>4. ASSUME ~changed PROVE Measured' /\ Listed'
      <4>1. Measured'
        BY <1>1, <2>5, <3>3, <3>4 DEF Passes, Measured
      <4>2. l \in Of(scan.mode)
        BY <2>1, <2>2
      <4>3. sources[l] <= scan.longest
        BY <1>1, <3>4, <4>2 DEF Passes, Measured
      <4>4. Names(<<entry>>) = {d \in Of(scan.mode) : d <= l} /\ Whole(<<entry>>)
        BY <2>1, <2>2, <2>3, <2>6, <4>3
      <4> QED BY <2>5, <3>3, <4>1, <4>4 DEF Listed
    <3>5. scan' # Idle
      BY <2>5, IdleTyped
    <3>6. Ascending(scan.listed)' /\ UpTo(scan.listed, scan.at)'
      BY <2>5, <2>6 DEF Ascending, UpTo
    <3> QED BY <1>1, <2>5, <3>1, <3>2, <3>4, <3>5, <3>6 DEF Passes, Idle
  <2>8. ListingWhole' /\ NothingInvented'
    BY <1>1, <1>5, ResultStays DEF IInv
  <2> QED BY <1>1, <1>5, <2>5, <2>7, <2>8 DEF Kept, Without, IInv
<1> QED BY <1>1, <1>3, <1>4, <1>5 DEF AskFirstText, FirstText

LEMMA NextTextKeeps == ASSUME IInv, AskNextText, faults' = faults PROVE Kept
<1> DEFINE rest == After(scan.mode, scan.at)
<1>1. /\ scan.pass = 3 /\ sources' = sources /\ seen' = seen /\ changed' = changed
      /\ scan \in Scans /\ DOMAIN sources \subseteq Dsns /\ seen \subseteq Dsns
      /\ sources \in [DOMAIN sources -> Nat] /\ result \in Results
  BY DEF AskNextText, IInv, Types, TypeOK
<1>2. scan.mode \in Modes /\ scan.at \in Nat /\ scan.longest \in Nat /\ scan.listed \in Seq(Entries)
  BY <1>1, ScanTyped
<1>3. CASE "dm_fails" \in faults /\ Throw
  BY <1>1, <1>3, ThrowKeeps
<1>4. CASE rest = {} /\ Return(scan.listed)
  <2>1. scan' = Idle /\ result' = [res |-> "ok", mode |-> scan.mode, listed |-> scan.listed]
    BY <1>4 DEF Return
  <2>2. /\ result' \in Results /\ result'.mode = scan.mode /\ result'.listed = scan.listed
    BY <1>2, <2>1 DEF Results
  <2>3. Passes'
    BY <2>1, IdleTyped DEF Passes
  <2>4. ASSUME Passes PROVE NothingInvented'
    BY <1>1, <2>2, <2>4 DEF Passes, NothingInvented, Read, Ascending
  <2>5. ASSUME Passes, ~changed
        PROVE  /\ Names(scan.listed) = Of(scan.mode) /\ Whole(scan.listed)
               /\ Len(scan.listed) = Cardinality(Of(scan.mode))
    <3>1. Of(scan.mode) \subseteq Nat
      BY <1>1, <1>2, DsnsAssumption DEF Of, Modes
    <3>2. {d \in Of(scan.mode) : d <= scan.at} = Of(scan.mode)
      BY <1>2, <1>4, <3>1 DEF After
    <3>3. Names(scan.listed) = Of(scan.mode) /\ Whole(scan.listed) /\ Ascending(scan.listed)
      BY <1>1, <2>5, <3>2 DEF Passes, Listed
    <3> QED BY <1>2, <3>3, AscendingCounts
  <2>6. Of(result.mode)' = Of(scan.mode)
    BY <1>1, <2>2 DEF Of
  <2>7. ASSUME Passes PROVE ListingWhole'
    BY <1>1, <2>2, <2>5, <2>6, <2>7 DEF ListingWhole, Names, Whole
  <2>8. Without({"dm_fails"}) => Passes
    BY DEF IInv
  <2>9. ~ Without({"dm_fails"}) => NothingInvented' /\ ListingWhole'
    BY DEF NothingInvented, ListingWhole, Without
  <2> QED BY <1>1, <2>1, <2>2, <2>3, <2>4, <2>7, <2>8, <2>9, IdleTyped DEF Kept
<1>5. CASE rest # {} /\ UNCHANGED result
           /\ scan' = [scan EXCEPT !.at = Least(rest), !.name = Least(rest),
                                   !.listed = Append(@, Entry(Least(rest), scan.longest))]
  <2> DEFINE l == Least(rest)
             entry == Entry(l, scan.longest)
             more == Append(scan.listed, entry)
  <2>1. /\ l \in DOMAIN sources /\ l \in Nat /\ l > scan.at
        /\ {n \in Of(scan.mode) : n <= l} = {n \in Of(scan.mode) : n <= scan.at} \union {l}
    BY <1>1, <1>2, <1>5, LeastAfter
  <2> HIDE DEF l, rest
  <2>2. /\ entry \in Entries /\ entry.dsn = l /\ entry.text # "garbage"
        /\ sources[l] <= scan.longest => entry.text = "whole"
    BY <1>2, <2>1, EntryRead
  <2> HIDE DEF entry
  <2>3. /\ more \in Seq(Entries) /\ Names(more) = Names(scan.listed) \union {l}
        /\ Read(scan.listed) /\ l \in seen => Read(more)
        /\ Whole(scan.listed) /\ entry.text = "whole" => Whole(more)
        /\ Ascending(scan.listed) /\ UpTo(scan.listed, scan.at) => Ascending(more) /\ UpTo(more, l)
    BY <1>2, <2>1, <2>2, AppendEntry
  <2>4. scan' = [scan EXCEPT !.at = l, !.name = l, !.listed = more]
    BY <1>5 DEF l, entry
  <2> HIDE DEF more
  <2>5. /\ scan' \in Scans /\ scan'.pass = 3 /\ scan'.mode = scan.mode /\ scan'.at = l
        /\ scan'.longest = scan.longest /\ scan'.listed = more
    BY <1>1, <2>1, <2>3, <2>4 DEF Scans
  <2>6. Passes => Passes'
    <3> SUFFICES ASSUME Passes PROVE Passes'
      OBVIOUS
    <3>1. result' = NoResult /\ DOMAIN sources' \subseteq seen'
      BY <1>1, <1>5 DEF Passes
    <3>2. Read(scan.listed)' /\ Ascending(scan.listed)' /\ UpTo(scan.listed, scan.at)'
      <4>1. Read(more) /\ Ascending(more) /\ UpTo(more, l)
        BY <1>1, <2>1, <2>3 DEF Passes
      <4> QED BY <1>1, <2>5, <4>1 DEF Read, Ascending, UpTo
    <3>3. Of(scan.mode)' = Of(scan.mode)
      BY <1>1, <2>5 DEF Of
    <3>4. ASSUME ~changed PROVE Measured' /\ Listed'
      <4>1. Measured'
        BY <1>1, <2>5, <3>3, <3>4 DEF Passes, Measured
      <4>2. l \in Of(scan.mode)
        BY <2>1
      <4>3. sources[l] <= scan.longest
        BY <1>1, <3>4, <4>2 DEF Passes, Measured
      <4>4. Names(more) = {d \in Of(scan.mode) : d <= l} /\ Whole(more)
        BY <1>1, <2>1, <2>2, <2>3, <3>4, <4>3 DEF Passes, Listed
      <4> QED BY <2>5, <3>3, <4>1, <4>4 DEF Listed
    <3> QED BY <1>1, <2>5, <3>1, <3>2, <3>4 DEF Passes, Idle
  <2>7. ListingWhole' /\ NothingInvented'
    BY <1>1, <1>5, ResultStays DEF IInv
  <2> QED BY <1>1, <1>5, <2>5, <2>6, <2>7 DEF Kept, Without, IInv
<1> QED BY <1>3, <1>4, <1>5 DEF AskNextText

-----------------------------------------------------------------------------
(* The invariant, and what it is for. *)

LEMMA InitIInv == Init => IInv
<1> SUFFICES ASSUME Init PROVE IInv
  OBVIOUS
<1>1. TypeOK
  BY DEF Init, TypeOK, Idle, NoResult, NoSources, DriverSettings
<1>2. sources \in [DOMAIN sources -> Nat] /\ scan \in Scans /\ result \in Results
  BY IdleTyped DEF Init, NoSources
<1>3. Passes /\ ListingWhole /\ NothingInvented
  BY IdleTyped DEF Init, Passes, ListingWhole, NothingInvented
<1> QED BY <1>1, <1>2, <1>3 DEF IInv, Types

LEMMA NextKept == IInv /\ [Next]_vars => Kept
<1> SUFFICES ASSUME IInv, [Next]_vars PROVE Kept
  OBVIOUS
<1>0. faults' = faults /\ sources \in [DOMAIN sources -> Nat] /\ DOMAIN sources \subseteq Dsns
  BY FaultsStay DEF IInv, Types, TypeOK
<1>1. ASSUME NEW e \in Envs, NEW other \in Envs, Copy(e, other) PROVE Kept
  BY <1>0, <1>1, NotListingKeeps DEF Copy
<1>2. ASSUME NEW e \in Envs, InitEnv(e) \/ SetOdbcVersion(e) \/ GetOdbcVersion(e) \/ DestroyEnv(e)
                              \/ SetConnctionPoolingMatch(e)
      PROVE  Kept
  BY <1>0, <1>2, NotListingKeeps
     DEF InitEnv, SetOdbcVersion, GetOdbcVersion, DestroyEnv, SetConnctionPoolingMatch
<1>3. CASE ChangeSettings
  BY <1>0, <1>3, NotListingKeeps DEF ChangeSettings
<1>4. CASE UNCHANGED vars
  BY <1>0, <1>4, AloneKeeps DEF vars, listing
<1> QED
  BY <1>0, <1>1, <1>2, <1>3, <1>4, BeginKeeps, ChangeKeeps, AskLengthKeeps, FirstTextKeeps,
     NextTextKeeps DEF Next

LEMMA NextIInv == IInv /\ [Next]_vars => IInv'
<1> SUFFICES ASSUME IInv, [Next]_vars PROVE IInv'
  OBVIOUS
<1>1. Kept /\ faults' = faults
  BY NextKept, FaultsStay
<1>2. settings' \in DriverSettings
  <2>1. settings \in DriverSettings
    BY DEF IInv, Types, TypeOK
  <2> QED BY <2>1, SettingsTyped
<1>3. scan'.on \in Envs \union {None} /\ scan'.pass \in 0 .. 3 /\ result'.res \in {"none", "ok", "failed"}
  BY <1>1 DEF Kept, Scans, Results
<1>4. TypeOK'
  BY <1>1, <1>2, <1>3, NextHandles DEF IInv, Types, TypeOK, Kept
<1> QED BY <1>1, <1>4 DEF IInv, Types, Kept, Without

(* Whatever is called, in whatever order, and whatever the driver manager does:
   the values keep their types. *)
THEOREM TypeCorrect == Spec => []TypeOK
<1>1. IInv => TypeOK
  BY DEF IInv, Types
<1> QED BY InitIInv, NextIInv, <1>1, PTL DEF Spec

(* Environment::ListDataSources (Environment.cpp:257): a listing during which
   nothing changes has all the data sources of its kind, once, described in full. *)
THEOREM ListsAll == Spec => []ListingWhole
<1>1. IInv => ListingWhole
  BY DEF IInv
<1> QED BY InitIInv, NextIInv, <1>1, PTL DEF Spec

(* Environment::ListDataSources: whatever others add, remove and describe anew
   between its calls, nothing is listed that has not been there, or twice. *)
THEOREM ListsNothingElse == Spec => []NothingInvented
<1>1. IInv => NothingInvented
  BY DEF IInv
<1> QED BY InitIInv, NextIInv, <1>1, PTL DEF Spec

(* Environment::Init, the copy constructor and SetOdbcVersion: the version that is
   remembered is the driver manager's, and exactly the handles have one. *)
THEOREM RemembersVersion == Spec => []VersionCurrent
<1>1. Init => TypeOK /\ VersionCurrent
  BY InitIInv DEF Init, IInv, Types, VersionCurrent
<1>2. TypeOK /\ VersionCurrent /\ [Next]_vars => VersionCurrent'
  BY NextVersionCurrent
<1> QED BY TypeCorrect, <1>1, <1>2, PTL DEF Spec
=============================================================================
