-------------------------- MODULE AudioOut_proofs ---------------------------
(***************************************************************************)
(* Proofs about src/src/audio_out.c outside the life of a device.          *)
(*                                                                         *)
(* DriverTable, for any number of drivers and plugins, any files and any   *)
(* failure of calloc and dlopen: its types; a listed plugin is loaded;     *)
(* when no two drivers have the same short_name, an id means one driver; a *)
(* session's configuration is that of its files; and the default is the    *)
(* best driver when the bytes of a priority lie as memcmp reads them.      *)
(*                                                                         *)
(* SampleRoute, for any matrices, channels, widths and buffers: its types; *)
(* every channel of the stream is fed by the input channel of its name;    *)
(* the driver gets the samples of the call, in its own order, and nothing  *)
(* else.                                                                   *)
(*                                                                         *)
(* Both rest on positions: what a loop over a list keeps of it.            *)
(***************************************************************************)
EXTENDS DriverTable, SampleRoute, SequenceTheorems, FiniteSetTheorems, FunctionTheorems, WellFoundedInduction, NaturalsInduction, TLAPS
-----------------------------------------------------------------------------
(* Positions and their order. *)

Below(S, i) == {j \in S : j <= i}

\* A set of numbers has a least one.
LEMMA Least == ASSUME NEW S \in SUBSET Nat, S # {} PROVE \E m \in S : \A k \in S : m <= k
<1> DEFINE R == OpToRel(<, Nat)
<1>1. IsWellFoundedOn(R, Nat)
  BY NatLessThanWellFounded
<1>2. \A x, y \in Nat : <<x, y>> \in R <=> x < y
  BY DEF OpToRel
<1> HIDE DEF R
<1>3. PICK m \in S : \A k \in S : ~ (<<k, m>> \in R)
  BY <1>1, WFMin
<1>4. \A k \in S : ~(k < m)
  BY <1>2, <1>3
<1>5. QED
  BY <1>4

\* And, when there are finitely many, a largest one.
LEMMA Largest ==
  ASSUME NEW m \in Nat, NEW S \in SUBSET (1 .. m), S # {}
  PROVE  \E i \in S : \A j \in S : j <= i
<1> DEFINE T == {k \in Nat : m - k \in S}
<1>1. PICK x \in S : TRUE
  OBVIOUS
<1>2. m - x \in T
  BY <1>1
<1>3. PICK k \in T : \A l \in T : k <= l
  BY <1>2, Least
<1>4. \A j \in S : m - j \in T
  OBVIOUS
<1>5. k \in Nat /\ m - k \in S
  BY <1>3
<1>6. \A j \in S : k <= m - j
  BY <1>3, <1>4
<1> HIDE DEF T
<1>7. \A j \in S : j <= m - k
  BY <1>5, <1>6
<1>8. QED
  BY <1>5, <1>7

\* How many positions there are up to one.
LEMMA Ranks ==
  ASSUME NEW m \in Nat, NEW S \in SUBSET (1 .. m)
  PROVE  /\ IsFiniteSet(S) /\ Cardinality(S) \in Nat
         /\ \A i \in Nat : /\ IsFiniteSet(Below(S, i)) /\ Cardinality(Below(S, i)) \in Nat
                           /\ Cardinality(Below(S, i)) <= Cardinality(S)
<1>1. IsFiniteSet(1 .. m)
  BY FS_Interval
<1>2. IsFiniteSet(S)
  BY <1>1, FS_Subset
<1>3. \A i \in Nat : Below(S, i) \in SUBSET S
  BY DEF Below
<1>4. QED
  BY <1>2, <1>3, FS_Subset, FS_CardinalityType

\* A position has a number of its own.
LEMMA NthIs ==
  ASSUME NEW m \in Nat, NEW S \in SUBSET (1 .. m), NEW i \in S
  PROVE  Nth(S, Cardinality(Below(S, i))) = i
<1>0. \A a \in S : a \in Nat
  OBVIOUS
<1>1. ASSUME NEW a \in S, NEW b \in S, a < b PROVE Cardinality(Below(S, a)) # Cardinality(Below(S, b))
  <2>1. a \in Nat /\ b \in Nat /\ IsFiniteSet(Below(S, b))
    BY <1>0, Ranks
  <2>2. Below(S, a) \in SUBSET Below(S, b) /\ b \in Below(S, b) /\ ~(b \in Below(S, a))
    <3>1. b <= b /\ ~(b <= a) /\ \A j \in S : j <= a => j <= b
      BY <1>0, <1>1, <2>1
    <3>2. QED
      BY <3>1 DEF Below
  <2>3. QED
    BY <2>1, <2>2, FS_Subset
<1>2. \A j \in S : Cardinality(Below(S, j)) = Cardinality(Below(S, i)) => j = i
  <2> SUFFICES ASSUME NEW j \in S, j # i PROVE Cardinality(Below(S, j)) # Cardinality(Below(S, i))
    OBVIOUS
  <2>1. j < i \/ i < j
    OBVIOUS
  <2>2. QED
    BY <1>1, <2>1
<1>3. QED
  BY <1>2 DEF Nth, Below

\* Every number up to that of all positions is that of one.
LEMMA NthExists ==
  ASSUME NEW m \in Nat, NEW S \in SUBSET (1 .. m), NEW n \in 1 .. Cardinality(S)
  PROVE  \E i \in S : Cardinality(Below(S, i)) = n
<1>0. \A i \in S : i \in Nat /\ 1 <= i /\ i <= m
  OBVIOUS
<1>1. IsFiniteSet(S) /\ Cardinality(S) \in Nat /\ n \in Nat /\ 1 <= n /\ n <= Cardinality(S)
  <2>1. IsFiniteSet(S) /\ Cardinality(S) \in Nat
    BY Ranks
  <2>2. QED
    BY <2>1
<1> DEFINE T == {i \in Nat : n <= Cardinality(Below(S, i))}
<1>2. Below(S, m) = S
  BY <1>0 DEF Below
<1>3. m \in T
  BY <1>1, <1>2
<1>4. PICK i \in T : \A j \in T : i <= j
  BY <1>3, Least
<1>5. i \in Nat /\ n <= Cardinality(Below(S, i)) /\ \A j \in Nat : n <= Cardinality(Below(S, j)) => i <= j
  BY <1>4
<1> HIDE DEF T
<1>6. i # 0
  <2>1. \A j \in S : ~(j <= 0)
    BY <1>0
  <2>2. Below(S, 0) = {}
    BY <2>1 DEF Below
  <2>3. Cardinality(Below(S, 0)) = 0
    BY <2>2, FS_EmptySet
  <2>4. QED
    BY <1>1, <1>5, <2>3
<1>7. i - 1 \in Nat /\ ~(i <= i - 1)
  BY <1>5, <1>6
<1>8. ~(n <= Cardinality(Below(S, i - 1)))
  BY <1>5, <1>7
<1>9. CASE ~(i \in S)
  <2>1. Below(S, i) = Below(S, i - 1)
    <3>1. \A j \in S : j <= i <=> j <= i - 1
      BY <1>0, <1>5, <1>9
    <3>2. QED
      BY <3>1 DEF Below
  <2>2. QED
    BY <1>5, <1>8, <2>1
<1>10. CASE i \in S
  <2>1. Below(S, i) = Below(S, i - 1) \cup {i} /\ ~(i \in Below(S, i - 1))
    <3>1. \A j \in S : j <= i <=> (j <= i - 1 \/ j = i)
      BY <1>0, <1>5, <1>10
    <3>2. i <= i
      BY <1>5
    <3>3. QED
      BY <1>7, <1>10, <3>1, <3>2 DEF Below
  <2>2. IsFiniteSet(Below(S, i - 1)) /\ Cardinality(Below(S, i - 1)) \in Nat
    BY <1>7, Ranks
  <2>3. Cardinality(Below(S, i)) = Cardinality(Below(S, i - 1)) + 1
    BY <2>1, <2>2, FS_AddElement
  <2>4. PICK c \in Nat : c = Cardinality(Below(S, i - 1))
    BY <2>2
  <2>5. n <= c + 1 /\ ~(n <= c)
    BY <1>5, <1>8, <2>3, <2>4
  <2>6. n = c + 1
    BY <1>1, <2>5
  <2>7. QED
    BY <1>10, <2>3, <2>4, <2>6
<1>11. QED
  BY <1>9, <1>10
-----------------------------------------------------------------------------
(* The driver list. *)

Entries == [driver : Drivers, file : Files \cup {NoFile}]

\* The entries that came from a plugin.
From(f) == {i \in DOMAIN list : list[i].file = f}

ListInv ==
  /\ list \in Seq(Entries) /\ loaded \in [Files -> Nat] /\ unread \subseteq Files
  /\ ListedPluginsAreLoaded

\* What stays as it is while the driver list does.
listVars == <<list, loaded, unread>>

\* What is assumed of the tables and files.
LEMMA Tables ==
  /\ Static \in Seq(Drivers) /\ NoFile \notin Files
  /\ \A f \in Files : Holds[f] # Broken => Entry(Holds[f], f) \in Entries
  /\ \A d \in Drivers : Entry(d, NoFile) \in Entries
  /\ \A d, f : Entry(d, f).driver = d /\ Entry(d, f).file = f
<1>1. Static \in Seq(Drivers) /\ NoFile \notin Files /\ Holds \in [Files -> Drivers \cup {Broken}]
  BY TableAssumption
<1>2. \A f \in Files : Holds[f] # Broken => Holds[f] \in Drivers
  BY <1>1
<1>3. \A d \in Drivers, f \in Files \cup {NoFile} : Entry(d, f) \in Entries
  BY DEF Entry, Entries
<1>4. \A d, f : Entry(d, f).driver = d /\ Entry(d, f).file = f
  BY DEF Entry
<1>5. QED
  BY <1>1, <1>2, <1>3, <1>4

\* Sequences have a length and a domain.
LEMMA ListShape ==
  ASSUME ListInv
  PROVE  /\ Len(list) \in Nat /\ DOMAIN list = 1 .. Len(list) /\ IsFiniteSet(DOMAIN list)
         /\ \A i \in DOMAIN list : list[i] \in Entries
         /\ \A f \in Files : IsFiniteSet(From(f)) /\ Cardinality(From(f)) \in Nat
<1>1. Len(list) \in Nat /\ DOMAIN list = 1 .. Len(list) /\ \A i \in DOMAIN list : list[i] \in Entries
  BY LenProperties, ElementOfSeq DEF ListInv
<1>2. IsFiniteSet(DOMAIN list)
  BY <1>1, FS_Interval
<1>3. \A f \in Files : From(f) \in SUBSET (DOMAIN list)
  BY DEF From
<1>4. QED
  BY <1>1, <1>2, <1>3, FS_Subset, FS_CardinalityType

\* The static drivers come from no file.
LEMMA StaticKeeps == ASSUME ListInv, LoadStaticDrivers PROVE ListInv'
<1>1. PICK n \in 0 .. Len(Static) : list' = [i \in 1 .. n |-> Entry(Static[i], NoFile)]
  BY DEF LoadStaticDrivers
<1>2. Len(Static) \in Nat /\ \A i \in 1 .. Len(Static) : Static[i] \in Drivers
  BY Tables, LenProperties, ElementOfSeq
<1>3. n \in Nat /\ \A i \in 1 .. n : Entry(Static[i], NoFile) \in Entries
  BY <1>2, Tables
<1>4. list' \in Seq(Entries) /\ DOMAIN list' = 1 .. n
  BY <1>1, <1>3, IsASeq
<1>5. \A f \in Files : {i \in DOMAIN list' : list'[i].file = f} = {}
  BY <1>1, <1>4, Tables
<1>6. loaded' = loaded /\ unread' = Files
  BY DEF LoadStaticDrivers
<1>7. QED
  <2>1. \A f \in Files : Cardinality({i \in DOMAIN list' : list'[i].file = f}) = 0
    BY <1>5, FS_EmptySet
  <2>2. loaded' \in [Files -> Nat] /\ \A f \in Files : 0 <= loaded'[f]
    BY <1>6 DEF ListInv
  <2>3. QED
    BY <1>4, <1>6, <2>1, <2>2 DEF ListInv, ListedPluginsAreLoaded

\* One directory entry of the plugin directory.
LEMMA PluginKeeps == ASSUME ListInv, NEW f \in Files, LoadPlugin(f) PROVE ListInv'
<1>1. unread' \subseteq Files
  BY DEF LoadPlugin, ListInv
<1>2. CASE UNCHANGED <<list, loaded>>
  BY <1>1, <1>2 DEF ListInv, ListedPluginsAreLoaded
<1>3. CASE loaded' = [loaded EXCEPT ![f] = @ + 1] /\ UNCHANGED list
  <2>1. loaded' \in [Files -> Nat] /\ \A g \in Files : loaded[g] <= loaded'[g]
    BY <1>3 DEF ListInv
  <2>2. ASSUME NEW g \in Files PROVE Cardinality(From(g)) <= loaded'[g]
    <3>1. Cardinality(From(g)) <= loaded[g]
      BY DEF ListInv, ListedPluginsAreLoaded, From
    <3>2. Cardinality(From(g)) \in Nat /\ loaded[g] \in Nat /\ loaded'[g] \in Nat
      BY <2>1, ListShape DEF ListInv
    <3>3. QED
      BY <2>1, <3>1, <3>2
  <2>3. QED
    BY <1>1, <1>3, <2>1, <2>2 DEF ListInv, ListedPluginsAreLoaded, From
<1>4. CASE /\ Holds[f] # Broken /\ loaded' = [loaded EXCEPT ![f] = @ + 1]
           /\ list' = Append(list, Entry(Holds[f], f))
  <2> DEFINE e == Entry(Holds[f], f)
             n == Len(list)
  <2>1. e \in Entries
    BY <1>4, Tables
  <2>2. /\ list' \in Seq(Entries) /\ Len(list') = n + 1 /\ list'[n + 1] = e
        /\ \A i \in 1 .. n : list'[i] = list[i]
    BY <1>4, <2>1, AppendProperties DEF ListInv
  <2>3. n \in Nat /\ DOMAIN list = 1 .. n /\ DOMAIN list' = 1 .. n + 1
    BY <2>2, ListShape, LenProperties
  <2>4. e.file = f
    BY DEF Entry
  <2>5. From(f)' = From(f) \cup {n + 1} /\ n + 1 \notin From(f)
    BY <2>2, <2>3, <2>4 DEF From
  <2>6. \A g \in Files \ {f} : From(g)' = From(g)
    BY <2>2, <2>3, <2>4 DEF From
  <2>7. Cardinality(From(f)') = Cardinality(From(f)) + 1
    BY <2>5, ListShape, FS_AddElement
  <2>8. loaded' \in [Files -> Nat] /\ loaded'[f] = loaded[f] + 1
        /\ \A g \in Files \ {f} : loaded'[g] = loaded[g]
    BY <1>4 DEF ListInv
  <2>9. \A g \in Files : Cardinality(From(g)) <= loaded[g]
    BY DEF ListInv, ListedPluginsAreLoaded, From
  <2>10. Cardinality(From(f)') <= loaded'[f]
    <3>1. Cardinality(From(f)) \in Nat /\ loaded[f] \in Nat /\ Cardinality(From(f)) <= loaded[f]
      BY <2>9, ListShape DEF ListInv
    <3>2. PICK a \in Nat, b \in Nat : a = Cardinality(From(f)) /\ b = loaded[f] /\ a <= b
      BY <3>1
    <3>3. a + 1 <= b + 1
      BY <3>2
    <3>4. QED
      BY <2>7, <2>8, <3>2, <3>3
  <2>11. \A g \in Files \ {f} : Cardinality(From(g)') <= loaded'[g]
    BY <2>6, <2>8, <2>9
  <2>12. \A g \in Files : Cardinality(From(g)') <= loaded'[g]
    BY <2>10, <2>11
  <2>13. QED
    BY <1>1, <2>2, <2>8, <2>12 DEF ListInv, ListedPluginsAreLoaded, From
<1>5. QED
  BY <1>2, <1>3, <1>4 DEF LoadPlugin

\* qsort makes a permutation of the list.
LEMMA SortingsPermute ==
  ASSUME ListInv, NEW s \in Sortings
  PROVE  /\ s \in Seq(Entries) /\ Len(s) = Len(list) /\ DOMAIN s = DOMAIN list
         /\ \E p \in Bijection(DOMAIN list, DOMAIN list) : \A i \in DOMAIN list : s[i] = list[p[i]]
<1>1. PICK p \in Bijection(DOMAIN list, DOMAIN list) : s = [i \in DOMAIN list |-> list[p[i]]]
  BY DEF Sortings
<1>2. p \in [DOMAIN list -> DOMAIN list]
  BY <1>1 DEF Bijection, Injection, IsInjective
<1>3. PICK n \in Nat : n = Len(list) /\ DOMAIN list = 1 .. n
  BY ListShape
<1>4. \A i \in 1 .. n : list[p[i]] \in Entries
  BY <1>2, <1>3, ListShape
<1>5. s = [i \in 1 .. n |-> list[p[i]]]
  BY <1>1, <1>3
<1>6. s \in Seq(Entries)
  BY <1>4, <1>5, IsASeq
<1>7. Len(s) = n /\ DOMAIN s = 1 .. n
  BY <1>3, <1>5, <1>6, LenProperties
<1>8. QED
  BY <1>1, <1>3, <1>6, <1>7

\* _make_info_table keeps the entries of each plugin.
LEMMA TableKeeps == ASSUME ListInv, MakeInfoTable PROVE ListInv'
<1>1. UNCHANGED <<loaded, unread>>
  BY DEF MakeInfoTable
<1>2. CASE UNCHANGED list
  BY <1>1, <1>2 DEF ListInv, ListedPluginsAreLoaded
<1>3. CASE list' \in Sortings
  <2>1. list' \in Seq(Entries) /\ DOMAIN list' = DOMAIN list
    BY <1>3, SortingsPermute
  <2>2. PICK p \in Bijection(DOMAIN list, DOMAIN list) : \A i \in DOMAIN list : list'[i] = list[p[i]]
    BY <1>3, SortingsPermute
  <2>3. p \in [DOMAIN list -> DOMAIN list]
        /\ \A i, j \in DOMAIN list : p[i] = p[j] => i = j
    BY <2>2 DEF Bijection, Injection, IsInjective
  <2>4. ASSUME NEW f \in Files PROVE Cardinality(From(f)') <= loaded[f]
    <3> DEFINE T == {i \in DOMAIN list : list[p[i]].file = f}
               q == [i \in T |-> p[i]]
    <3>1. From(f)' = T
      BY <2>1, <2>2 DEF From
    <3>2. q \in [T -> From(f)] /\ \A i, j \in T : q[i] = q[j] => i = j
      BY <2>3 DEF From
    <3>3. q \in Injection(T, From(f))
      <4>1. DOMAIN q = T
        OBVIOUS
      <4>2. QED
        BY <3>2, <4>1 DEF Injection, IsInjective
    <3>4. IsFiniteSet(From(f)) /\ Cardinality(From(f)) \in Nat
      BY ListShape
    <3>5. IsFiniteSet(T) /\ Cardinality(T) <= Cardinality(From(f))
      BY <3>3, <3>4, FS_Injection
    <3>6. Cardinality(From(f)) <= loaded[f] /\ loaded[f] \in Nat /\ Cardinality(T) \in Nat
      BY <3>5, FS_CardinalityType DEF ListInv, ListedPluginsAreLoaded, From
    <3>7. Cardinality(T) <= loaded[f]
      BY <3>4, <3>5, <3>6
    <3>8. QED
      BY <3>1, <3>7
  <2>5. QED
    BY <1>1, <2>1, <2>4 DEF ListInv, ListedPluginsAreLoaded, From
<1>4. QED
  BY <1>2, <1>3 DEF MakeInfoTable, Relinked

\* ao_shutdown closes what was listed, and no more.
LEMMA ShutdownKeeps == ASSUME ListInv, AoShutdown PROVE ListInv'
<1>1. list' = <<>> /\ loaded' = [f \in Files |-> loaded[f] - Cardinality(From(f))]
      /\ UNCHANGED unread
  BY DEF AoShutdown, ForgetList, From
<1>2. ASSUME NEW f \in Files PROVE loaded'[f] \in Nat
  <2>1. Cardinality(From(f)) \in Nat /\ loaded[f] \in Nat /\ Cardinality(From(f)) <= loaded[f]
    BY ListShape DEF ListInv, ListedPluginsAreLoaded, From
  <2>2. PICK a \in Nat, b \in Nat : a = Cardinality(From(f)) /\ b = loaded[f] /\ a <= b
    BY <2>1
  <2>3. b - a \in Nat
    BY <2>2
  <2>4. QED
    BY <1>1, <2>2, <2>3
<1>3. loaded' \in [Files -> Nat]
  BY <1>1, <1>2
<1>4. list' \in Seq(Entries) /\ DOMAIN list' = {}
  BY <1>1, EmptySeq
<1>5. \A f \in Files : {i \in DOMAIN list' : list'[i].file = f} = {}
  BY <1>4
<1>6. \A f \in Files : Cardinality({i \in DOMAIN list' : list'[i].file = f}) <= loaded'[f]
  BY <1>2, <1>5, FS_EmptySet
<1>7. QED
  BY <1>1, <1>3, <1>4, <1>6 DEF ListInv, ListedPluginsAreLoaded

\* Init and every step.
LEMMA ListInductive == Spec => []ListInv
<1>1. Init => ListInv
  <2> SUFFICES ASSUME Init PROVE ListInv
    OBVIOUS
  <2>1. list = <<>> /\ unread = {} /\ loaded = [f \in Files |-> 0]
    BY DEF Init
  <2>2. list \in Seq(Entries) /\ DOMAIN list = {}
    BY <2>1, EmptySeq
  <2>3. \A f \in Files : {i \in DOMAIN list : list[i].file = f} = {} /\ loaded[f] = 0
    BY <2>1, <2>2
  <2>4. QED
    BY <2>1, <2>2, <2>3, FS_EmptySet DEF ListInv, ListedPluginsAreLoaded
<1>2. ListInv /\ [Next]_vars => ListInv'
  <2> SUFFICES ASSUME ListInv, [Next]_vars PROVE ListInv'
    OBVIOUS
  <2>1. CASE UNCHANGED listVars
    BY <2>1 DEF listVars, ListInv, ListedPluginsAreLoaded
  <2>2. QED
    BY <2>1, StaticKeeps, PluginKeeps, TableKeeps, ShutdownKeeps
       DEF Next, vars, listVars, EditConfig, AppendGlobalOption, AoDefaultDriverId, AoInitialize,
           ReadConfigFiles, ReadFile, PluginsLoaded, MakeEmptyTable
<1>3. QED
  BY <1>1, <1>2, PTL DEF Spec

\* A plugin in the list is loaded, through failed allocations and libraries
\* without a symbol, sorting, and any number of sessions.
THEOREM PluginsStayLoaded == Spec => []ListedPluginsAreLoaded
<1>1. ListInv => ListedPluginsAreLoaded
  BY DEF ListInv
<1>2. QED
  BY <1>1, ListInductive, PTL
-----------------------------------------------------------------------------
(* Drivers with names of their own. *)

Distinct ==
  /\ \A i, j \in DOMAIN Static : Static[i] = Static[j] => i = j
  /\ \A f, g \in Files : Holds[f] # Broken /\ Holds[f] = Holds[g] => f = g
  /\ \A f \in Files, i \in DOMAIN Static : Holds[f] # Static[i]

\* A driver is listed once, one that is still to be loaded not at all, and a
\* table that was made agrees with the list, which is made anew only without one.
IdInv ==
  /\ \A i, j \in DOMAIN list : list[i].driver = list[j].driver => i = j
  /\ pc = "plugins" => \A f \in unread, i \in DOMAIN list : list[i].driver # Holds[f]
  /\ pc = "static" => list = <<>>
  /\ pc \in {"static", "plugins"} => table = NoTable
  /\ pc = "user" /\ list = <<>> => table = NoTable
  /\ list = <<>> => table = NoTable
  /\ table # NoTable =>
       count = Len(list) /\ Len(table) = count /\ \A i \in DOMAIN list : table[i] = list[i].driver

idVars == <<pc, list, unread, table, count>>

\* The list is made.
LEMMA StaticIds == ASSUME Distinct, ListInv, ListInv', IdInv, LoadStaticDrivers PROVE IdInv'
<1>1. PICK n \in 0 .. Len(Static) : list' = [i \in 1 .. n |-> Entry(Static[i], NoFile)]
  BY DEF LoadStaticDrivers
<1>2. Len(Static) \in Nat /\ DOMAIN Static = 1 .. Len(Static)
  BY Tables, LenProperties
<1>3. DOMAIN list' = 1 .. n /\ \A i \in 1 .. n : i \in DOMAIN Static /\ list'[i].driver = Static[i]
  BY <1>1, <1>2 DEF Entry
<1>4. pc' = "plugins" /\ unread' = Files /\ table' = table /\ table = NoTable
  BY DEF LoadStaticDrivers, IdInv
<1>5. QED
  BY <1>3, <1>4 DEF IdInv, Distinct

\* It grows by one plugin, or does not.
LEMMA PluginIds ==
  ASSUME Distinct, ListInv, IdInv, NEW f \in Files, LoadPlugin(f) PROVE IdInv'
<1>1. pc = "plugins" /\ f \in unread /\ unread' = unread \ {f} /\ UNCHANGED <<table, count>>
      /\ table = NoTable /\ pc' \in {"plugins", "crashed"}
  BY DEF LoadPlugin, IdInv
<1>2. CASE UNCHANGED list
  BY <1>1, <1>2 DEF IdInv
<1>3. CASE Holds[f] # Broken /\ list' = Append(list, Entry(Holds[f], f))
  <2> DEFINE e == Entry(Holds[f], f)
             n == Len(list)
  <2>1. e \in Entries /\ e.driver = Holds[f]
    BY <1>3, Tables
  <2>2. /\ list' \in Seq(Entries) /\ Len(list') = n + 1 /\ list'[n + 1] = e
        /\ \A i \in 1 .. n : list'[i] = list[i]
    BY <1>3, <2>1, AppendProperties DEF ListInv
  <2>3. n \in Nat /\ DOMAIN list = 1 .. n /\ DOMAIN list' = 1 .. n + 1
    BY <2>2, ListShape, LenProperties
  <2>4. \A i \in DOMAIN list' : \/ i \in DOMAIN list /\ list'[i] = list[i]
                                \/ i = n + 1 /\ list'[i] = e
    BY <2>2, <2>3
  <2>5. \A i \in DOMAIN list : list[i].driver # Holds[f]
    BY <1>1 DEF IdInv
  <2>6. \A i, j \in DOMAIN list' : list'[i].driver = list'[j].driver => i = j
    BY <2>1, <2>4, <2>5 DEF IdInv
  <2>7. \A g \in unread' : g \in unread /\ g \in Files /\ Holds[g] # Holds[f]
    BY <1>1, <1>3 DEF ListInv, Distinct
  <2>8. \A g \in unread', i \in DOMAIN list' : list'[i].driver # Holds[g]
    BY <1>1, <2>1, <2>4, <2>7 DEF IdInv
  <2>9. QED
    BY <1>1, <2>6, <2>8 DEF IdInv
<1>4. QED
  BY <1>2, <1>3 DEF LoadPlugin

\* It is sorted, and the table made from it.
LEMMA TableIds == ASSUME ListInv, IdInv, MakeInfoTable PROVE IdInv'
<1>1. pc' = "idle" /\ list # <<>>
  BY DEF MakeInfoTable
<1>2. CASE table' = NoTable /\ UNCHANGED list
  BY <1>1, <1>2 DEF IdInv
<1>3. ASSUME NEW s \in Sortings, list' = s, count' = Len(list),
             table' \in {NoTable, [i \in DOMAIN list |-> s[i].driver]}
      PROVE  IdInv'
  <2>1. Len(s) = Len(list) /\ DOMAIN s = DOMAIN list /\ Len(list) \in Nat
        /\ DOMAIN list = 1 .. Len(list)
    BY SortingsPermute, ListShape
  <2>2. PICK p \in Bijection(DOMAIN list, DOMAIN list) : \A i \in DOMAIN list : s[i] = list[p[i]]
    BY SortingsPermute
  <2>3. p \in [DOMAIN list -> DOMAIN list]
        /\ \A i, j \in DOMAIN list : p[i] = p[j] => i = j
    BY <2>2 DEF Bijection, Injection, IsInjective
  <2>4. \A i, j \in DOMAIN s : s[i].driver = s[j].driver => i = j
    BY <2>1, <2>2, <2>3 DEF IdInv
  <2>5. s # <<>>
    <3>1. list \in Seq(Entries) /\ list # <<>>
      BY <1>1 DEF ListInv
    <3>2. Len(list) # 0
      BY <3>1, EmptySeq
    <3>3. QED
      BY <2>1, <3>2
  <2>6. table' # NoTable =>
          count' = Len(s) /\ Len(table') = count' /\ \A i \in DOMAIN s : table'[i] = s[i].driver
    <3>1. SUFFICES ASSUME table' # NoTable
                   PROVE  count' = Len(s) /\ Len(table') = count'
                          /\ \A i \in DOMAIN s : table'[i] = s[i].driver
      OBVIOUS
    <3>2. PICK n \in Nat : n = Len(list) /\ DOMAIN list = 1 .. n
      BY <2>1
    <3>3. table' = [i \in 1 .. n |-> s[i].driver]
      BY <1>3, <3>1, <3>2
    <3>4. Len(table') = n
      BY <3>3
    <3>5. QED
      BY <1>3, <2>1, <3>2, <3>3, <3>4
  <2>7. QED
    BY <1>1, <1>3, <2>4, <2>5, <2>6 DEF IdInv
<1>4. QED
  BY <1>2, <1>3 DEF MakeInfoTable, Relinked

\* Init and every step.
LEMMA IdsInductive == ASSUME Distinct PROVE Spec => []IdInv
<1>1. Init => IdInv
  BY DEF Init, IdInv
<1>2. ListInv /\ ListInv' /\ IdInv /\ [Next]_vars => IdInv'
  <2> SUFFICES ASSUME ListInv, ListInv', IdInv, [Next]_vars PROVE IdInv'
    OBVIOUS
  <2>1. CASE UNCHANGED idVars
    BY <2>1 DEF idVars, IdInv
  <2>2. CASE AoInitialize
    BY <2>2 DEF AoInitialize, IdInv
  <2>3. CASE ReadConfigFiles
    <3>1. UNCHANGED <<list, unread, table, count>>
          /\ (pc' = "user" \/ pc' = AfterConfig)
      BY <2>3 DEF ReadConfigFiles, ReadFile
    <3>2. QED
      BY <3>1 DEF AfterConfig, IdInv
  <2>4. CASE PluginsLoaded
    BY <2>4 DEF PluginsLoaded, IdInv
  <2>5. CASE MakeEmptyTable
    BY <2>5 DEF MakeEmptyTable, IdInv
  <2>6. CASE AoShutdown
    <3>1. list' = <<>> /\ table' = NoTable /\ pc' = "idle"
      BY <2>6 DEF AoShutdown, ForgetList
    <3>2. DOMAIN list' = {}
      BY <3>1
    <3>3. QED
      BY <3>1, <3>2 DEF IdInv
  <2>7. QED
    BY <2>1, <2>2, <2>3, <2>4, <2>5, <2>6, StaticIds, PluginIds, TableIds
       DEF Next, vars, idVars, EditConfig, AppendGlobalOption, AoDefaultDriverId
<1>3. QED
  BY <1>1, <1>2, ListInductive, PTL DEF Spec

\* With drivers of distinct names the table that ao_driver_info_list returns,
\* ao_driver_info, ao_driver_id and the list give an id the same driver.
THEOREM IdsMeanOneDriver == ASSUME Distinct PROVE Spec => []IdsAgree
<1>1. ListInv /\ IdInv => IdsAgree
  <2> SUFFICES ASSUME ListInv, IdInv, Ready, table # NoTable PROVE IdsAgree
    BY DEF IdsAgree
  <2>1. count = Len(list) /\ Len(table) = count /\ Len(list) \in Nat
        /\ DOMAIN list = 1 .. Len(list) /\ \A i \in DOMAIN list : table[i] = list[i].driver
    BY ListShape DEF IdInv
  <2>2. ASSUME NEW id \in 0 .. count - 1
        PROVE  table[id + 1] = DriverInfo(id) /\ DriverId(table[id + 1]) = id
    <3>1. id + 1 \in DOMAIN list /\ id \in 0 .. Len(list) - 1
      BY <2>1
    <3>2. table[id + 1] = list[id + 1].driver /\ DriverInfo(id) = list[id + 1].driver
      BY <2>1, <3>1 DEF DriverInfo, IsDriver
    <3> DEFINE at == {i \in DOMAIN list : list[i].driver = table[id + 1]}
    <3>3. at = {id + 1}
      BY <3>1, <3>2 DEF IdInv
    <3>4. \A i \in at : i = id + 1
      BY <3>3
    <3>5. (CHOOSE i \in at : \A j \in at : i <= j) = id + 1
      BY <2>1, <3>1, <3>3
    <3>6. DriverId(table[id + 1]) = (id + 1) - 1
      BY <3>3, <3>5 DEF DriverId
    <3>7. QED
      BY <3>2, <3>6
  <2>3. QED
    BY <2>1, <2>2 DEF IdsAgree
<1>2. QED
  BY <1>1, ListInductive, IdsInductive, PTL
-----------------------------------------------------------------------------
(* The lines of two files. *)

Options(lines) == {i \in DOMAIN lines : ~IsDefault(lines[i])}
Defaults(lines) == {i \in DOMAIN lines : IsDefault(lines[i])}

\* The keys of a file's options are as many as those lines, in their order.
LEMMA LineKeysAre ==
  ASSUME NEW a \in Seq(Line)
  PROVE  /\ Len(a) \in Nat /\ DOMAIN a = 1 .. Len(a) /\ Options(a) \in SUBSET (1 .. Len(a))
         /\ Defaults(a) \in SUBSET (1 .. Len(a))
         /\ IsFiniteSet(Options(a)) /\ Cardinality(Options(a)) \in Nat
         /\ LineKeys(a) = [n \in 1 .. Cardinality(Options(a)) |-> a[Nth(Options(a), n)].key]
         /\ Len(LineKeys(a)) = Cardinality(Options(a))
         /\ LineKeys(a) \in Seq(Keys)
<1>1. Len(a) \in Nat /\ DOMAIN a = 1 .. Len(a)
  BY LenProperties
<1>2. Options(a) \in SUBSET (1 .. Len(a)) /\ Defaults(a) \in SUBSET (1 .. Len(a))
  BY <1>1 DEF Options, Defaults
<1>3. IsFiniteSet(Options(a)) /\ Cardinality(Options(a)) \in Nat
  BY <1>1, <1>2, Ranks
<1>4. LineKeys(a) = [n \in 1 .. Cardinality(Options(a)) |-> a[Nth(Options(a), n)].key]
  BY DEF LineKeys, Options
<1>5. ASSUME NEW n \in 1 .. Cardinality(Options(a)) PROVE a[Nth(Options(a), n)].key \in Keys
  <2>1. PICK i \in Options(a) : Cardinality(Below(Options(a), i)) = n
    BY <1>1, <1>2, NthExists
  <2>2. Nth(Options(a), n) = i
    BY <1>1, <1>2, <2>1, NthIs
  <2>3. i \in DOMAIN a /\ ~IsDefault(a[i])
    BY <2>1 DEF Options
  <2>4. a[i] \in Line
    BY <1>1, <2>3, ElementOfSeq
  <2>5. QED
    BY <2>2, <2>3, <2>4 DEF Line, IsDefault
<1>6. LineKeys(a) \in Seq(Keys) /\ Len(LineKeys(a)) = Cardinality(Options(a))
  BY <1>3, <1>4, <1>5
<1>7. QED
  BY <1>1, <1>2, <1>3, <1>4, <1>6

\* The lines of one file behind those of another.
LEMMA TwoFiles ==
  ASSUME NEW a \in Seq(Line), NEW b \in Seq(Line)
  PROVE  /\ a \o b \in Seq(Line) /\ Len(a \o b) = Len(a) + Len(b)
         /\ \A i \in 1 .. Len(a) : (a \o b)[i] = a[i]
         /\ \A i \in 1 .. Len(b) : (a \o b)[Len(a) + i] = b[i]
         /\ \A i \in 1 .. Len(a \o b) :
              i \in 1 .. Len(a) \/ \E j \in 1 .. Len(b) : i = Len(a) + j
<1>1. Len(a) \in Nat /\ Len(b) \in Nat
  BY LenProperties
<1>2. /\ a \o b \in Seq(Line) /\ Len(a \o b) = Len(a) + Len(b)
      /\ \A i \in 1 .. Len(a) : (a \o b)[i] = a[i]
      /\ \A i \in 1 .. Len(b) : (a \o b)[Len(a) + i] = b[i]
  BY <1>1
<1>3. \A i \in 1 .. Len(a) + Len(b) :
        i \in 1 .. Len(a) \/ (i - Len(a) \in 1 .. Len(b) /\ i = Len(a) + (i - Len(a)))
  BY <1>1
<1>4. QED
  BY <1>2, <1>3

\* The options of both files are those of the first and behind them those of
\* the second, by their numbers.
LEMMA OptionsOfTwo ==
  ASSUME NEW a \in Seq(Line), NEW b \in Seq(Line)
  PROVE  /\ \A i \in Options(a) :
              i \in Options(a \o b) /\ Below(Options(a \o b), i) = Below(Options(a), i)
         /\ \A j \in Options(b) :
              /\ Len(a) + j \in Options(a \o b)
              /\ Cardinality(Below(Options(a \o b), Len(a) + j))
                   = Cardinality(Options(a)) + Cardinality(Below(Options(b), j))
         /\ Cardinality(Options(a \o b)) = Cardinality(Options(a)) + Cardinality(Options(b))
<1> DEFINE c == a \o b
           la == Len(a)
           moved(S) == {la + j : j \in S}
<1>1. /\ la \in Nat /\ DOMAIN a = 1 .. la /\ Options(a) \in SUBSET (1 .. la)
      /\ Len(b) \in Nat /\ DOMAIN b = 1 .. Len(b) /\ Options(b) \in SUBSET (1 .. Len(b))
  BY LineKeysAre
<1>2. /\ c \in Seq(Line) /\ Len(c) = la + Len(b)
      /\ \A i \in 1 .. la : c[i] = a[i]
      /\ \A i \in 1 .. Len(b) : c[la + i] = b[i]
      /\ \A i \in 1 .. Len(c) : i \in 1 .. la \/ \E j \in 1 .. Len(b) : i = la + j
  BY TwoFiles
<1>3. DOMAIN c = 1 .. Len(c)
  BY <1>2, LenProperties
<1> HIDE DEF c, la
<1>4. /\ \A i \in 1 .. la : i \in 1 .. Len(c)
      /\ \A j \in 1 .. Len(b) : la + j \in 1 .. Len(c) /\ ~(la + j \in 1 .. la) /\ j \in Nat
  BY <1>1, <1>2
<1>5. \A i \in 1 .. la : i \in Options(c) <=> i \in Options(a)
  BY <1>1, <1>2, <1>3, <1>4 DEF Options
<1>6. \A j \in 1 .. Len(b) : la + j \in Options(c) <=> j \in Options(b)
  BY <1>1, <1>2, <1>3, <1>4 DEF Options
<1>7. \A i \in Options(c) : i \in Options(a) \/ \E j \in Options(b) : i = la + j
  <2>1. \A i \in Options(c) : i \in 1 .. Len(c)
    BY <1>3 DEF Options
  <2>2. QED
    BY <1>2, <1>5, <1>6, <2>1
<1>8. /\ \A i \in Options(a) : i \in Nat /\ 1 <= i /\ i <= la /\ i \in 1 .. la /\ i \in Options(c)
      /\ \A j \in Options(b) : j \in Nat /\ 1 <= j /\ j \in 1 .. Len(b) /\ la + j \in Options(c)
  BY <1>1, <1>5, <1>6
\* As many are moved as there are.
<1>9. ASSUME NEW S \in SUBSET Options(b)
      PROVE  /\ IsFiniteSet(moved(S)) /\ Cardinality(moved(S)) = Cardinality(S)
             /\ Options(a) \cap moved(S) = {} /\ IsFiniteSet(S) /\ Cardinality(S) \in Nat
  <2>1. IsFiniteSet(Options(b))
    BY <1>1, Ranks
  <2>2. IsFiniteSet(S) /\ Cardinality(S) \in Nat
    BY <2>1, FS_Subset, FS_CardinalityType
  <2> DEFINE f == [j \in S |-> la + j]
  <2>3. f \in [S -> moved(S)] /\ DOMAIN f = S
    OBVIOUS
  <2>4. \A i, j \in S : f[i] = f[j] => i = j
    BY <1>1, <1>8
  <2>5. \A i \in moved(S) : \E j \in S : f[j] = i
    OBVIOUS
  <2>6. f \in Bijection(S, moved(S))
    BY <2>3, <2>4, <2>5 DEF Bijection, Injection, IsInjective, Surjection
  <2>7. ExistsBijection(S, moved(S))
    BY <2>6 DEF ExistsBijection
  <2>8. IsFiniteSet(moved(S)) /\ Cardinality(moved(S)) = Cardinality(S)
    BY <2>2, <2>7, FS_Bijection
  <2>9. \A j \in S : ~(la + j \in Options(a))
    BY <1>1, <1>4, <1>8
  <2>10. QED
    BY <2>2, <2>8, <2>9
<1>10. ASSUME NEW S \in SUBSET Options(b)
       PROVE  Cardinality(Options(a) \cup moved(S)) = Cardinality(Options(a)) + Cardinality(S)
  <2>1. IsFiniteSet(Options(a)) /\ Cardinality(Options(a)) \in Nat
    BY <1>1, Ranks
  <2>2. /\ IsFiniteSet(moved(S)) /\ Cardinality(moved(S)) = Cardinality(S)
        /\ Options(a) \cap moved(S) = {} /\ Cardinality(S) \in Nat
    BY <1>9
  <2> HIDE DEF moved
  <2>3. Cardinality(Options(a) \cup moved(S)) =
          Cardinality(Options(a)) + Cardinality(moved(S)) - Cardinality(Options(a) \cap moved(S))
    BY <2>1, <2>2, FS_Union
  <2>4. Cardinality(Options(a) \cap moved(S)) = 0
    BY <2>2, FS_EmptySet
  <2>5. QED
    BY <2>1, <2>2, <2>3, <2>4
<1>11. ASSUME NEW i \in Options(a) PROVE Below(Options(c), i) = Below(Options(a), i)
  <2>1. \A j \in Options(b) : ~(la + j <= i)
    BY <1>1, <1>8
  <2>2. \A k \in Options(c) : k <= i => k \in Options(a)
    BY <1>7, <2>1
  <2>3. QED
    BY <1>8, <2>2 DEF Below
<1>12. ASSUME NEW j \in Options(b)
       PROVE  Below(Options(c), la + j) = Options(a) \cup moved(Below(Options(b), j))
  <2>1. \A k \in Options(a) : k <= la + j
    BY <1>1, <1>8
  <2>2. \A k \in Options(b) : la + k <= la + j <=> k <= j
    BY <1>1, <1>8
  <2>3. QED
    BY <1>7, <1>8, <2>1, <2>2 DEF Below
<1>13. Options(c) = Options(a) \cup moved(Options(b))
  BY <1>7, <1>8
<1>14. \A j \in Options(b) : Below(Options(b), j) \in SUBSET Options(b)
  BY DEF Below
<1>15. \A j \in Options(b) : Cardinality(Below(Options(c), la + j))
                               = Cardinality(Options(a)) + Cardinality(Below(Options(b), j))
  BY <1>10, <1>12, <1>14
<1>16. Cardinality(Options(c)) = Cardinality(Options(a)) + Cardinality(Options(b))
  BY <1>10, <1>13
<1>17. QED
  BY <1>8, <1>11, <1>15, <1>16 DEF c, la

\* The keys of two files read one behind the other are the first's and the
\* second's.
LEMMA LineKeysOfTwo ==
  ASSUME NEW a \in Seq(Line), NEW b \in Seq(Line)
  PROVE  LineKeys(a \o b) = LineKeys(a) \o LineKeys(b)
<1> DEFINE c == a \o b
           na == Cardinality(Options(a))
           nb == Cardinality(Options(b))
<1>1. /\ c \in Seq(Line) /\ (\A i \in 1 .. Len(a) : c[i] = a[i])
      /\ \A i \in 1 .. Len(b) : c[Len(a) + i] = b[i]
  BY TwoFiles
<1>2. /\ Len(a) \in Nat /\ Options(a) \in SUBSET (1 .. Len(a)) /\ na \in Nat
      /\ LineKeys(a) \in Seq(Keys) /\ Len(LineKeys(a)) = na
      /\ LineKeys(a) = [n \in 1 .. na |-> a[Nth(Options(a), n)].key]
  BY LineKeysAre
<1>3. /\ Len(b) \in Nat /\ Options(b) \in SUBSET (1 .. Len(b)) /\ nb \in Nat
      /\ LineKeys(b) \in Seq(Keys) /\ Len(LineKeys(b)) = nb
      /\ LineKeys(b) = [n \in 1 .. nb |-> b[Nth(Options(b), n)].key]
  BY LineKeysAre
<1>4. /\ \A i \in Options(a) :
           i \in Options(c) /\ Below(Options(c), i) = Below(Options(a), i)
      /\ \A j \in Options(b) :
           /\ Len(a) + j \in Options(c)
           /\ Cardinality(Below(Options(c), Len(a) + j)) = na + Cardinality(Below(Options(b), j))
      /\ Cardinality(Options(c)) = na + nb
  BY OptionsOfTwo
<1>5. /\ Len(c) \in Nat /\ Options(c) \in SUBSET (1 .. Len(c))
      /\ LineKeys(c) \in Seq(Keys) /\ Len(LineKeys(c)) = na + nb
      /\ LineKeys(c) = [n \in 1 .. na + nb |-> c[Nth(Options(c), n)].key]
  BY <1>1, <1>4, LineKeysAre
<1> HIDE DEF c, na, nb
<1>6. ASSUME NEW n \in 1 .. na PROVE LineKeys(c)[n] = LineKeys(a)[n]
  <2>1. PICK i \in Options(a) : Cardinality(Below(Options(a), i)) = n
    BY <1>2, NthExists DEF na
  <2>2. Nth(Options(a), n) = i
    BY <1>2, <2>1, NthIs
  <2>3. Nth(Options(c), n) = i
    BY <1>4, <1>5, <2>1, NthIs
  <2>4. c[i] = a[i]
    BY <1>1, <1>2
  <2>5. n \in 1 .. na + nb
    BY <1>2, <1>3
  <2>6. QED
    BY <1>2, <1>5, <2>2, <2>3, <2>4, <2>5
<1>7. ASSUME NEW n \in 1 .. nb PROVE LineKeys(c)[na + n] = LineKeys(b)[n]
  <2>1. PICK j \in Options(b) : Cardinality(Below(Options(b), j)) = n
    BY <1>3, NthExists DEF nb
  <2>2. Nth(Options(b), n) = j
    BY <1>3, <2>1, NthIs
  <2>3. Len(a) + j \in Options(c) /\ Cardinality(Below(Options(c), Len(a) + j)) = na + n
    BY <1>4, <2>1
  <2>4. Nth(Options(c), na + n) = Len(a) + j
    BY <1>5, <2>3, NthIs
  <2>5. c[Len(a) + j] = b[j]
    <3>1. j \in 1 .. Len(b)
      BY <1>3
    <3>2. QED
      BY <1>1, <3>1
  <2>6. na + n \in 1 .. na + nb
    BY <1>2, <1>3
  <2>7. QED
    BY <1>3, <1>5, <2>2, <2>4, <2>5, <2>6
<1>8. /\ LineKeys(a) \o LineKeys(b) \in Seq(Keys)
      /\ Len(LineKeys(a) \o LineKeys(b)) = na + nb
      /\ \A n \in 1 .. na : (LineKeys(a) \o LineKeys(b))[n] = LineKeys(a)[n]
      /\ \A n \in 1 .. nb : (LineKeys(a) \o LineKeys(b))[na + n] = LineKeys(b)[n]
  BY <1>2, <1>3
<1>9. \A n \in 1 .. na + nb : LineKeys(c)[n] = (LineKeys(a) \o LineKeys(b))[n]
  <2> SUFFICES ASSUME NEW n \in 1 .. na + nb
               PROVE  LineKeys(c)[n] = (LineKeys(a) \o LineKeys(b))[n]
    OBVIOUS
  <2>1. CASE n \in 1 .. na
    BY <1>6, <1>8, <2>1
  <2>2. CASE ~(n \in 1 .. na)
    <3>1. n - na \in 1 .. nb /\ n = na + (n - na)
      BY <1>2, <1>3, <2>2
    <3>2. PICK m \in 1 .. nb : n = na + m
      BY <3>1
    <3>3. QED
      BY <1>7, <1>8, <3>2
  <2>3. QED
    BY <2>1, <2>2
<1>10. LineKeys(c) = LineKeys(a) \o LineKeys(b)
  BY <1>5, <1>8, <1>9, SeqEqual
<1>11. QED
  BY <1>10 DEF c

\* The last default of a file.
LEMMA DefaultIs ==
  ASSUME NEW a \in Seq(Line), NEW d
  PROVE  /\ Defaults(a) = {} => DefaultAfter(a, d) = d
         /\ \A i \in Defaults(a) : (\A j \in Defaults(a) : j <= i) => DefaultAfter(a, d) = a[i].value
<1>1. \A i \in Defaults(a) : i \in Nat
  BY LineKeysAre
<1>2. ASSUME NEW i \in Defaults(a), \A j \in Defaults(a) : j <= i PROVE Max(Defaults(a)) = i
  <2>1. \A k \in Defaults(a) : (\A j \in Defaults(a) : k >= j) => k = i
    BY <1>1, <1>2
  <2>2. \A j \in Defaults(a) : i >= j
    BY <1>1, <1>2
  <2>3. QED
    BY <2>1, <2>2 DEF Max
<1>3. QED
  BY <1>2 DEF DefaultAfter, Defaults

\* What is kept is a driver that was configured, or none.
LEMMA DefaultTyped ==
  ASSUME NEW a \in Seq(Line), NEW d \in Drivers \cup {NoName}
  PROVE  DefaultAfter(a, d) \in Drivers \cup {NoName}
<1>1. CASE Defaults(a) = {}
  BY <1>1, DefaultIs
<1>2. CASE Defaults(a) # {}
  <2>1. PICK i \in Defaults(a) : \A j \in Defaults(a) : j <= i
    BY <1>2, LineKeysAre, Largest
  <2>2. a[i] \in Line
    BY LineKeysAre, ElementOfSeq
  <2>3. QED
    BY <2>1, <2>2, DefaultIs DEF Line
<1>3. QED
  BY <1>1, <1>2

\* A line of the second file comes after all of the first.
LEMMA DefaultOfTwo ==
  ASSUME NEW a \in Seq(Line), NEW b \in Seq(Line), NEW d
  PROVE  DefaultAfter(a \o b, d) = DefaultAfter(b, DefaultAfter(a, d))
<1> DEFINE c == a \o b
<1>1. /\ c \in Seq(Line) /\ Len(c) = Len(a) + Len(b)
      /\ \A i \in 1 .. Len(a) : c[i] = a[i]
      /\ \A i \in 1 .. Len(b) : c[Len(a) + i] = b[i]
      /\ \A i \in 1 .. Len(c) : i \in 1 .. Len(a) \/ \E j \in 1 .. Len(b) : i = Len(a) + j
  BY TwoFiles
<1>2. /\ Len(a) \in Nat /\ DOMAIN a = 1 .. Len(a) /\ Defaults(a) \in SUBSET (1 .. Len(a))
      /\ Len(b) \in Nat /\ DOMAIN b = 1 .. Len(b) /\ Defaults(b) \in SUBSET (1 .. Len(b))
  BY LineKeysAre
<1>3. DOMAIN c = 1 .. Len(c)
  BY <1>1, LenProperties
<1> HIDE DEF c
<1>4. \A i \in Defaults(a) : i \in Defaults(c) /\ i \in 1 .. Len(a) /\ c[i] = a[i]
  <2>1. \A i \in Defaults(a) : i \in 1 .. Len(a) /\ i \in 1 .. Len(c)
    BY <1>1, <1>2
  <2>2. QED
    BY <1>1, <1>3, <2>1 DEF Defaults
<1>5. \A j \in Defaults(b) : /\ Len(a) + j \in Defaults(c) /\ j \in 1 .. Len(b)
                             /\ c[Len(a) + j] = b[j]
  <2>1. \A j \in Defaults(b) : j \in 1 .. Len(b) /\ Len(a) + j \in 1 .. Len(c)
    BY <1>1, <1>2
  <2>2. QED
    BY <1>1, <1>3, <2>1 DEF Defaults
<1>6. \A i \in Defaults(c) : i \in Defaults(a) \/ \E j \in Defaults(b) : i = Len(a) + j
  <2>1. \A i \in Defaults(c) : i \in 1 .. Len(c) /\ IsDefault(c[i])
    BY <1>3 DEF Defaults
  <2>2. QED
    BY <1>1, <1>2, <2>1 DEF Defaults
<1>7. CASE Defaults(b) # {}
  <2>1. PICK k \in Defaults(b) : \A j \in Defaults(b) : j <= k
    BY <1>2, <1>7, Largest
  <2>2. DefaultAfter(b, DefaultAfter(a, d)) = b[k].value
    BY <2>1, DefaultIs
  <2>3. \A i \in Defaults(c) : i <= Len(a) + k
    <3>1. \A i \in Defaults(a) : i <= Len(a) + k
      BY <1>2, <1>4, <1>5, <2>1
    <3>2. \A j \in Defaults(b) : Len(a) + j <= Len(a) + k
      BY <1>2, <1>5, <2>1
    <3>3. QED
      BY <1>6, <3>1, <3>2
  <2>4. DefaultAfter(c, d) = c[Len(a) + k].value
    BY <1>1, <1>5, <2>1, <2>3, DefaultIs
  <2>5. QED
    BY <1>5, <2>1, <2>2, <2>4 DEF c
<1>8. CASE Defaults(b) = {}
  <2>1. DefaultAfter(b, DefaultAfter(a, d)) = DefaultAfter(a, d)
    BY <1>8, DefaultIs
  <2>2. \A i \in Defaults(c) : i \in Defaults(a)
    BY <1>6, <1>8
  <2>3. CASE Defaults(a) = {}
    <3>1. Defaults(c) = {}
      BY <2>2, <2>3
    <3>2. DefaultAfter(c, d) = d /\ DefaultAfter(a, d) = d
      BY <1>1, <2>3, <3>1, DefaultIs
    <3>3. QED
      BY <2>1, <3>2 DEF c
  <2>4. CASE Defaults(a) # {}
    <3>1. PICK k \in Defaults(a) : \A j \in Defaults(a) : j <= k
      BY <1>2, <2>4, Largest
    <3>2. DefaultAfter(a, d) = a[k].value
      BY <3>1, DefaultIs
    <3>3. DefaultAfter(c, d) = c[k].value
      BY <1>1, <1>4, <2>2, <3>1, DefaultIs
    <3>4. QED
      BY <1>4, <2>1, <3>1, <3>2, <3>3 DEF c
  <2>5. QED
    BY <2>3, <2>4
<1>9. QED
  BY <1>7, <1>8

\* The driver two files name is the one that is left when both were read.
LEMMA NamedIs ==
  ASSUME session.conf.system \in Seq(Line), session.conf.user \in Seq(Line)
  PROVE  Named = DefaultAfter(session.conf.user, DefaultAfter(session.conf.system, NoName))
<1> DEFINE c == session.conf.system \o session.conf.user
<1>1. c \in Seq(Line)
  BY TwoFiles
<1>2. Named = IF Defaults(c) = {} THEN NoName
              ELSE c[CHOOSE i \in Defaults(c) : \A j \in Defaults(c) : j <= i].value
  BY DEF Named, Defaults
<1> HIDE DEF c
<1>3. CASE Defaults(c) = {}
  <2>1. Named = NoName
    BY <1>2, <1>3
  <2>2. DefaultAfter(c, NoName) = NoName
    BY <1>1, <1>3, DefaultIs
  <2>3. QED
    BY <2>1, <2>2, DefaultOfTwo DEF c
<1>4. CASE Defaults(c) # {}
  <2>1. \E i \in Defaults(c) : \A j \in Defaults(c) : j <= i
    BY <1>1, <1>4, LineKeysAre, Largest
  <2> DEFINE k == CHOOSE i \in Defaults(c) : \A j \in Defaults(c) : j <= i
  <2>2. k \in Defaults(c) /\ \A j \in Defaults(c) : j <= k
    BY <2>1
  <2>3. Named = c[k].value
    BY <1>2, <1>4
  <2> HIDE DEF k
  <2>4. DefaultAfter(c, NoName) = c[k].value
    BY <1>1, <2>2, DefaultIs
  <2>5. QED
    BY <2>3, <2>4, DefaultOfTwo DEF c
<1>5. QED
  BY <1>3, <1>4
-----------------------------------------------------------------------------
(* The configuration. *)

Stages == {"system", "user", "static", "plugins", "table"}
ConfFiles == [system : SystemFiles, user : UserFiles]

Sessions == [inits : Nat, conf : ConfFiles \cup {<<>>}, before : Seq(Keys), after : Seq(Keys)]

\* The default driver and the options while the files of the first
\* ao_initialize of a session are read, and behind it.
ReadInv ==
  LET files == session.conf
  IN session.inits = 1 =>
       /\ files \in ConfFiles
       /\ pc \in Stages => session.after = <<>>
       /\ pc = "system" => default = NoName /\ options = session.before
       /\ pc = "user" => /\ default = DefaultAfter(files.system, NoName)
                         /\ options = session.before \o LineKeys(files.system)
       /\ pc \notin {"system", "user"} =>
            /\ default = DefaultAfter(files.user, DefaultAfter(files.system, NoName))
            /\ options = ((session.before \o LineKeys(files.system)) \o LineKeys(files.user))
                           \o session.after

ConfInv ==
  /\ pc \in Stages \cup {"idle", "crashed"}
  /\ default \in Drivers \cup {NoName} /\ options \in Seq(Keys)
  /\ conf \in ConfFiles /\ session \in Sessions
  /\ pc \in Stages => session.conf = conf
  /\ session.inits = 0 =>
       pc = "idle" /\ default = NoName /\ options = session.before /\ session.after = <<>>
  /\ ReadInv

\* An answer is given on the list as it is; every later call forgets it.
AnswerInv ==
  /\ pc # "idle" => asked = NoAnswer
  /\ asked # NoAnswer => asked.works \subseteq Drivers /\ asked.id = DefaultId(asked.works)

\* _make_info_table sorts the list it counts.
Sorted == \A i, j \in DOMAIN list : i < j => ~ComesFirst(list[j].driver, list[i].driver)

TableInv ==
  /\ count \in Nat /\ (table = NoTable \/ table \in Seq(Drivers))
  /\ pc = "idle" /\ count > 0 => Sorted

\* What the steps of a session read and write of the configuration.
confVars == <<pc, default, options, conf, session>>

\* The two files are sequences of lines.
LEMMA ConfFilesAre ==
  ASSUME NEW files \in ConfFiles
  PROVE  files.system \in Seq(Line) /\ files.user \in Seq(Line)
BY TableAssumption DEF ConfFiles

\* Appending to what two sequences make is appending to the second.
LEMMA AppendBehind ==
  ASSUME NEW s \in Seq(Keys), NEW t \in Seq(Keys), NEW e \in Keys
  PROVE  Append(s \o t, e) = s \o Append(t, e)
<1>1. <<e>> \in Seq(Keys) /\ s \o t \in Seq(Keys)
  OBVIOUS
<1>2. Append(t, e) = t \o <<e>> /\ Append(s \o t, e) = (s \o t) \o <<e>>
  BY <1>1, AppendIsConcat
<1>3. QED
  BY <1>1, <1>2, ConcatAssociative

\* An option that is appended goes behind those of the files, if they were read.
LEMMA AppendKeeps == ASSUME ConfInv, NEW key \in Keys, AppendGlobalOption(key) PROVE ConfInv'
<1>1. /\ pc = "idle" /\ options' = Append(options, key) /\ UNCHANGED <<pc, default, conf>>
      /\ session' = IF session.inits = 0
                    THEN [session EXCEPT !.before = Append(@, key)]
                    ELSE [session EXCEPT !.after = Append(@, key)]
  BY DEF AppendGlobalOption
<1>2. /\ options \in Seq(Keys) /\ session.before \in Seq(Keys) /\ session.after \in Seq(Keys)
      /\ session \in Sessions
  BY DEF ConfInv, Sessions
<1>3. options' \in Seq(Keys)
  BY <1>1, <1>2, AppendProperties
<1>4. CASE session.inits = 0
  <2>1. session' = [session EXCEPT !.before = Append(session.before, key)]
    BY <1>1, <1>4
  <2>2. Append(session.before, key) \in Seq(Keys)
    BY <1>2, AppendProperties
  <2>3. /\ session'.before = Append(session.before, key) /\ session'.after = session.after
        /\ session'.inits = session.inits /\ session'.conf = session.conf
        /\ session' \in Sessions
    BY <1>2, <2>1, <2>2 DEF Sessions
  <2>4. options = session.before /\ session.after = <<>> /\ default = NoName
    BY <1>4 DEF ConfInv
  <2>5. ReadInv'
    BY <1>4, <2>3 DEF ReadInv
  <2>6. QED
    BY <1>1, <1>3, <1>4, <2>3, <2>4, <2>5 DEF ConfInv, Stages
<1>5. CASE session.inits # 0
  <2>1. session' = [session EXCEPT !.after = Append(session.after, key)]
    BY <1>1, <1>5
  <2>2. Append(session.after, key) \in Seq(Keys)
    BY <1>2, AppendProperties
  <2>3. /\ session'.after = Append(session.after, key) /\ session'.before = session.before
        /\ session'.inits = session.inits /\ session'.conf = session.conf
        /\ session' \in Sessions
    BY <1>2, <2>1, <2>2 DEF Sessions
  <2>4. ReadInv'
    <3> SUFFICES ASSUME session.inits = 1
                 PROVE  /\ session.conf \in ConfFiles
                        /\ default = DefaultAfter(session.conf.user,
                                       DefaultAfter(session.conf.system, NoName))
                        /\ Append(options, key) =
                             ((session.before \o LineKeys(session.conf.system))
                                \o LineKeys(session.conf.user)) \o Append(session.after, key)
      BY <1>1, <2>3 DEF ReadInv, Stages
    <3> DEFINE files == session.conf
               read == (session.before \o LineKeys(files.system)) \o LineKeys(files.user)
    <3>1. /\ files \in ConfFiles /\ options = read \o session.after
          /\ default = DefaultAfter(files.user, DefaultAfter(files.system, NoName))
      BY <1>1 DEF ConfInv, ReadInv
    <3>2. LineKeys(files.system) \in Seq(Keys) /\ LineKeys(files.user) \in Seq(Keys)
      BY <3>1, ConfFilesAre, LineKeysAre
    <3>3. read \in Seq(Keys)
      BY <1>2, <3>2, ConcatProperties
    <3> HIDE DEF read
    <3>4. Append(read \o session.after, key) = read \o Append(session.after, key)
      <4>1. PICK s \in Seq(Keys), t \in Seq(Keys) : s = read /\ t = session.after
        BY <1>2, <3>3
      <4>2. Append(s \o t, key) = s \o Append(t, key)
        BY <4>1, AppendBehind
      <4>3. QED
        BY <4>1, <4>2
    <3>5. QED
      BY <3>1, <3>4 DEF read
  <2>5. QED
    BY <1>1, <1>3, <1>5, <2>3, <2>4 DEF ConfInv, Stages
<1>6. QED
  BY <1>4, <1>5

\* ao_initialize begins a session, or goes on with one.
LEMMA InitializeKeeps == ASSUME ConfInv, AoInitialize PROVE ConfInv'
<1>1. /\ pc = "idle" /\ pc' = "system" /\ UNCHANGED <<default, options, conf>>
      /\ session' = [session EXCEPT !.inits = @ + 1, !.conf = conf]
  BY DEF AoInitialize
<1>2. session \in Sessions /\ conf \in ConfFiles /\ session.inits \in Nat
  BY DEF ConfInv, Sessions
<1>3. session' = [[session EXCEPT !.inits = session.inits + 1] EXCEPT !.conf = conf]
  BY <1>1
<1>4. /\ [session EXCEPT !.inits = session.inits + 1] \in Sessions
      /\ session.inits + 1 \in Nat /\ conf \in ConfFiles \cup {<<>>}
  BY <1>2 DEF Sessions
<1>5. /\ session'.inits = session.inits + 1 /\ session'.conf = conf
      /\ session'.before = session.before /\ session'.after = session.after
      /\ session' \in Sessions
  BY <1>2, <1>3, <1>4 DEF Sessions
<1>6. session'.inits # 0 /\ (session'.inits = 1 => session.inits = 0)
  BY <1>2, <1>5
<1>7. ReadInv'
  BY <1>1, <1>2, <1>5, <1>6 DEF ReadInv, ConfInv, Stages
<1>8. QED
  BY <1>1, <1>2, <1>5, <1>6, <1>7 DEF ConfInv, Stages

\* The files are read, the system's before the user's.
LEMMA FilesKeep == ASSUME ConfInv, ReadConfigFiles PROVE ConfInv'
<1>1. /\ session \in Sessions /\ conf \in ConfFiles /\ options \in Seq(Keys)
      /\ default \in Drivers \cup {NoName} /\ UNCHANGED <<conf, session>>
  BY DEF ConfInv, ReadConfigFiles, ReadFile
<1>2. conf.system \in Seq(Line) /\ conf.user \in Seq(Line)
  BY <1>1, ConfFilesAre
<1>3. session.before \in Seq(Keys) /\ session.after \in Seq(Keys)
  BY <1>1 DEF Sessions
<1>4. ASSUME NEW lines \in Seq(Line), default' = DefaultAfter(lines, default),
             options' = options \o LineKeys(lines)
      PROVE  default' \in Drivers \cup {NoName} /\ options' \in Seq(Keys)
  BY <1>1, <1>4, DefaultTyped, LineKeysAre, ConcatProperties
<1>5. CASE pc = "system"
  <2>1. /\ pc' = "user" /\ default' = DefaultAfter(conf.system, default)
        /\ options' = options \o LineKeys(conf.system)
    BY <1>5 DEF ReadConfigFiles, ReadFile
  <2>2. session.conf = conf /\ session.inits # 0
    BY <1>5 DEF ConfInv, Stages
  <2>3. session.inits = 1 =>
          default = NoName /\ options = session.before /\ session.after = <<>>
    BY <1>5 DEF ConfInv, ReadInv, Stages
  <2>4. ReadInv'
    BY <1>1, <2>1, <2>2, <2>3 DEF ReadInv
  <2>5. QED
    BY <1>1, <1>2, <1>4, <2>1, <2>2, <2>4 DEF ConfInv, Stages
<1>6. CASE pc = "user"
  <2>1. /\ pc' \in {"static", "table"} /\ default' = DefaultAfter(conf.user, default)
        /\ options' = options \o LineKeys(conf.user)
    BY <1>6 DEF ReadConfigFiles, ReadFile, AfterConfig
  <2>2. session.conf = conf /\ session.inits # 0
    BY <1>6 DEF ConfInv, Stages
  <2>3. session.inits = 1 =>
          /\ default = DefaultAfter(conf.system, NoName) /\ session.after = <<>>
          /\ options = session.before \o LineKeys(conf.system)
    BY <1>6, <2>2 DEF ConfInv, ReadInv, Stages
  <2>4. default' \in Drivers \cup {NoName} /\ options' \in Seq(Keys)
    BY <1>2, <1>4, <2>1
  <2>5. options' \o <<>> = options'
    BY <2>4
  <2>6. ReadInv'
    BY <1>1, <2>1, <2>2, <2>3, <2>5 DEF ReadInv
  <2>7. QED
    BY <1>1, <2>1, <2>2, <2>4, <2>6 DEF ConfInv, Stages
<1>7. QED
  BY <1>5, <1>6 DEF ReadConfigFiles, ReadFile

\* The drivers are loaded and the table is made; the configuration stays.
LEMMA StageKeeps ==
  ASSUME ConfInv, UNCHANGED <<default, options, conf, session>>,
         \/ pc' = pc
         \/ pc \in {"static", "plugins", "table"} /\ pc' \in {"plugins", "table", "idle", "crashed"}
  PROVE  ConfInv'
<1>1. CASE pc' = pc
  BY <1>1 DEF ConfInv, ReadInv
<1>2. CASE pc \in {"static", "plugins", "table"} /\ pc' \in {"plugins", "table", "idle", "crashed"}
  <2>1. ReadInv'
    BY <1>2 DEF ConfInv, ReadInv, Stages
  <2>2. QED
    BY <1>2, <2>1 DEF ConfInv, Stages
<1>3. QED
  BY <1>1, <1>2

\* Init and every step.
LEMMA ConfInductive == Spec => []ConfInv
<1>1. <<>> \in Seq(Keys) /\ NewSession \in Sessions
  BY DEF NewSession, Sessions
<1>2. NewSession.inits = 0 /\ NewSession.before = <<>> /\ NewSession.after = <<>>
  BY DEF NewSession
<1>3. Init => ConfInv
  <2> SUFFICES ASSUME Init PROVE ConfInv
    OBVIOUS
  <2>1. /\ pc = "idle" /\ default = NoName /\ options = <<>> /\ conf \in ConfFiles
        /\ session = NewSession
    BY DEF Init, ConfFiles
  <2>2. ReadInv
    BY <1>2, <2>1 DEF ReadInv
  <2>3. QED
    BY <1>1, <1>2, <2>1, <2>2 DEF ConfInv, Stages
<1>4. ConfInv /\ [Next]_vars => ConfInv'
  <2> SUFFICES ASSUME ConfInv, [Next]_vars PROVE ConfInv'
    OBVIOUS
  <2>1. CASE EditConfig
    BY <2>1 DEF EditConfig, ConfInv, ReadInv, Stages, ConfFiles
  <2>2. CASE AoShutdown
    <3>1. /\ pc' = "idle" /\ default' = NoName /\ options' = <<>> /\ conf' \in ConfFiles
          /\ session' = NewSession
      BY <2>2 DEF AoShutdown, ClearConfig, ConfInv
    <3>2. ReadInv'
      BY <1>2, <3>1 DEF ReadInv
    <3>3. QED
      BY <1>1, <1>2, <3>1, <3>2 DEF ConfInv, Stages
  <2>3. ASSUME NEW works \in SUBSET Drivers, AoDefaultDriverId(works) PROVE ConfInv'
    BY <2>3, StageKeeps DEF AoDefaultDriverId
  <2>4. ASSUME NEW f \in Files, LoadPlugin(f) PROVE ConfInv'
    BY <2>4, StageKeeps DEF LoadPlugin
  <2>5. CASE LoadStaticDrivers \/ PluginsLoaded \/ MakeInfoTable \/ MakeEmptyTable
    BY <2>5, StageKeeps DEF LoadStaticDrivers, PluginsLoaded, MakeInfoTable, MakeEmptyTable
  <2>6. CASE UNCHANGED vars
    BY <2>6, StageKeeps DEF vars
  <2>7. QED
    BY <2>1, <2>2, <2>3, <2>4, <2>5, <2>6, AppendKeeps, InitializeKeeps, FilesKeep DEF Next
<1>5. QED
  BY <1>3, <1>4, PTL DEF Spec

\* The options and the default of the first ao_initialize of a session are
\* those of the files it found and of the application, in their order.
THEOREM SessionsAreFresh == Spec => []ConfigurationIsFresh
<1>1. ConfInv => ConfigurationIsFresh
  <2> SUFFICES ASSUME ConfInv, Ready, session.inits = 1
               PROVE  /\ default = Named
                      /\ options = (session.before
                                      \o LineKeys(session.conf.system \o session.conf.user))
                                     \o session.after
    BY DEF ConfigurationIsFresh
  <2> DEFINE files == session.conf
  <2>1. /\ files \in ConfFiles
        /\ default = DefaultAfter(files.user, DefaultAfter(files.system, NoName))
        /\ options = ((session.before \o LineKeys(files.system)) \o LineKeys(files.user))
                       \o session.after
        /\ session.before \in Seq(Keys)
    BY DEF ConfInv, ReadInv, Ready, Sessions
  <2>2. files.system \in Seq(Line) /\ files.user \in Seq(Line)
    BY <2>1, ConfFilesAre
  <2>3. default = Named
    BY <2>1, <2>2, NamedIs
  <2>4. LineKeys(files.system \o files.user) = LineKeys(files.system) \o LineKeys(files.user)
    BY <2>2, LineKeysOfTwo
  <2>5. LineKeys(files.system) \in Seq(Keys) /\ LineKeys(files.user) \in Seq(Keys)
    BY <2>2, LineKeysAre
  <2>6. session.before \o (LineKeys(files.system) \o LineKeys(files.user))
          = (session.before \o LineKeys(files.system)) \o LineKeys(files.user)
    <3>1. PICK s \in Seq(Keys), t \in Seq(Keys), u \in Seq(Keys) :
            s = session.before /\ t = LineKeys(files.system) /\ u = LineKeys(files.user)
      BY <2>1, <2>5
    <3>2. (s \o t) \o u = s \o (t \o u)
      BY ConcatAssociative
    <3>3. QED
      BY <3>1, <3>2
  <2>7. QED
    BY <2>1, <2>3, <2>4, <2>6
<1>2. QED
  BY <1>1, ConfInductive, PTL
-----------------------------------------------------------------------------
(* The answers of ao_default_driver_id. *)

\* The first of some positions in the list, as an id, is one of the list's.
LEMMA FirstIs ==
  ASSUME list \in Seq(Entries), NEW at \in SUBSET (DOMAIN list), at # {}
  PROVE  \E k \in at : /\ \A j \in at : k <= j
                       /\ (CHOOSE i \in at : \A j \in at : i <= j) = k
                       /\ k - 1 \in 0 .. Len(list) - 1 /\ (k - 1) + 1 = k
<1>1. Len(list) \in Nat /\ DOMAIN list = 1 .. Len(list)
  BY LenProperties
<1>2. at \in SUBSET Nat
  BY <1>1
<1>3. \E k \in at : \A j \in at : k <= j
  BY <1>2, Least
<1>4. PICK k \in at : \A j \in at : k <= j
  BY <1>3
<1>5. \A i \in at : (\A j \in at : i <= j) => i = k
  BY <1>2, <1>4
<1>6. (CHOOSE i \in at : \A j \in at : i <= j) = k
  BY <1>4, <1>5
<1>7. k - 1 \in 0 .. Len(list) - 1 /\ (k - 1) + 1 = k
  BY <1>1
<1>8. QED
  BY <1>4, <1>6, <1>7

\* A name that is found stands at its id.
LEMMA DriverIdIs ==
  ASSUME list \in Seq(Entries), NEW name
  PROVE  \/ /\ DriverId(name) = -1
            /\ \A i \in DOMAIN list : list[i].driver # name
         \/ /\ DriverId(name) \in 0 .. Len(list) - 1
            /\ DriverId(name) + 1 \in DOMAIN list /\ list[DriverId(name) + 1].driver = name
<1> DEFINE at == {i \in DOMAIN list : list[i].driver = name}
<1>1. DriverId(name) = IF at = {} THEN -1 ELSE (CHOOSE i \in at : \A j \in at : i <= j) - 1
  BY DEF DriverId
<1>2. CASE at = {}
  BY <1>1, <1>2
<1>3. CASE at # {}
  <2>1. PICK k \in at : /\ (CHOOSE i \in at : \A j \in at : i <= j) = k
                        /\ k - 1 \in 0 .. Len(list) - 1 /\ (k - 1) + 1 = k
    BY <1>3, FirstIs
  <2>2. DriverId(name) = k - 1 /\ k \in DOMAIN list /\ list[k].driver = name
    BY <1>1, <1>3, <2>1
  <2>3. QED
    BY <2>1, <2>2
<1>4. QED
  BY <1>2, <1>3

\* The positions of the drivers that would do.
UsableAt(works) == {i \in DOMAIN list : Usable(list[i].driver, works)}

\* The default is the configured driver, the first usable one, or none.
LEMMA DefaultIdIs ==
  ASSUME list \in Seq(Entries), NEW works
  PROVE  \/ /\ default # NoName /\ DriverId(default) >= 0
            /\ DefaultId(works) = DriverId(default)
         \/ /\ ~(default # NoName /\ DriverId(default) >= 0)
            /\ UsableAt(works) = {} /\ DefaultId(works) = -1
         \/ /\ ~(default # NoName /\ DriverId(default) >= 0)
            /\ \E k \in UsableAt(works) :
                 /\ \A j \in UsableAt(works) : k <= j
                 /\ DefaultId(works) = k - 1
                 /\ k - 1 \in 0 .. Len(list) - 1 /\ (k - 1) + 1 = k
<1> DEFINE at == UsableAt(works)
<1>1. DefaultId(works) =
        IF default # NoName /\ DriverId(default) >= 0 THEN DriverId(default)
        ELSE IF at = {} THEN -1 ELSE (CHOOSE i \in at : \A j \in at : i <= j) - 1
  BY DEF DefaultId, UsableAt
<1>2. at \in SUBSET (DOMAIN list)
  BY DEF UsableAt
<1> HIDE DEF at
<1>3. CASE default # NoName /\ DriverId(default) >= 0
  BY <1>1, <1>3
<1>4. CASE ~(default # NoName /\ DriverId(default) >= 0) /\ at = {}
  BY <1>1, <1>4 DEF at
<1>5. CASE ~(default # NoName /\ DriverId(default) >= 0) /\ at # {}
  <2>1. PICK k \in at : /\ \A j \in at : k <= j
                        /\ (CHOOSE i \in at : \A j \in at : i <= j) = k
                        /\ k - 1 \in 0 .. Len(list) - 1 /\ (k - 1) + 1 = k
    BY <1>2, <1>5, FirstIs
  <2>2. DefaultId(works) = k - 1
    BY <1>1, <1>5, <2>1
  <2>3. QED
    BY <1>5, <2>1, <2>2 DEF at
<1>6. QED
  BY <1>3, <1>4, <1>5

\* An answer is an id of the list, or none.
LEMMA DefaultIdRange ==
  ASSUME list \in Seq(Entries), NEW works
  PROVE  DefaultId(works) \in -1 .. Len(list) - 1
<1>1. Len(list) \in Nat
  BY LenProperties
<1>2. CASE default # NoName /\ DriverId(default) >= 0 /\ DefaultId(works) = DriverId(default)
  <2>1. DriverId(default) = -1 \/ DriverId(default) \in 0 .. Len(list) - 1
    BY DriverIdIs
  <2>2. QED
    BY <1>1, <1>2, <2>1
<1>3. CASE DefaultId(works) = -1
  BY <1>1, <1>3
<1>4. CASE \E k \in UsableAt(works) : DefaultId(works) = k - 1 /\ k - 1 \in 0 .. Len(list) - 1
  BY <1>1, <1>4
<1>5. QED
  BY <1>2, <1>3, <1>4, DefaultIdIs

\* Only ao_default_driver_id answers, and what it answered from stays.
LEMMA AnswerInductive == Spec => []AnswerInv
<1>1. NoAnswer.works = {} /\ NoAnswer.id = -2
  BY DEF NoAnswer
<1>2. Init => AnswerInv
  BY DEF Init, AnswerInv
<1>3. AnswerInv /\ [Next]_vars => AnswerInv'
  <2> SUFFICES ASSUME AnswerInv, [Next]_vars PROVE AnswerInv'
    OBVIOUS
  <2>1. ASSUME NEW works \in SUBSET Drivers, AoDefaultDriverId(works) PROVE AnswerInv'
    <3>1. /\ pc = "idle" /\ UNCHANGED <<pc, list, default>>
          /\ asked'.id = DefaultId(works) /\ asked'.works = works
      BY <2>1 DEF AoDefaultDriverId
    <3>2. DefaultId(works)' = DefaultId(works)
      BY <3>1 DEF DefaultId, DriverId
    <3>3. DefaultId(asked.works)' = DefaultId(works)
      BY <3>1 DEF DefaultId, DriverId
    <3>4. QED
      BY <3>1, <3>3 DEF AnswerInv
  <2>2. CASE UNCHANGED vars
    <3>1. UNCHANGED <<pc, list, default, asked>>
      BY <2>2 DEF vars
    <3>2. DefaultId(asked.works)' = DefaultId(asked.works)
      BY <3>1 DEF DefaultId, DriverId
    <3>3. QED
      BY <3>1, <3>2 DEF AnswerInv
  <2>3. CASE asked' = NoAnswer
    BY <2>3 DEF AnswerInv
  <2>4. CASE ReadConfigFiles \/ LoadStaticDrivers \/ PluginsLoaded \/ MakeInfoTable \/ MakeEmptyTable
    <3>1. pc # "idle" /\ asked' = asked
      BY <2>4 DEF ReadConfigFiles, ReadFile, LoadStaticDrivers, PluginsLoaded, MakeInfoTable,
                  MakeEmptyTable
    <3>2. QED
      BY <2>3, <3>1 DEF AnswerInv
  <2>5. ASSUME NEW f \in Files, LoadPlugin(f) PROVE AnswerInv'
    <3>1. pc # "idle" /\ asked' = asked
      BY <2>5 DEF LoadPlugin
    <3>2. QED
      BY <2>3, <3>1 DEF AnswerInv
  <2>6. CASE EditConfig \/ AoInitialize \/ AoShutdown
    BY <2>3, <2>6 DEF EditConfig, AoInitialize, AoShutdown
  <2>7. ASSUME NEW key \in Keys, AppendGlobalOption(key) PROVE AnswerInv'
    BY <2>3, <2>7 DEF AppendGlobalOption
  <2>8. QED
    BY <2>1, <2>2, <2>4, <2>5, <2>6, <2>7 DEF Next
<1>4. QED
  BY <1>2, <1>3, PTL DEF Spec

\* What is counted is sorted, and stays so until the list is made anew.
LEMMA TableInductive == Spec => []TableInv
<1>1. Init => TableInv
  BY DEF Init, TableInv
<1>2. ListInv /\ ListInv' /\ TableInv /\ [Next]_vars => TableInv'
  <2> SUFFICES ASSUME ListInv, ListInv', TableInv, [Next]_vars PROVE TableInv'
    OBVIOUS
  <2>1. CASE UNCHANGED <<pc, list, table, count>>
    BY <2>1 DEF TableInv, Sorted
  <2>2. CASE pc' # "idle" /\ UNCHANGED <<table, count>>
    BY <2>2 DEF TableInv
  <2>3. CASE AoInitialize
    BY <2>2, <2>3 DEF AoInitialize
  <2>4. CASE ReadConfigFiles
    BY <2>2, <2>4 DEF ReadConfigFiles, ReadFile, AfterConfig
  <2>5. CASE LoadStaticDrivers \/ PluginsLoaded
    BY <2>2, <2>5 DEF LoadStaticDrivers, PluginsLoaded
  <2>6. ASSUME NEW f \in Files, LoadPlugin(f) PROVE TableInv'
    BY <2>2, <2>6 DEF LoadPlugin
  <2>7. CASE MakeEmptyTable
    BY <2>7 DEF MakeEmptyTable, TableInv
  <2>8. CASE AoShutdown
    <3>1. list' = <<>> /\ table' = NoTable /\ count' = count
      BY <2>8 DEF AoShutdown, ForgetList
    <3>2. DOMAIN list' = {}
      BY <3>1
    <3>3. QED
      BY <3>1, <3>2 DEF TableInv, Sorted
  <2>9. CASE MakeInfoTable
    <3>1. CASE table' = NoTable /\ count' = 0
      BY <3>1 DEF TableInv
    <3>2. ASSUME NEW s \in Sortings, list' = s, count' = Len(list),
                 table' \in {NoTable, [i \in DOMAIN list |-> s[i].driver]}
          PROVE  TableInv'
      <4>1. s \in Seq(Entries) /\ Len(s) = Len(list) /\ DOMAIN s = DOMAIN list
        BY SortingsPermute
      <4>2. PICK n \in Nat : n = Len(list) /\ DOMAIN list = 1 .. n
        BY ListShape
      <4>3. \A i \in 1 .. n : s[i] \in Entries /\ s[i].driver \in Drivers
        <5> SUFFICES ASSUME NEW i \in 1 .. n PROVE s[i] \in Entries
          BY DEF Entries
        <5>1. i \in 1 .. Len(s)
          BY <4>1, <4>2
        <5>2. QED
          BY <4>1, <5>1, ElementOfSeq
      <4>4. [i \in 1 .. n |-> s[i].driver] \in Seq(Drivers)
        BY <4>3, IsASeq
      <4>5. \A i, j \in DOMAIN list : i < j => ~ComesFirst(s[j].driver, s[i].driver)
        BY DEF Sortings
      <4>6. Sorted'
        BY <3>2, <4>1, <4>5 DEF Sorted, ComesFirst
      <4>7. QED
        BY <3>2, <4>2, <4>4, <4>6 DEF TableInv
    <3>3. QED
      BY <2>9, <3>1, <3>2 DEF MakeInfoTable, Relinked
  <2>10. CASE EditConfig
    BY <2>1, <2>10 DEF EditConfig
  <2>11. ASSUME NEW key \in Keys, AppendGlobalOption(key) PROVE TableInv'
    BY <2>1, <2>11 DEF AppendGlobalOption
  <2>12. ASSUME NEW works \in SUBSET Drivers, AoDefaultDriverId(works) PROVE TableInv'
    BY <2>1, <2>12 DEF AoDefaultDriverId
  <2>13. CASE UNCHANGED vars
    BY <2>1, <2>13 DEF vars
  <2>14. QED
    BY <2>3, <2>4, <2>5, <2>6, <2>7, <2>8, <2>9, <2>10, <2>11, <2>12, <2>13 DEF Next
<1>3. QED
  BY <1>1, <1>2, ListInductive, PTL DEF Spec

\* The list, the table and the counters keep their types, an answer is an id of
\* the list as it is, and no default is kept that no line of a file names.
THEOREM TypeCorrect == Spec => []TypeOK
<1>1. ListInv /\ ConfInv /\ AnswerInv /\ TableInv => TypeOK
  <2> SUFFICES ASSUME ListInv, ConfInv, AnswerInv, TableInv PROVE TypeOK
    OBVIOUS
  <2>1. /\ list \in Seq([driver : Drivers, file : Files \cup {NoFile}])
        /\ loaded \in [Files -> Nat] /\ unread \subseteq Files
    BY DEF ListInv, Entries
  <2>2. asked.id \in -2 .. Len(list) - 1 /\ asked.works \subseteq Drivers
    <3>1. Len(list) \in Nat
      BY ListShape
    <3>2. CASE asked = NoAnswer
      <4>1. asked.id = -2 /\ asked.works = {}
        BY <3>2 DEF NoAnswer
      <4>2. QED
        BY <3>1, <4>1
    <3>3. CASE asked # NoAnswer
      <4>1. asked.works \subseteq Drivers /\ asked.id = DefaultId(asked.works)
        BY <3>3 DEF AnswerInv
      <4>2. DefaultId(asked.works) \in -1 .. Len(list) - 1
        BY DefaultIdRange DEF ListInv
      <4>3. QED
        BY <3>1, <4>1, <4>2
    <3>4. QED
      BY <3>2, <3>3
  <2>3. QED
    BY <2>1, <2>2 DEF TypeOK, ConfInv, TableInv, Stages
<1>2. QED
  BY <1>1, ListInductive, ConfInductive, AnswerInductive, TableInductive, PTL
-----------------------------------------------------------------------------
(* The best driver. *)

\* memcmp orders two priorities as the numbers they are when their bytes lie in
\* memory highest first, or only the first byte is used: the drivers' priorities
\* are 0 to 50 (ao_alsa.c:83, ao_pulse.c:67 and so on).
BytesOrder == LittleEndian => \A d \in Drivers : Priority[d] < 256

\* The two bytes of a number.
LEMMA TwoBytes ==
  ASSUME NEW p \in Nat
  PROVE  \E high \in Nat, low \in 0 .. 255 :
           p \div 256 = high /\ p % 256 = low /\ p = 256 * high + low
<1>1. p \div 256 \in Nat
  OBVIOUS
<1>2. p % 256 \in 0 .. 255
  OBVIOUS
<1>3. p = 256 * (p \div 256) + (p % 256)
  OBVIOUS
<1>4. QED
  BY <1>1, <1>2, <1>3

\* A priority is a number.
LEMMA PriorityIs == ASSUME NEW d \in Drivers PROVE Priority[d] \in Nat
<1>1. \A p \in 0 .. 256 * 256 - 1 : p \in Nat
  OBVIOUS
<1>2. Priority[d] \in 0 .. 256 * 256 - 1
  BY TableAssumption
<1>3. QED
  BY <1>1, <1>2, Zenon

\* What qsort leaves in front is of no lower priority.
LEMMA NoLower ==
  ASSUME BytesOrder, NEW d \in Drivers, NEW e \in Drivers, ~ComesFirst(d, e)
  PROVE  Priority[d] <= Priority[e]
<1>1. PICK p \in Nat, q \in Nat : p = Priority[d] /\ q = Priority[e]
  BY PriorityIs
<1>2. PICK ph \in Nat, pl \in 0 .. 255 : p \div 256 = ph /\ p % 256 = pl /\ p = 256 * ph + pl
  BY TwoBytes
<1>3. PICK qh \in Nat, ql \in 0 .. 255 : q \div 256 = qh /\ q % 256 = ql /\ q = 256 * qh + ql
  BY TwoBytes
<1>4. CASE LittleEndian
  <2>1. p < 256 /\ q < 256
    BY <1>1, <1>4 DEF BytesOrder
  <2>2. ph = 0 /\ qh = 0
    BY <1>2, <1>3, <2>1
  <2>3. Bytes(p) = <<pl, ph>> /\ Bytes(q) = <<ql, qh>>
    BY <1>2, <1>3, <1>4 DEF Bytes
  <2>4. ~(pl > ql)
    BY <1>1, <2>3 DEF ComesFirst
  <2>5. p <= q
    BY <1>2, <1>3, <2>2, <2>4
  <2>6. QED
    BY <1>1, <2>5
<1>5. CASE ~LittleEndian
  <2>1. Bytes(p) = <<ph, pl>> /\ Bytes(q) = <<qh, ql>>
    BY <1>2, <1>3, <1>5 DEF Bytes
  <2>2. ~(ph > qh \/ (ph = qh /\ pl > ql))
    BY <1>1, <2>1 DEF ComesFirst
  <2>3. p <= q
    BY <1>2, <1>3, <2>2
  <2>4. QED
    BY <1>1, <2>3
<1>6. QED
  BY <1>4, <1>5

\* The default driver is the one the files name, if it is in the list, and
\* otherwise a driver that works and has the highest priority of those.
THEOREM TheBestIsDefault == ASSUME BytesOrder PROVE Spec => []DefaultIsBest
<1>1. ListInv /\ ConfigurationIsFresh /\ AnswerInv /\ TableInv => DefaultIsBest
  <2> SUFFICES ASSUME ListInv, ConfigurationIsFresh, AnswerInv, TableInv,
                      Ready, session.inits = 1, asked # NoAnswer, count > 0
               PROVE  LET usable == {d \in {list[i].driver : i \in DOMAIN list} :
                                       Usable(d, asked.works)}
                          answer == DriverInfo(asked.id)
                      IN IF DriverId(Named) >= 0 THEN answer = Named
                         ELSE IF asked.id = -1 THEN usable = {}
                         ELSE answer \in usable
                              /\ \A d \in usable : Priority[d] <= Priority[answer]
    BY DEF DefaultIsBest
  <2> DEFINE usable == {d \in {list[i].driver : i \in DOMAIN list} : Usable(d, asked.works)}
             answer == DriverInfo(asked.id)
             at     == UsableAt(asked.works)
  <2>1. default = Named /\ asked.id = DefaultId(asked.works) /\ Sorted
    BY DEF ConfigurationIsFresh, AnswerInv, TableInv, Ready
  <2>2. list \in Seq(Entries) /\ Len(list) \in Nat /\ DOMAIN list = 1 .. Len(list)
        /\ \A i \in DOMAIN list : list[i].driver \in Drivers
    BY ListShape DEF ListInv, Entries
  <2>3. \A d : d \in usable <=> \E i \in at : d = list[i].driver
    BY DEF UsableAt
  <2>4. ASSUME NEW k \in DOMAIN list, asked.id = k - 1 PROVE answer = list[k].driver
    <3>1. k - 1 \in 0 .. Len(list) - 1 /\ (k - 1) + 1 = k
      BY <2>2
    <3>2. QED
      BY <2>4, <3>1 DEF DriverInfo, IsDriver
  <2>5. ASSUME DriverId(Named) >= 0 PROVE answer = Named
    <3>1. DriverId(Named) + 1 \in DOMAIN list /\ list[DriverId(Named) + 1].driver = Named
      BY <2>2, <2>5, DriverIdIs
    <3>2. Named # NoName
      BY <2>2, <3>1, TableAssumption
    <3>3. asked.id = DriverId(Named)
      BY <2>1, <2>2, <2>5, <3>2, DefaultIdIs
    <3>4. PICK k \in DOMAIN list : k = DriverId(Named) + 1 /\ list[k].driver = Named
      BY <3>1
    <3>5. DriverId(Named) \in Int /\ asked.id = k - 1
      BY <2>2, <3>3, <3>4, DriverIdIs
    <3>6. QED
      BY <2>4, <3>4, <3>5
  <2>6. ASSUME ~(DriverId(Named) >= 0)
        PROVE  IF asked.id = -1 THEN usable = {}
               ELSE answer \in usable /\ \A d \in usable : Priority[d] <= Priority[answer]
    <3>1. CASE at = {} /\ asked.id = -1
      BY <2>3, <3>1
    <3>2. ASSUME NEW k \in at, \A j \in at : k <= j, asked.id = k - 1
          PROVE  /\ asked.id # -1 /\ answer \in usable
                 /\ \A d \in usable : Priority[d] <= Priority[answer]
      <4>1. k \in DOMAIN list /\ answer = list[k].driver
        BY <2>4, <3>2 DEF UsableAt
      <4>2. ASSUME NEW j \in at PROVE Priority[list[j].driver] <= Priority[list[k].driver]
        <5>1. j \in DOMAIN list /\ k <= j
          BY <3>2 DEF UsableAt
        <5>2. CASE j = k
          <6>1. Priority[list[k].driver] \in Nat
            BY <2>2, <4>1, PriorityIs
          <6>2. QED
            BY <5>2, <6>1
        <5>3. CASE j # k
          <6>1. k < j
            BY <2>2, <4>1, <5>1, <5>3
          <6>2. ~ComesFirst(list[j].driver, list[k].driver)
            BY <2>1, <4>1, <5>1, <6>1 DEF Sorted
          <6>3. QED
            BY <2>2, <4>1, <5>1, <6>2, NoLower
        <5>4. QED
          BY <5>2, <5>3
      <4>3. asked.id # -1
        BY <2>2, <3>2, <4>1
      <4>4. QED
        BY <2>3, <4>1, <4>2, <4>3
    <3>3. QED
      BY <2>1, <2>2, <2>6, <3>1, <3>2, DefaultIdIs
  <2>7. QED
    BY <2>5, <2>6
<1>2. QED
  BY <1>1, ListInductive, SessionsAreFresh, AnswerInductive, TableInductive, PTL
-----------------------------------------------------------------------------
(* The route of the samples. *)

\* Output matrices that the masks can hold and that name no location twice.
WellFormed == \A p \in Premaps : Len(p) <= WordBits /\ NamesOnce(p)

\* No product of a buffer's bytes and the channels of the stream overflows.
FitsWord ==
  \A frames \in Buffers, channels \in ChannelCounts, width \in Widths, out \in Nat :
    out <= channels \/ (\E p \in Premaps : out <= Len(p)) =>
      frames * channels * width * out < Wrap

\* Whether _open_device has two matrices to reconcile.
BothKnown == smatrix # NoMatrix /\ setup.premap # NoMatrix

Route == Reconciled(setup.order, smatrix, setup.premap)

\* The matrix of the stream, when the input has one.
Source ==
  IF Dropped THEN <<"L", "R">>
  ELSE IF setup.premap # NoMatrix THEN Route.inter
  ELSE IF setup.kind = "copy" THEN smatrix
  ELSE IF setup.kind = "roar" /\ setup.channels \in DOMAIN RoarMatrices
  THEN RoarMatrices[setup.channels]
  ELSE <<"L", "R">>

\* The matrix the core permutes by.
Followed == IF route.inter = NoMatrix THEN <<"L", "R">> ELSE route.inter

MatrixInv ==
  /\ setup \in Setups /\ smatrix \in Seq(Mnemonics) /\ Len(smatrix) <= setup.channels
  /\ setup.channels = 1 => smatrix # <<"M">>

\* How far the route is at each stage.
RouteInv ==
  /\ stage \in {"reconcile", "open", "permute", "swap", "ready", "refused", "nomem"}
  /\ route \in [out : Nat, map : {NoMap} \cup [0 .. setup.channels - 1 -> Int],
                inter : Seq(Mnemonics),
                permute : {NoPermute} \cup [0 .. route.out - 1 -> -1 .. setup.channels - 1]]
  /\ BothKnown /\ stage \notin {"reconcile", "refused"} =>
       /\ Route.mask # {} /\ route.out = Route.out
       /\ route.map = InputMap(setup.channels, smatrix, setup.premap)
  /\ ~BothKnown \/ stage \in {"reconcile", "refused"} =>
       route.out = setup.channels /\ route.map = NoMap
  /\ smatrix = NoMatrix \/ stage \in {"reconcile", "open", "permute", "refused"} =>
       route.permute = NoPermute
  /\ BothKnown /\ stage = "open" => route.inter = Route.inter
  /\ setup.premap = NoMatrix /\ stage \in {"reconcile", "open"} => route.inter = NoMatrix
  /\ smatrix # NoMatrix /\ stage = "permute" => Followed = Source
  /\ smatrix # NoMatrix /\ stage \in {"swap", "ready", "nomem"} =>
       \A c \in 0 .. route.out - 1 :
         Feeding(c) = InterPermute(route.out, Source, setup.channels, smatrix)[c]

Samples == Int \X Int \X Int \X Int

\* There is a swap buffer if one is needed.
SwapInv ==
  /\ swap \in Seq(Samples) /\ handed \in Seq(Samples)
  /\ played \in [call : Nat, frames : Nat]
  /\ stage # "ready" => played.frames = 0 /\ handed = <<>> /\ swap = <<>>
  /\ stage = "ready" /\ swap = <<>> => ~NeedsSwap
  /\ swap # <<>> => Len(handed) <= Len(swap)
-----------------------------------------------------------------------------
(* Matrices. *)

\* The entries kept: one for each position.
LEMMA KeptIs ==
  ASSUME NEW m \in Seq(Mnemonics), NEW S \in SUBSET (1 .. Len(m))
  PROVE  /\ Len(m) \in Nat /\ IsFiniteSet(S) /\ Cardinality(S) \in Nat
         /\ Kept(m, S) \in Seq(Mnemonics) /\ Len(Kept(m, S)) = Cardinality(S)
         /\ \A i \in S : /\ Cardinality(Below(S, i)) \in 1 .. Cardinality(S)
                         /\ Kept(m, S)[Cardinality(Below(S, i))] = m[i]
<1>1. PICK l \in Nat : l = Len(m)
  BY LenProperties
<1>2. S \in SUBSET (1 .. l)
  BY <1>1
<1>3. IsFiniteSet(S) /\ Cardinality(S) \in Nat
  BY <1>1, <1>2, Ranks
<1>4. ASSUME NEW n \in 1 .. Cardinality(S) PROVE Nth(S, n) \in S
  <2>1. PICK i \in S : Cardinality(Below(S, i)) = n
    BY <1>1, <1>2, NthExists
  <2>2. Nth(S, n) = i
    BY <1>1, <1>2, <2>1, NthIs
  <2>3. QED
    BY <2>2
<1>5. \A i \in S : m[i] \in Mnemonics
  BY <1>1, ElementOfSeq
<1>6. Kept(m, S) \in Seq(Mnemonics) /\ Len(Kept(m, S)) = Cardinality(S)
  <2>1. PICK n \in Nat : n = Cardinality(S)
    BY <1>3
  <2>2. \A k \in 1 .. n : m[Nth(S, k)] \in Mnemonics
    BY <1>4, <1>5, <2>1
  <2>3. QED
    BY <2>1, <2>2 DEF Kept
<1>7. ASSUME NEW i \in S
      PROVE  /\ Cardinality(Below(S, i)) \in 1 .. Cardinality(S)
             /\ Kept(m, S)[Cardinality(Below(S, i))] = m[i]
  <2>1. i \in Nat /\ i <= i
    BY <1>1, <1>2
  <2>2. IsFiniteSet(Below(S, i)) /\ Cardinality(Below(S, i)) \in Nat
        /\ Cardinality(Below(S, i)) <= Cardinality(S)
    BY <1>1, <1>2, <2>1, Ranks
  <2>3. i \in Below(S, i)
    BY <2>1 DEF Below
  <2>4. Cardinality(Below(S, i)) # 0
    BY <2>2, <2>3, FS_EmptySet
  <2>5. Cardinality(Below(S, i)) \in 1 .. Cardinality(S)
    BY <1>3, <2>2, <2>4
  <2>6. Nth(S, Cardinality(Below(S, i))) = i
    BY <1>1, <1>2, NthIs
  <2>7. QED
    BY <2>5, <2>6 DEF Kept
<1>8. QED
  BY <1>1, <1>3, <1>6, <1>7

\* The first position of a name.
LEMMA FirstAtIs ==
  ASSUME NEW m \in Seq(Mnemonics), NEW name
  PROVE  /\ FirstAt(name, m) \in -1 .. Len(m) - 1
         /\ FirstAt(name, m) = -1 => \A i \in 1 .. Len(m) : m[i] # name
         /\ FirstAt(name, m) # -1 =>
              /\ m[FirstAt(name, m) + 1] = name
              /\ \A i \in 0 .. Len(m) - 1 : m[i + 1] = name => FirstAt(name, m) <= i
<1>1. PICK l \in Nat : l = Len(m)
  BY LenProperties
<1> DEFINE at == {i \in 0 .. l - 1 : m[i + 1] = name}
<1>2. CASE at = {}
  <2>1. FirstAt(name, m) = -1
    BY <1>1, <1>2 DEF FirstAt
  <2>2. ASSUME NEW i \in 1 .. l PROVE m[i] # name
    <3>1. i - 1 \in 0 .. l - 1 /\ (i - 1) + 1 = i
      BY <1>1
    <3>2. ~(i - 1 \in at)
      BY <1>2
    <3>3. QED
      BY <3>1, <3>2
  <2>3. QED
    BY <1>1, <2>1, <2>2
<1>3. CASE at # {}
  <2>1. at \in SUBSET Nat
    BY <1>1
  <2>2. \E i \in at : \A j \in at : i <= j
    BY <1>3, <2>1, Least
  <2>3. FirstAt(name, m) \in at /\ \A j \in at : FirstAt(name, m) <= j
    BY <1>1, <1>3, <2>2 DEF FirstAt
  <2>4. QED
    BY <1>1, <2>3
<1>4. QED
  BY <1>2, <1>3

\* Where a name is, when it is there once.
LEMMA FirstAtOnly ==
  ASSUME NEW m \in Seq(Mnemonics), NamesOnce(m), NEW i \in 1 .. Len(m), m[i] # "X"
  PROVE  FirstAt(m[i], m) = i - 1
<1>1. PICK f : f = FirstAt(m[i], m)
  OBVIOUS
<1>2. PICK l \in Nat : l = Len(m) /\ DOMAIN m = 1 .. l
  BY LenProperties
<1>3. f \in -1 .. l - 1 /\ f # -1 /\ m[f + 1] = m[i]
  BY <1>1, <1>2, FirstAtIs
<1>4. f + 1 \in DOMAIN m /\ i \in DOMAIN m /\ i \in 1 .. l
  BY <1>2, <1>3
<1>5. f + 1 = i
  BY <1>3, <1>4 DEF NamesOnce
<1>6. QED
  BY <1>1, <1>3, <1>4, <1>5

\* Sanitizing leaves known names, at most one for each channel.
LEMMA FormatMatrixIs ==
  ASSUME NEW channels \in Nat \ {0}, NEW tokens \in Seq(STRING)
  PROVE  /\ FormatMatrix(channels, tokens) \in Seq(Mnemonics)
         /\ Len(FormatMatrix(channels, tokens)) <= channels
         /\ channels = 1 => FormatMatrix(channels, tokens) # <<"M">>
<1>1. PICK l \in Nat : l = Len(tokens)
  BY LenProperties
<1>2. PICK n \in 0 .. l : n = (IF channels < l THEN channels ELSE l) /\ n <= channels
  OBVIOUS
<1> DEFINE kept == SubSeq(tokens, 1, n)
<1>3. kept = [i \in 1 .. n |-> tokens[i]] /\ Len(kept) = n
  <2>1. kept \in Seq(STRING) /\ Len(kept) = n
    BY <1>1, <1>2, SubSeqProperties
  <2>2. \A i \in 1 .. n : kept[i] = tokens[i]
    BY <1>1, <1>2, SubSeqProperties
  <2>3. QED
    BY <2>1, <2>2
<1>4. Sanitize(channels, tokens) \in {kept, <<>>}
  BY <1>1, <1>2 DEF Sanitize, NoMatrix
<1>5. Sanitize(channels, tokens) = kept => \A i \in DOMAIN kept : kept[i] \in Mnemonics
  BY <1>1, <1>2, <1>3 DEF Sanitize, NoMatrix
<1>6. <<>> \in Seq(Mnemonics) /\ Len(<<>>) = 0 /\ <<>> # <<"M">>
  OBVIOUS
<1>7. CASE Sanitize(channels, tokens) = kept
  <2>1. \A i \in 1 .. n : tokens[i] \in Mnemonics
    BY <1>2, <1>3, <1>5, <1>7
  <2>2. kept \in Seq(Mnemonics) /\ Len(kept) <= channels
    BY <1>2, <1>3, <2>1
  <2> HIDE DEF kept
  <2>3. FormatMatrix(channels, tokens) = IF channels = 1 /\ kept = <<"M">> THEN <<>> ELSE kept
    BY <1>7 DEF FormatMatrix, NoMatrix
  <2>4. CASE channels = 1 /\ kept = <<"M">>
    <3>1. FormatMatrix(channels, tokens) = <<>>
      BY <2>3, <2>4
    <3>2. QED
      BY <1>6, <3>1
  <2>5. CASE ~(channels = 1 /\ kept = <<"M">>)
    BY <2>2, <2>3, <2>5, Zenon
  <2>6. QED
    BY <2>4, <2>5
<1>8. CASE Sanitize(channels, tokens) = <<>>
  BY <1>6, <1>8 DEF FormatMatrix, NoMatrix
<1>9. QED
  BY <1>4, <1>7, <1>8

\* Where a name is placed: nowhere, or where it stands.
LEMMA LocationIs ==
  ASSUME NEW p \in Seq(Mnemonics), NEW name
  PROVE  /\ Location(name, p) \in -1 .. Len(p) - 1
         /\ Location(name, p) >= 0 <=> Location(name, p) # -1
         /\ Location(name, p) # -1 => name # "X" /\ p[Location(name, p) + 1] = name
         /\ \A l \in 1 .. Len(p) : p[l] = name /\ name # "X" => Location(name, p) # -1
<1>1. PICK n \in Nat : n = Len(p)
  BY LenProperties
<1>2. PICK f : f = FirstAt(name, p)
  OBVIOUS
<1>3. f \in -1 .. n - 1 /\ (f = -1 => \A l \in 1 .. n : p[l] # name) /\ (f # -1 => p[f + 1] = name)
  BY <1>1, <1>2, FirstAtIs
<1>4. Location(name, p) = (IF name = "X" THEN -1 ELSE f)
  BY <1>2 DEF Location
<1>5. CASE name = "X"
  BY <1>1, <1>4, <1>5
<1>6. CASE name # "X"
  BY <1>1, <1>3, <1>4, <1>6
<1>7. QED
  BY <1>5, <1>6

\* And of a name that stands there once, exactly there.
LEMMA LocationOnly ==
  ASSUME NEW p \in Seq(Mnemonics), NamesOnce(p), NEW l \in 1 .. Len(p), p[l] # "X"
  PROVE  Location(p[l], p) = l - 1
BY FirstAtOnly DEF Location

\* Where all locations have a bit of their own, the mask is the set of the
\* locations that an input channel has.
LEMMA MaskIs ==
  ASSUME NEW m \in Seq(Mnemonics), NEW p \in Seq(Mnemonics), Len(p) <= WordBits
  PROVE  /\ \A l \in 0 .. Len(p) - 1 : Bit(l) = l
         /\ ChannelMask(m, p) = {Location(m[i + 1], p) : i \in Mapped(m, p)}
         /\ \A i \in Mapped(m, p) : /\ i + 1 \in 1 .. Len(m) /\ i \in Nat
                                    /\ Location(m[i + 1], p) \in 0 .. Len(p) - 1
         /\ ChannelMask(m, p) \in SUBSET (0 .. Len(p) - 1)
<1>1. PICK n \in Nat : n = Len(p)
  BY LenProperties
<1>2. PICK k \in Nat : k = Len(m)
  BY LenProperties
<1>3. WordBits \in Nat \ {0}
  BY ChannelMapAssumption
<1>4. ASSUME NEW l \in 0 .. n - 1 PROVE Bit(l) = l
  <2>1. l \in Nat /\ l < WordBits
    BY <1>1, <1>3, <1>4
  <2>2. QED
    BY <1>3, <2>1 DEF Bit
<1>5. ASSUME NEW i \in Mapped(m, p)
      PROVE  i + 1 \in 1 .. k /\ i \in Nat /\ Location(m[i + 1], p) \in 0 .. n - 1
  <2>1. i \in 0 .. k - 1 /\ Location(m[i + 1], p) >= 0
    BY <1>2 DEF Mapped
  <2>2. Location(m[i + 1], p) \in -1 .. n - 1
    BY <1>1, LocationIs
  <2>3. QED
    BY <2>1, <2>2
<1>6. ChannelMask(m, p) = {Location(m[i + 1], p) : i \in Mapped(m, p)}
  <2>1. \A i \in Mapped(m, p) : Bit(Location(m[i + 1], p)) = Location(m[i + 1], p)
    BY <1>4, <1>5
  <2>2. QED
    BY <2>1 DEF ChannelMask
<1>7. QED
  BY <1>1, <1>2, <1>4, <1>5, <1>6

\* The positions of the output matrix whose location is in the mask are those
\* whose name the input has.
LEMMA SlotsOfMask ==
  ASSUME NEW m \in Seq(Mnemonics), NEW p \in Seq(Mnemonics), Len(p) <= WordBits, NamesOnce(p)
  PROVE  {l \in 1 .. Len(p) : Bit(l - 1) \in ChannelMask(m, p)}
           = {l \in DOMAIN p : p[l] \in {m[i] : i \in DOMAIN m} \ {"X"}}
<1>1. PICK n \in Nat : n = Len(p) /\ DOMAIN p = 1 .. n
  BY LenProperties
<1>2. PICK k \in Nat : k = Len(m) /\ DOMAIN m = 1 .. k
  BY LenProperties
<1>3. ASSUME NEW l \in 1 .. n
      PROVE  Bit(l - 1) \in ChannelMask(m, p) <=> p[l] \in {m[i] : i \in 1 .. k} \ {"X"}
  <2>1. Bit(l - 1) = l - 1
    <3>1. l - 1 \in 0 .. n - 1
      OBVIOUS
    <3>2. QED
      BY <1>1, <3>1, MaskIs
  <2>2. ASSUME NEW i \in Mapped(m, p), Location(m[i + 1], p) = l - 1
        PROVE  p[l] \in {m[j] : j \in 1 .. k} \ {"X"}
    <3>1. i + 1 \in 1 .. k
      BY <1>2, MaskIs
    <3>2. Location(m[i + 1], p) # -1 /\ (l - 1) + 1 = l
      BY <2>2
    <3>3. m[i + 1] # "X" /\ p[l] = m[i + 1]
      BY <2>2, <3>2, LocationIs
    <3>4. QED
      BY <3>1, <3>3
  <2>3. ASSUME NEW j \in 1 .. k, p[l] = m[j], m[j] # "X"
        PROVE  \E i \in Mapped(m, p) : Location(m[i + 1], p) = l - 1
    <3>1. Location(m[j], p) = l - 1
      BY <1>1, <2>3, LocationOnly
    <3>2. j - 1 \in 0 .. k - 1 /\ (j - 1) + 1 = j /\ l - 1 >= 0
      OBVIOUS
    <3>3. j - 1 \in Mapped(m, p)
      BY <1>2, <3>1, <3>2 DEF Mapped
    <3>4. QED
      BY <3>1, <3>2, <3>3
  <2>4. ChannelMask(m, p) = {Location(m[i + 1], p) : i \in Mapped(m, p)}
    BY MaskIs
  <2>5. QED
    BY <2>1, <2>2, <2>3, <2>4
<1>4. QED
  BY <1>1, <1>2, <1>3

\* The tokens that the output matrix has are those that both have.
LEMMA SharedTokens ==
  ASSUME NEW m \in Seq(Mnemonics), NEW p \in Seq(Mnemonics)
  PROVE  {i \in 1 .. Len(m) : Location(m[i], p) >= 0}
           = {i \in DOMAIN m : m[i] \in ({m[j] : j \in DOMAIN m} \ {"X"}) \cap {p[l] : l \in DOMAIN p}}
<1>1. PICK n \in Nat : n = Len(p) /\ DOMAIN p = 1 .. n
  BY LenProperties
<1>2. PICK k \in Nat : k = Len(m) /\ DOMAIN m = 1 .. k
  BY LenProperties
<1>3. ASSUME NEW i \in 1 .. k
      PROVE  Location(m[i], p) >= 0 <=> m[i] # "X" /\ (\E l \in 1 .. n : p[l] = m[i])
  <2>1. PICK x \in -1 .. n - 1 : x = Location(m[i], p)
    BY <1>1, LocationIs
  <2>2. CASE x = -1
    <3>1. \A l \in 1 .. n : p[l] = m[i] /\ m[i] # "X" => x # -1
      BY <1>1, <2>1, LocationIs
    <3>2. QED
      BY <2>1, <2>2, <3>1
  <2>3. CASE x # -1
    <3>1. m[i] # "X" /\ p[x + 1] = m[i]
      BY <2>1, <2>3, LocationIs
    <3>2. x + 1 \in 1 .. n /\ x >= 0
      BY <2>3
    <3>3. QED
      BY <2>1, <3>1, <3>2
  <2>4. QED
    BY <2>2, <2>3
<1>4. QED
  BY <1>1, <1>2, <1>3
-----------------------------------------------------------------------------
(* The stream that _open_device works out. *)

\* What a known pair of matrices is.
LEMMA Known ==
  ASSUME WellFormed, MatrixInv, setup.premap # NoMatrix
  PROVE  /\ setup.premap \in Seq(Mnemonics) /\ Len(setup.premap) <= WordBits
         /\ NamesOnce(setup.premap)
         /\ setup.order \in {"FIXED", "COLLAPSIBLE", "PERMUTABLE"}
         /\ setup.channels \in Nat \ {0} /\ smatrix \in Seq(Mnemonics)
<1>1. /\ setup.premap \in Premaps /\ setup.channels \in ChannelCounts
      /\ setup.order \in {"FIXED", "COLLAPSIBLE", "PERMUTABLE"}
  BY DEF MatrixInv, Setups
<1>2. setup.premap \in Seq(Mnemonics) /\ setup.channels \in Nat \ {0}
      /\ setup.order \in {"FIXED", "COLLAPSIBLE", "PERMUTABLE"}
  BY <1>1, RouteAssumption
<1>3. Len(setup.premap) <= WordBits /\ NamesOnce(setup.premap)
  BY <1>1 DEF WellFormed
<1>4. QED
  BY <1>2, <1>3 DEF MatrixInv

\* The matrix sent to the driver is the one that its documentation promises.
LEMMA StreamNamed ==
  ASSUME WellFormed, MatrixInv
  PROVE  StreamNames = Source
<1>1. CASE Dropped
  BY <1>1 DEF StreamNames, Source
<1>2. CASE ~Dropped /\ setup.premap = NoMatrix
  <2>1. CASE setup.kind = "copy"
    BY <1>2, <2>1 DEF StreamNames, Source
  <2>2. CASE setup.kind = "roar" /\ setup.channels \in DOMAIN RoarMatrices
    BY <1>2, <2>2 DEF StreamNames, Source
  <2>3. CASE setup.kind # "copy" /\ ~(setup.kind = "roar" /\ setup.channels \in DOMAIN RoarMatrices)
    BY <1>2, <2>3 DEF StreamNames, Source
  <2>4. QED
    BY <2>1, <2>2, <2>3
<1>3. CASE ~Dropped /\ setup.premap # NoMatrix
  <2>1. CASE setup.order = "FIXED"
    BY <1>3, <2>1 DEF StreamNames, Source, Route, Reconciled
  <2>2. CASE setup.order = "COLLAPSIBLE"
    <3>1. {l \in 1 .. Len(setup.premap) : Bit(l - 1) \in ChannelMask(smatrix, setup.premap)}
            = {i \in DOMAIN setup.premap :
                 setup.premap[i] \in {smatrix[j] : j \in DOMAIN smatrix} \ {"X"}}
      BY <1>3, Known, SlotsOfMask
    <3>2. Source = Kept(setup.premap, {l \in 1 .. Len(setup.premap) :
                                         Bit(l - 1) \in ChannelMask(smatrix, setup.premap)})
      BY <1>3, <2>2 DEF Source, Route, Reconciled, MaskToMatrix
    <3>3. StreamNames = Kept(setup.premap, {i \in DOMAIN setup.premap :
                 setup.premap[i] \in {smatrix[j] : j \in DOMAIN smatrix} \ {"X"}})
      BY <1>3, <2>2 DEF StreamNames
    <3>4. QED
      BY <3>1, <3>2, <3>3
  <2>3. CASE setup.order = "PERMUTABLE"
    <3>1. {i \in 1 .. Len(smatrix) : Location(smatrix[i], setup.premap) >= 0}
            = {i \in DOMAIN smatrix :
                 smatrix[i] \in ({smatrix[j] : j \in DOMAIN smatrix} \ {"X"})
                                 \cap {setup.premap[j] : j \in DOMAIN setup.premap}}
      BY <1>3, Known, SharedTokens
    <3>2. Source = Kept(smatrix, {i \in 1 .. Len(smatrix) : Location(smatrix[i], setup.premap) >= 0})
      BY <1>3, <2>3 DEF Source, Route, Reconciled, Intersect
    <3>3. StreamNames = Kept(smatrix, {i \in DOMAIN smatrix :
                 smatrix[i] \in ({smatrix[j] : j \in DOMAIN smatrix} \ {"X"})
                                 \cap {setup.premap[j] : j \in DOMAIN setup.premap}})
      BY <1>3, <2>3 DEF StreamNames
    <3>4. QED
      BY <3>1, <3>2, <3>3
  <2>4. QED
    BY <1>3, <2>1, <2>2, <2>3, Known
<1>4. QED
  BY <1>1, <1>2, <1>3

\* How many locations a mask has: at most those of the output matrix, no more
\* than tokens that have a place, as many as places that are kept.
LEMMA MaskCount ==
  ASSUME NEW m \in Seq(Mnemonics), NEW p \in Seq(Mnemonics), Len(p) <= WordBits
  PROVE  /\ IsFiniteSet(ChannelMask(m, p)) /\ Cardinality(ChannelMask(m, p)) \in Nat
         /\ Cardinality(ChannelMask(m, p)) <= Len(p)
         /\ Cardinality({l \in 1 .. Len(p) : Bit(l - 1) \in ChannelMask(m, p)})
              = Cardinality(ChannelMask(m, p))
<1> DEFINE mask == ChannelMask(m, p)
<1>1. PICK n \in Nat : n = Len(p)
  BY LenProperties
<1>2. mask \in SUBSET (0 .. n - 1) /\ \A l \in 0 .. n - 1 : Bit(l) = l
  BY <1>1, MaskIs
<1>3. IsFiniteSet(0 .. n - 1) /\ Cardinality(0 .. n - 1) = n
  BY FS_Interval
<1>4. IsFiniteSet(mask) /\ Cardinality(mask) <= n
  BY <1>2, <1>3, FS_Subset
<1>5. Cardinality(mask) \in Nat
  BY <1>4, FS_CardinalityType
<1> DEFINE W == {l \in 1 .. n : Bit(l - 1) \in mask}
           f == [l \in W |-> l - 1]
<1> HIDE DEF mask
<1>6. \A l \in W : l \in 1 .. n /\ l - 1 \in mask
  <2>1. \A l \in 1 .. n : l - 1 \in 0 .. n - 1
    OBVIOUS
  <2>2. QED
    BY <1>2, <2>1
<1>7. \A b \in mask : b + 1 \in W /\ (b + 1) - 1 = b
  BY <1>2
<1> HIDE DEF W
<1>8. f \in Bijection(W, mask)
  <2>1. f \in [W -> mask]
    BY <1>6
  <2>2. \A a, b \in W : f[a] = f[b] => a = b
    BY <1>6
  <2>3. \A b \in mask : \E a \in W : f[a] = b
    BY <1>7
  <2>4. QED
    BY <2>1, <2>2, <2>3 DEF Bijection, Injection, Surjection, IsInjective
<1>9. IsFiniteSet(W)
  <2>1. W \in SUBSET (1 .. n)
    BY DEF W
  <2>2. IsFiniteSet(1 .. n)
    BY FS_Interval
  <2>3. QED
    BY <2>1, <2>2, FS_Subset
<1>10. Cardinality(W) = Cardinality(mask)
  BY <1>8, <1>9, FS_Surjection DEF Bijection
<1>11. QED
  BY <1>1, <1>4, <1>5, <1>10 DEF W, mask

\* The tokens with a place are at least as many as the locations, and no more
\* when no token stands twice.
LEMMA TokenCount ==
  ASSUME NEW m \in Seq(Mnemonics), NEW p \in Seq(Mnemonics), Len(p) <= WordBits
  PROVE  LET U == {i \in 1 .. Len(m) : Location(m[i], p) >= 0}
         IN  /\ IsFiniteSet(U) /\ Cardinality(U) \in Nat
             /\ Cardinality(ChannelMask(m, p)) <= Cardinality(U)
             /\ NamesOnce(m) => Cardinality(ChannelMask(m, p)) = Cardinality(U)
<1> DEFINE mask == ChannelMask(m, p)
           U == {i \in 1 .. Len(m) : Location(m[i], p) >= 0}
           f == [i \in U |-> Location(m[i], p)]
<1>1. PICK n \in Nat : n = Len(m) /\ DOMAIN m = 1 .. n
  BY LenProperties
<1>2. U \in SUBSET (1 .. n)
  BY <1>1
<1>3. IsFiniteSet(U) /\ Cardinality(U) \in Nat
  <2>1. IsFiniteSet(1 .. n)
    BY FS_Interval
  <2>2. QED
    BY <1>2, <2>1, FS_Subset, FS_CardinalityType
<1>4. \A i \in U : Location(m[i], p) \in mask
  <2> SUFFICES ASSUME NEW i \in U PROVE Location(m[i], p) \in mask
    OBVIOUS
  <2>1. i - 1 \in 0 .. n - 1 /\ (i - 1) + 1 = i /\ Location(m[i], p) >= 0
    BY <1>1, <1>2
  <2>2. i - 1 \in Mapped(m, p)
    BY <1>1, <2>1 DEF Mapped
  <2>3. mask = {Location(m[j + 1], p) : j \in Mapped(m, p)}
    BY MaskIs
  <2>4. QED
    BY <2>1, <2>2, <2>3
<1>5. \A b \in mask : \E i \in U : Location(m[i], p) = b
  <2> SUFFICES ASSUME NEW b \in mask PROVE \E i \in U : Location(m[i], p) = b
    OBVIOUS
  <2>1. PICK j \in Mapped(m, p) : b = Location(m[j + 1], p)
    BY MaskIs
  <2>2. j + 1 \in 1 .. n /\ Location(m[j + 1], p) >= 0
    BY <1>1, MaskIs DEF Mapped
  <2>3. QED
    BY <1>1, <2>1, <2>2
<1>6. \A i \in U : m[i] # "X" /\ p[Location(m[i], p) + 1] = m[i] /\ i \in DOMAIN m
  <2> SUFFICES ASSUME NEW i \in U
               PROVE  m[i] # "X" /\ p[Location(m[i], p) + 1] = m[i] /\ i \in DOMAIN m
    OBVIOUS
  <2>1. Location(m[i], p) >= 0 /\ i \in DOMAIN m
    BY <1>1
  <2>2. Location(m[i], p) # -1
    BY <2>1
  <2>3. QED
    BY <2>1, <2>2, LocationIs
<1> HIDE DEF U, mask
<1>7. f \in Surjection(U, mask)
  <2>1. f \in [U -> mask]
    BY <1>4
  <2>2. QED
    BY <1>5, <2>1 DEF Surjection
<1>8. Cardinality(mask) <= Cardinality(U)
  BY <1>3, <1>7, FS_Surjection
<1>9. ASSUME NamesOnce(m) PROVE Cardinality(mask) = Cardinality(U)
  <2>1. \A a, b \in U : f[a] = f[b] => a = b
    BY <1>6, <1>9 DEF NamesOnce
  <2>2. f \in Injection(U, mask)
    BY <1>7, <2>1 DEF Injection, Surjection, IsInjective
  <2>3. QED
    BY <1>3, <1>7, <2>2, FS_Surjection
<1>10. QED
  BY <1>3, <1>8, <1>9 DEF U, mask
\* The highest bit of a mask.
LEMMA MaxBitIs ==
  ASSUME NEW n \in Nat, NEW mask \in SUBSET (0 .. n - 1), mask # {}
  PROVE  MaxBit(mask) \in mask /\ \A b \in mask : b <= MaxBit(mask)
<1> DEFINE T == {i \in 1 .. n : i - 1 \in mask}
<1>1. \A b \in mask : b + 1 \in T /\ b \in Nat
  OBVIOUS
<1>2. T # {}
  BY <1>1
<1>3. PICK i \in T : \A j \in T : j <= i
  BY <1>2, Largest
<1>4. i \in 1 .. n /\ i - 1 \in mask
  OBVIOUS
<1>5. \A b \in mask : b <= i - 1
  <2> SUFFICES ASSUME NEW b \in mask PROVE b <= i - 1
    OBVIOUS
  <2>1. b \in Nat /\ b + 1 <= i
    BY <1>1, <1>3
  <2>2. QED
    BY <1>4, <2>1
<1>6. MaxBit(mask) \in mask /\ \A c \in mask : c <= MaxBit(mask)
  BY <1>4, <1>5 DEF MaxBit
<1>7. QED
  BY <1>6

\* What _open_device works out from two matrices: a channel for each location,
\* and names.
LEMMA RouteTyped ==
  ASSUME MatrixInv, BothKnown
  PROVE  /\ Route.out \in Nat /\ Route.inter \in Seq(Mnemonics)
         /\ Route.mask # {} => Route.out # 0 /\ Route.inter # NoMatrix
<1> DEFINE m == smatrix
           p == setup.premap
           mask == ChannelMask(m, p)
           W == {l \in 1 .. Len(p) : Bit(l - 1) \in mask}
           U == {i \in 1 .. Len(m) : Location(m[i], p) >= 0}
<1>1. m \in Seq(Mnemonics) /\ p \in Seq(Mnemonics) /\ p # <<>>
      /\ setup.order \in {"FIXED", "COLLAPSIBLE", "PERMUTABLE"}
  BY RouteAssumption DEF MatrixInv, Setups, BothKnown, NoMatrix
<1>2. PICK n \in Nat : n = Len(p)
  BY <1>1, LenProperties
<1>3. PICK k \in Nat : k = Len(m)
  BY <1>1, LenProperties
<1>4. WordBits \in Nat \ {0}
  BY ChannelMapAssumption
<1>5. \A i \in Mapped(m, p) : /\ Location(m[i + 1], p) \in 0 .. n - 1
                              /\ i + 1 \in U
                              /\ Location(m[i + 1], p) + 1 \in W
  <2> SUFFICES ASSUME NEW i \in Mapped(m, p)
               PROVE  /\ Location(m[i + 1], p) \in 0 .. n - 1 /\ i + 1 \in U
                      /\ Location(m[i + 1], p) + 1 \in W
    OBVIOUS
  <2>1. i \in 0 .. k - 1 /\ Location(m[i + 1], p) >= 0
    BY <1>3 DEF Mapped
  <2>2. PICK x \in -1 .. n - 1 : x = Location(m[i + 1], p)
    BY <1>1, <1>2, LocationIs
  <2>3. x \in 0 .. n - 1 /\ x + 1 \in 1 .. n /\ (x + 1) - 1 = x /\ i + 1 \in 1 .. k
    BY <2>1, <2>2
  <2>4. Bit(x) \in mask
    BY <2>2 DEF ChannelMask
  <2>5. QED
    BY <1>2, <1>3, <2>1, <2>2, <2>3, <2>4
<1>6. mask \in SUBSET (0 .. WordBits - 1)
  <2>1. \A x \in Nat : Bit(x) \in 0 .. WordBits - 1
    BY <1>4 DEF Bit
  <2>2. \A i \in Mapped(m, p) : Location(m[i + 1], p) \in Nat
    BY <1>5
  <2>3. QED
    BY <2>1, <2>2 DEF ChannelMask
<1>7. IsFiniteSet(mask) /\ Cardinality(mask) \in Nat
  <2>1. IsFiniteSet(0 .. WordBits - 1)
    BY <1>4, FS_Interval
  <2>2. QED
    BY <1>6, <2>1, FS_Subset, FS_CardinalityType
<1>8. mask # {} => Cardinality(mask) # 0 /\ Mapped(m, p) # {}
  BY <1>7, FS_EmptySet DEF ChannelMask
<1>9. /\ Kept(p, W) \in Seq(Mnemonics) /\ Kept(m, U) \in Seq(Mnemonics)
      /\ W # {} => Kept(p, W) # <<>>
      /\ U # {} => Kept(m, U) # <<>>
  <2>1. W \in SUBSET (1 .. Len(p)) /\ U \in SUBSET (1 .. Len(m))
    OBVIOUS
  <2> HIDE DEF W, U
  <2>2. /\ Kept(p, W) \in Seq(Mnemonics) /\ Len(Kept(p, W)) = Cardinality(W) /\ IsFiniteSet(W)
        /\ Kept(m, U) \in Seq(Mnemonics) /\ Len(Kept(m, U)) = Cardinality(U) /\ IsFiniteSet(U)
    BY <1>1, <2>1, KeptIs
  <2>3. Len(<<>>) = 0 /\ (W # {} => Cardinality(W) # 0) /\ (U # {} => Cardinality(U) # 0)
    BY <2>2, FS_EmptySet
  <2>4. QED
    BY <2>2, <2>3
<1>10. mask # {} => W # {} /\ U # {}
  BY <1>5, <1>8
<1> HIDE DEF W, U, mask
<1>11. CASE setup.order = "FIXED"
  <2>1. Route.out = MaxBit(mask) + 1 /\ Route.inter = p /\ Route.mask = mask
    BY <1>11 DEF Route, Reconciled, mask
  <2>2. CASE mask = {}
    <3>1. MaxBit(mask) = -1
      BY <2>2 DEF MaxBit
    <3>2. QED
      BY <1>1, <2>1, <2>2, <3>1
  <2>3. CASE mask # {}
    <3>1. MaxBit(mask) \in mask
      BY <1>4, <1>6, <2>3, MaxBitIs
    <3>2. MaxBit(mask) \in Nat
      <4>1. MaxBit(mask) \in 0 .. WordBits - 1
        BY <1>6, <3>1, Zenon
      <4>2. \A b \in 0 .. WordBits - 1 : b \in Nat
        BY <1>4
      <4>3. QED
        BY <4>1, <4>2, Zenon
    <3>3. QED
      BY <1>1, <2>1, <3>2 DEF NoMatrix
  <2>4. QED
    BY <2>2, <2>3
<1>12. CASE setup.order = "COLLAPSIBLE"
  <2>1. Route.out = Cardinality(mask) /\ Route.inter = Kept(p, W) /\ Route.mask = mask
    BY <1>12 DEF Route, Reconciled, mask, Bits, MaskToMatrix, W
  <2>2. QED
    BY <1>7, <1>8, <1>9, <1>10, <2>1 DEF NoMatrix
<1>13. CASE setup.order = "PERMUTABLE"
  <2>1. Route.out = Cardinality(mask) /\ Route.inter = Kept(m, U) /\ Route.mask = mask
    BY <1>13 DEF Route, Reconciled, mask, Bits, Intersect, U
  <2>2. QED
    BY <1>7, <1>8, <1>9, <1>10, <2>1 DEF NoMatrix
<1>14. QED
  BY <1>1, <1>11, <1>12, <1>13

\* The matrices that the code itself writes.
LEMMA OwnNames ==
  /\ <<"L", "R">> \in Seq(Mnemonics) /\ <<"L", "R">> # NoMatrix
  /\ \A n \in DOMAIN RoarMatrices :
       RoarMatrices[n] \in Seq(Mnemonics) /\ RoarMatrices[n] # NoMatrix
<1>1. /\ \A a \in Mnemonics : <<a>> \in Seq(Mnemonics)
      /\ \A a, b \in Mnemonics : <<a, b>> \in Seq(Mnemonics)
      /\ \A a, b, c \in Mnemonics : <<a, b, c>> \in Seq(Mnemonics)
      /\ \A a, b, c, d \in Mnemonics : <<a, b, c, d>> \in Seq(Mnemonics)
      /\ \A a, b, c, d, e \in Mnemonics : <<a, b, c, d, e>> \in Seq(Mnemonics)
      /\ \A a, b, c, d, e, f \in Mnemonics : <<a, b, c, d, e, f>> \in Seq(Mnemonics)
  OBVIOUS
<1>2. \A a, b, c, d, e, f :
        /\ <<a>> # <<>> /\ <<a, b>> # <<>> /\ <<a, b, c>> # <<>> /\ <<a, b, c, d>> # <<>>
        /\ <<a, b, c, d, e>> # <<>> /\ <<a, b, c, d, e, f>> # <<>>
  OBVIOUS
<1>3. /\ "M" \in Mnemonics /\ "L" \in Mnemonics /\ "R" \in Mnemonics /\ "C" \in Mnemonics
      /\ "LFE" \in Mnemonics /\ "BL" \in Mnemonics /\ "BR" \in Mnemonics
  BY ChannelMapAssumption
<1>4. \A m \in {<<"M">>, <<"L", "R">>, <<"L", "R", "C">>, <<"L", "R", "BL", "BR">>,
                <<"L", "R", "C", "BL", "BR">>, <<"L", "R", "C", "LFE", "BL", "BR">>} :
        m \in Seq(Mnemonics) /\ m # NoMatrix
  <2>1. /\ <<"M">> \in Seq(Mnemonics) /\ <<"L", "R">> \in Seq(Mnemonics)
        /\ <<"L", "R", "C">> \in Seq(Mnemonics)
    BY <1>1, <1>3, Zenon
  <2>2. /\ <<"L", "R", "BL", "BR">> \in Seq(Mnemonics)
        /\ <<"L", "R", "C", "BL", "BR">> \in Seq(Mnemonics)
        /\ <<"L", "R", "C", "LFE", "BL", "BR">> \in Seq(Mnemonics)
    BY <1>1, <1>3, Zenon
  <2>3. QED
    BY <1>2, <2>1, <2>2, Zenon DEF NoMatrix
<1>5. \A n \in DOMAIN RoarMatrices :
        RoarMatrices[n] \in {<<"M">>, <<"L", "R">>, <<"L", "R", "C">>, <<"L", "R", "BL", "BR">>,
                <<"L", "R", "C", "BL", "BR">>, <<"L", "R", "C", "LFE", "BL", "BR">>}
  BY DEF RoarMatrices
<1>6. QED
  BY <1>4, <1>5

\* The matrix of the stream is one.
LEMMA SourceTyped ==
  ASSUME MatrixInv, smatrix # NoMatrix
  PROVE  Source \in Seq(Mnemonics)
<1>1. smatrix \in Seq(Mnemonics)
  BY DEF MatrixInv
<1>2. setup.premap # NoMatrix => Route.inter \in Seq(Mnemonics)
  BY RouteTyped DEF BothKnown
<1>3. QED
  BY <1>1, <1>2, OwnNames DEF Source

\* The stream has no more channels than the output matrix, and, when the input
\* names none twice, one for each of its channels that has a place.
LEMMA RoutePlaces ==
  ASSUME WellFormed, MatrixInv, BothKnown, Route.mask # {}
  PROVE  /\ Route.out <= Len(setup.premap)
         /\ NamesOnce(smatrix) =>
              \A i \in Mapped(smatrix, setup.premap) :
                \E c \in 0 .. Route.out - 1 :
                  c < Len(Route.inter) /\ Route.inter[c + 1] = smatrix[i + 1]
<1> DEFINE m == smatrix
           p == setup.premap
           mask == ChannelMask(m, p)
           W == {l \in 1 .. Len(p) : Bit(l - 1) \in mask}
           U == {i \in 1 .. Len(m) : Location(m[i], p) >= 0}
<1>1. m \in Seq(Mnemonics) /\ p \in Seq(Mnemonics) /\ Len(p) <= WordBits /\ NamesOnce(p)
      /\ setup.order \in {"FIXED", "COLLAPSIBLE", "PERMUTABLE"}
  BY Known DEF BothKnown
<1>2. PICK n \in Nat : n = Len(p)
  BY <1>1, LenProperties
<1>3. PICK k \in Nat : k = Len(m)
  BY <1>1, LenProperties
<1>4. /\ \A l \in 0 .. n - 1 : Bit(l) = l
      /\ mask = {Location(m[i + 1], p) : i \in Mapped(m, p)}
      /\ mask \in SUBSET (0 .. n - 1)
      /\ \A i \in Mapped(m, p) : i + 1 \in 1 .. k /\ i \in Nat /\ Location(m[i + 1], p) \in 0 .. n - 1
  BY <1>1, <1>2, <1>3, MaskIs
<1>5. Cardinality(mask) \in Nat /\ Cardinality(mask) <= n /\ Cardinality(W) = Cardinality(mask)
  BY <1>1, <1>2, MaskCount
<1>6. NamesOnce(m) => Cardinality(mask) = Cardinality(U)
  BY <1>1, TokenCount
<1>7. W \in SUBSET (1 .. Len(p)) /\ U \in SUBSET (1 .. Len(m))
  OBVIOUS
<1>8. \A i \in Mapped(m, p) : /\ Location(m[i + 1], p) + 1 \in W /\ i + 1 \in U
                              /\ p[Location(m[i + 1], p) + 1] = m[i + 1]
                              /\ Location(m[i + 1], p) \in mask
  <2> SUFFICES ASSUME NEW i \in Mapped(m, p)
               PROVE  /\ Location(m[i + 1], p) + 1 \in W /\ i + 1 \in U
                      /\ p[Location(m[i + 1], p) + 1] = m[i + 1]
                      /\ Location(m[i + 1], p) \in mask
    OBVIOUS
  <2>1. PICK x \in 0 .. n - 1 : x = Location(m[i + 1], p)
    BY <1>4
  <2>2. x + 1 \in 1 .. n /\ (x + 1) - 1 = x /\ x # -1 /\ x >= 0 /\ x \in mask /\ Bit(x) = x
    BY <1>4, <2>1
  <2>3. p[x + 1] = m[i + 1]
    BY <1>1, <2>1, <2>2, LocationIs
  <2>4. QED
    BY <1>2, <1>3, <1>4, <2>1, <2>2, <2>3
<1> HIDE DEF W, U, mask
<1>9. CASE setup.order = "FIXED"
  <2>1. Route.out = MaxBit(mask) + 1 /\ Route.inter = p /\ Route.mask = mask
    BY <1>9 DEF Route, Reconciled, mask
  <2>2. MaxBit(mask) \in mask /\ \A b \in mask : b <= MaxBit(mask)
    BY <1>4, <2>1, MaxBitIs
  <2>3. PICK x \in 0 .. n - 1 : x = MaxBit(mask)
    BY <1>4, <2>2
  <2>4. ASSUME NEW i \in Mapped(m, p)
        PROVE  \E c \in 0 .. Route.out - 1 : c < Len(Route.inter) /\ Route.inter[c + 1] = m[i + 1]
    <3>1. PICK c \in 0 .. n - 1 : c = Location(m[i + 1], p)
      BY <1>4
    <3>2. c <= x /\ p[c + 1] = m[i + 1]
      BY <1>8, <2>2, <2>3, <3>1
    <3>3. c \in 0 .. (x + 1) - 1 /\ c < n
      BY <2>3, <3>1, <3>2
    <3>4. QED
      BY <1>2, <2>1, <2>3, <3>2, <3>3
  <2>5. x + 1 <= n
    BY <2>3
  <2>6. QED
    BY <1>2, <2>1, <2>3, <2>4, <2>5
<1>10. CASE setup.order = "COLLAPSIBLE"
  <2>1. Route.out = Cardinality(mask) /\ Route.inter = Kept(p, W) /\ Route.mask = mask
    BY <1>10 DEF Route, Reconciled, mask, Bits, MaskToMatrix, W
  <2>2. ASSUME NEW i \in Mapped(m, p)
        PROVE  \E c \in 0 .. Route.out - 1 : c < Len(Route.inter) /\ Route.inter[c + 1] = m[i + 1]
    <3>1. PICK l \in W : l = Location(m[i + 1], p) + 1
      BY <1>8
    <3>2. PICK r : r = Cardinality(Below(W, l))
      OBVIOUS
    <3>3. r \in 1 .. Cardinality(W) /\ Kept(p, W)[r] = p[l] /\ Len(Kept(p, W)) = Cardinality(W)
      BY <1>1, <1>7, <3>2, KeptIs
    <3>4. PICK z \in Nat : z = Cardinality(mask)
      BY <1>5
    <3>5. r \in 1 .. z /\ r - 1 \in 0 .. z - 1 /\ r - 1 < z /\ (r - 1) + 1 = r
      BY <1>5, <3>3, <3>4
    <3>6. p[l] = m[i + 1]
      BY <1>8, <3>1
    <3>7. QED
      BY <1>5, <2>1, <3>3, <3>4, <3>5, <3>6
  <2>3. QED
    BY <1>2, <1>5, <2>1, <2>2
<1>11. CASE setup.order = "PERMUTABLE"
  <2>1. Route.out = Cardinality(mask) /\ Route.inter = Kept(m, U) /\ Route.mask = mask
    BY <1>11 DEF Route, Reconciled, mask, Bits, Intersect, U
  <2>2. ASSUME NamesOnce(m), NEW i \in Mapped(m, p)
        PROVE  \E c \in 0 .. Route.out - 1 : c < Len(Route.inter) /\ Route.inter[c + 1] = m[i + 1]
    <3>1. PICK l \in U : l = i + 1
      BY <1>8
    <3>2. PICK r : r = Cardinality(Below(U, l))
      OBVIOUS
    <3>3. r \in 1 .. Cardinality(U) /\ Kept(m, U)[r] = m[l] /\ Len(Kept(m, U)) = Cardinality(U)
      BY <1>1, <1>7, <3>2, KeptIs
    <3>4. PICK z \in Nat : z = Cardinality(mask) /\ z = Cardinality(U)
      BY <1>5, <1>6, <2>2
    <3>5. r \in 1 .. z /\ r - 1 \in 0 .. z - 1 /\ r - 1 < z /\ (r - 1) + 1 = r
      BY <3>3, <3>4
    <3>7. QED
      BY <2>1, <3>1, <3>3, <3>4, <3>5
  <2>3. QED
    BY <1>2, <1>5, <2>1, <2>2
<1>12. QED
  BY <1>1, <1>9, <1>10, <1>11
-----------------------------------------------------------------------------
(* How the route is decided. *)

\* The input of every channel of the stream.
LEMMA PermuteTyped ==
  ASSUME MatrixInv, NEW out \in Nat, NEW inter \in Seq(Mnemonics)
  PROVE  InterPermute(out, inter, setup.channels, smatrix) \in [0 .. out - 1 -> -1 .. setup.channels - 1]
<1>1. PICK n \in Nat : n = setup.channels
  BY RouteAssumption DEF MatrixInv, Setups
<1>2. PICK k \in Nat : k = Len(smatrix) /\ k <= n
  BY <1>1, LenProperties DEF MatrixInv
<1>3. \A name : FindChannel(name, smatrix) \in -1 .. n - 1
  <2> SUFFICES ASSUME NEW name PROVE FindChannel(name, smatrix) \in -1 .. n - 1
    OBVIOUS
  <2>1. FirstAt(name, smatrix) \in -1 .. k - 1
    BY <1>2, FirstAtIs DEF MatrixInv
  <2>2. QED
    BY <1>1, <1>2, <2>1 DEF FindChannel
<1>4. -1 \in -1 .. n - 1
  BY <1>1
<1>5. QED
  BY <1>1, <1>3, <1>4 DEF InterPermute

\* The map of input channels.
LEMMA MapTyped ==
  ASSUME MatrixInv, BothKnown
  PROVE  /\ InputMap(setup.channels, smatrix, setup.premap)
              \in [0 .. setup.channels - 1 -> -1 .. Len(setup.premap) - 1]
         /\ setup.channels \in Nat \ {0}
<1>1. setup.premap \in Seq(Mnemonics) /\ setup.channels \in Nat \ {0}
  BY RouteAssumption DEF MatrixInv, Setups
<1>2. PICK n \in Nat : n = Len(setup.premap)
  BY <1>1, LenProperties
<1>3. \A name : Location(name, setup.premap) \in -1 .. n - 1
  BY <1>1, <1>2, LocationIs
<1>4. -1 \in -1 .. n - 1
  BY <1>2
<1>5. QED
  BY <1>1, <1>2, <1>3, <1>4 DEF InputMap

\* The configuration and the input matrix are the ones of the start.
LEMMA SetupStays ==
  ASSUME [RouteNext]_routeVars
  PROVE  setup' = setup /\ smatrix' = smatrix
BY DEF RouteNext, routeVars, Reconcile, NoReconcile, DriverOpen, Permute, CreateSwap, Play,
       PlayDirect, PlayConverted, PlayRefused

\* The input matrix is sanitized before anything else.
LEMMA MatrixInit == ASSUME RouteInit PROVE MatrixInv
<1>1. setup \in Setups /\ smatrix = FormatMatrix(setup.channels, setup.tokens)
  BY DEF RouteInit
<1>2. setup.channels \in Nat \ {0} /\ setup.tokens \in Seq(STRING)
  BY <1>1, RouteAssumption DEF Setups
<1>3. QED
  BY <1>1, <1>2, FormatMatrixIs DEF MatrixInv

\* And so it stays.
LEMMA MatrixNext == ASSUME MatrixInv, [RouteNext]_routeVars PROVE MatrixInv'
BY SetupStays DEF MatrixInv

\* At first the stream has the caller's channels.
LEMMA RouteInvInit == ASSUME RouteInit PROVE RouteInv
<1>1. MatrixInv
  BY MatrixInit
<1>2. setup.channels \in Nat
  BY <1>1, RouteAssumption DEF MatrixInv, Setups
<1>3. /\ stage = "reconcile"
      /\ route = [out |-> setup.channels, map |-> NoMap, inter |-> NoMatrix, permute |-> NoPermute]
  BY DEF RouteInit
<1>4. NoMatrix \in Seq(Mnemonics)
  BY DEF NoMatrix
<1>5. QED
  BY <1>2, <1>3, <1>4 DEF RouteInv

\* Whatever a driver's open makes of inter_matrix, the core then permutes by the
\* matrix that the driver promises.
LEMMA DriverSays ==
  ASSUME MatrixInv, RouteInv, DriverOpen
  PROVE  \E i \in Seq(Mnemonics) :
           /\ route' = [route EXCEPT !.inter = i]
           /\ smatrix # NoMatrix => (IF i = NoMatrix THEN <<"L", "R">> ELSE i) = Source
<1> DEFINE inter == route.inter
           i == CASE setup.kind = "copy"    -> NullInter(inter)
                  [] setup.kind = "stereo"  -> StereoInter(inter)
                  [] setup.kind = "roar"    -> RoarInter(inter)
                  [] setup.kind = "alsa_hw" -> AlsaInter(inter)
                  [] OTHER                  -> inter
<1>1. stage = "open" /\ route' = [route EXCEPT !.inter = i]
  BY DEF DriverOpen
<1>2. inter \in Seq(Mnemonics) /\ smatrix \in Seq(Mnemonics) /\ NoMatrix \in Seq(Mnemonics)
  BY DEF RouteInv, MatrixInv, NoMatrix
<1>3. i \in Seq(Mnemonics)
  BY <1>2, OwnNames DEF NullInter, StereoInter, RoarInter, AlsaInter
<1>4. ASSUME smatrix # NoMatrix
      PROVE  (IF i = NoMatrix THEN <<"L", "R">> ELSE i) = Source
  <2>1. CASE setup.premap # NoMatrix
    <3>1. inter = Route.inter /\ inter # NoMatrix
      BY <1>1, <1>4, <2>1, RouteTyped DEF RouteInv, BothKnown
    <3>2. i = IF Dropped THEN NoMatrix ELSE inter
      BY <3>1 DEF NullInter, StereoInter, RoarInter, AlsaInter, Dropped
    <3>3. Source = IF Dropped THEN <<"L", "R">> ELSE inter
      BY <2>1, <3>1 DEF Source
    <3> HIDE DEF i, inter
    <3>4. QED
      BY <3>1, <3>2, <3>3
  <2>2. CASE setup.premap = NoMatrix
    <3>1. inter = NoMatrix
      BY <1>1, <2>2 DEF RouteInv
    <3>2. CASE setup.kind = "copy"
      <4>1. i = smatrix /\ Source = smatrix
        BY <2>2, <3>1, <3>2 DEF NullInter, Source, Dropped
      <4>2. QED
        BY <1>4, <4>1
    <3>3. CASE setup.kind = "roar" /\ setup.channels \in DOMAIN RoarMatrices
      <4>1. i = RoarMatrices[setup.channels] /\ Source = RoarMatrices[setup.channels]
        BY <2>2, <3>1, <3>3 DEF RoarInter, Source, Dropped
      <4>2. QED
        BY <3>3, <4>1, OwnNames
    <3>4. CASE setup.kind # "copy" /\ ~(setup.kind = "roar" /\ setup.channels \in DOMAIN RoarMatrices)
      <4>1. i \in {NoMatrix, <<"L", "R">>}
        BY <3>1, <3>4 DEF StereoInter, RoarInter, AlsaInter
      <4>2. Source = <<"L", "R">>
        BY <2>2, <3>4 DEF Source
      <4> HIDE DEF i
      <4>3. QED
        BY <4>1, <4>2
    <3>5. QED
      BY <3>2, <3>3, <3>4
  <2>3. QED
    BY <2>1, <2>2
<1> HIDE DEF i
<1>5. QED
  BY <1>1, <1>3, <1>4

\* Every stage leaves of the route what the next ones need.
LEMMA RouteInvNext ==
  ASSUME MatrixInv, RouteInv, [RouteNext]_routeVars
  PROVE  RouteInv'
<1> USE DEF RouteInv
<1>1. /\ setup' = setup /\ smatrix' = smatrix /\ Route' = Route
      /\ BothKnown' = BothKnown /\ (route'.out = route.out => Source' = Source)
  BY SetupStays DEF Route, Source, BothKnown, Dropped
<1>2. setup.channels \in Nat /\ smatrix \in Seq(Mnemonics)
  BY RouteAssumption DEF MatrixInv, Setups
<1>3. CASE Reconcile
  <2>1. /\ stage = "reconcile" /\ BothKnown
        /\ IF Route.mask = {} THEN stage' = "refused" /\ route' = route
           ELSE /\ stage' = "open"
                /\ route' = [route EXCEPT !.out = Route.out, !.inter = Route.inter,
                              !.map = InputMap(setup.channels, smatrix, setup.premap)]
    BY <1>3 DEF Reconcile, BothKnown, Route
  <2>2. CASE Route.mask = {}
    BY <1>1, <2>1, <2>2
  <2>3. CASE Route.mask # {}
    <3>1. /\ Route.out \in Nat /\ Route.inter \in Seq(Mnemonics)
      BY <2>1, RouteTyped
    <3>2. InputMap(setup.channels, smatrix, setup.premap) \in [0 .. setup.channels - 1 -> Int]
      BY <2>1, MapTyped
    <3>3. /\ route' = [route EXCEPT !.out = Route.out, !.inter = Route.inter,
                          !.map = InputMap(setup.channels, smatrix, setup.premap)]
          /\ stage' = "open" /\ stage = "reconcile" /\ BothKnown
      BY <2>1, <2>3
    <3>4. route.permute = NoPermute
      BY <3>3
    <3>5. /\ route'.out = Route.out /\ route'.inter = Route.inter /\ route'.permute = NoPermute
          /\ route'.map = InputMap(setup.channels, smatrix, setup.premap)
      BY <3>1, <3>3, <3>4
    <3>6. route' \in [out : Nat, map : {NoMap} \cup [0 .. setup.channels - 1 -> Int],
                     inter : Seq(Mnemonics), permute : {NoPermute}]
      BY <3>1, <3>2, <3>3, <3>4
    <3>7. route' \in [out : Nat, map : {NoMap} \cup [0 .. setup.channels - 1 -> Int],
                inter : Seq(Mnemonics),
                permute : {NoPermute} \cup [0 .. route'.out - 1 -> -1 .. setup.channels - 1]]
      BY <3>6
    <3>8. QED
      BY <1>1, <2>3, <3>3, <3>5, <3>7 DEF BothKnown
  <2>4. QED
    BY <2>2, <2>3
<1>4. CASE NoReconcile
  BY <1>1, <1>4 DEF NoReconcile, BothKnown
<1>5. CASE DriverOpen
  <2>1. stage = "open" /\ stage' = "permute"
    BY <1>5 DEF DriverOpen
  <2>2. PICK i \in Seq(Mnemonics) :
          /\ route' = [route EXCEPT !.inter = i]
          /\ smatrix # NoMatrix => (IF i = NoMatrix THEN <<"L", "R">> ELSE i) = Source
    BY <1>5, DriverSays
  <2>3. route'.out = route.out /\ (smatrix # NoMatrix => Followed' = Source')
    BY <1>1, <2>2 DEF Followed
  <2>4. QED
    BY <1>1, <2>1, <2>2, <2>3
<1>6. CASE Permute
  <2>1. stage = "permute" /\ stage' = "swap"
    BY <1>6 DEF Permute
  <2>2. CASE smatrix = NoMatrix
    BY <1>1, <1>6, <2>1, <2>2 DEF Permute, BothKnown
  <2>3. CASE smatrix # NoMatrix
    <3> DEFINE inter == IF route.inter = NoMatrix THEN <<"L", "R">> ELSE route.inter
               permute == InterPermute(route.out, inter, setup.channels, smatrix)
    <3>1. route' = [route EXCEPT !.inter = inter,
             !.permute = IF Releasable(permute, setup.channels, route.out) THEN NoPermute ELSE permute]
      BY <1>6, <2>3 DEF Permute
    <3>2. inter = Source
      BY <2>1, <2>3 DEF Followed
    <3>3. inter \in Seq(Mnemonics)
      BY <2>3, <3>2, SourceTyped
    <3>4. permute \in [0 .. route.out - 1 -> -1 .. setup.channels - 1]
      BY <3>3, PermuteTyped
    <3>5. permute = InterPermute(route.out, Source, setup.channels, smatrix)
      BY <3>2
    <3> HIDE DEF inter, permute
    <3>6. CASE Releasable(permute, setup.channels, route.out)
      <4>1. route' = [route EXCEPT !.inter = inter, !.permute = NoPermute]
        BY <3>1, <3>6
      <4>2. \A c \in 0 .. route.out - 1 : permute[c] = c
        BY <3>4, <3>6 DEF Releasable, IsIdentity
      <4>3. \A c \in 0 .. route.out - 1 : Feeding(c)' = permute[c]
        BY <4>1, <4>2 DEF Feeding
      <4>4. QED
        BY <1>1, <2>1, <2>3, <3>2, <3>3, <3>5, <4>1, <4>3 DEF BothKnown
    <3>7. CASE ~Releasable(permute, setup.channels, route.out)
      <4>1. route' = [route EXCEPT !.inter = inter, !.permute = permute]
        BY <3>1, <3>7
      <4>2. \A c \in 0 .. route.out - 1 : Feeding(c)' = permute[c]
        <5>1. CASE permute = NoPermute
          <6>1. DOMAIN permute = 0 .. route.out - 1 /\ DOMAIN <<>> = {}
            BY <3>4
          <6>2. QED
            BY <5>1, <6>1 DEF NoPermute
        <5>2. CASE permute # NoPermute
          BY <4>1, <5>2 DEF Feeding
        <5>3. QED
          BY <5>1, <5>2
      <4>3. QED
        BY <1>1, <2>1, <2>3, <3>2, <3>3, <3>4, <3>5, <4>1, <4>2 DEF BothKnown
    <3>8. QED
      BY <3>6, <3>7
  <2>4. QED
    BY <2>2, <2>3
<1>7. CASE CreateSwap
  <2>1. /\ stage = "swap" /\ stage' \in {"ready", "nomem"} /\ route' = route
        /\ \A c : Feeding(c)' = Feeding(c)
    BY <1>7 DEF CreateSwap, Feeding
  <2>2. QED
    BY <1>1, <2>1
<1>8. CASE Play \/ UNCHANGED routeVars
  <2>1. /\ stage' = stage /\ route' = route
        /\ \A c : Feeding(c)' = Feeding(c)
        /\ Followed' = Followed
    BY <1>8 DEF Play, PlayDirect, PlayConverted, PlayRefused, routeVars, Feeding, Followed
  <2>2. QED
    BY <1>1, <2>1
<1>9. QED
  BY <1>3, <1>4, <1>5, <1>6, <1>7, <1>8 DEF RouteNext
-----------------------------------------------------------------------------
(* Arithmetic. *)

\* Quotient and remainder of a number.
LEMMA Quotients ==
  \A d \in Nat \ {0} : \A a \in Int : a \div d \in Int /\ a % d \in 0 .. d - 1 /\ (a >= 0 => a \div d \in Nat)
OBVIOUS

\* The product of two numbers is a number, and that of positive ones positive.
LEMMA Products ==
  /\ \A a, b \in Nat : a * b \in Nat
  /\ \A a, b \in Nat \ {0} : a * b \in Nat \ {0}
OBVIOUS

\* Quotient and remainder are the only ones.
LEMMA OnlyQuotient ==
  \A d \in Nat \ {0}, q \in Nat : \A r \in 0 .. d - 1 :
    (q * d + r) \div d = q /\ (q * d + r) % d = r
OBVIOUS

\* A sample's byte is within the frame.
LEMMA Inside ==
  \A c, w \in Nat \ {0} : \A f \in 0 .. c - 1, d \in 0 .. w - 1 : f * w + d \in 0 .. c * w - 1
OBVIOUS

\* A byte of a frame belongs to one of its channels.
LEMMA ChannelOf ==
  \A c, w \in Nat \ {0} : \A r \in 0 .. c * w - 1 : r \div w \in 0 .. c - 1
OBVIOUS

\* Byte d of channel f in frame k of frames of c channels of w bytes, and what
\* is worked out from its position.
ByteAt(x, c, w, k, f, d) == x = (f * w + k * (w * c)) + d
Found(x, c, w, k, f, d) ==
  x \in Nat /\ x \div (c * w) = k /\ (x % (c * w)) \div w = f /\ x % w = d

\* The position leads back to the byte.
LEMMA Landing ==
  ASSUME NEW c \in Nat \ {0}, NEW w \in Nat \ {0}, NEW k \in Nat,
         NEW f \in 0 .. c - 1, NEW d \in 0 .. w - 1,
         NEW x, ByteAt(x, c, w, k, f, d)
  PROVE  Found(x, c, w, k, f, d)
<1>0. x = (f * w + k * (w * c)) + d
  BY DEF ByteAt
<1>1. PICK y \in Nat \ {0} : y = c * w /\ y = w * c
  BY Products
<1>2. PICK r \in 0 .. y - 1 : r = f * w + d
  BY <1>1, Inside
<1>3. PICK z \in Nat : z = k * y
  BY <1>1, Products
<1>4. PICK u \in Nat : u = f * w
  BY Products
<1>5. x = k * y + r
  BY <1>0, <1>1, <1>2, <1>3, <1>4
<1>6. x \div y = k /\ x % y = r
  BY <1>1, <1>5, OnlyQuotient
<1>7. r \div w = f /\ r % w = d
  BY <1>2, OnlyQuotient
<1>8. x = (f + k * c) * w + d
  BY <1>0, <1>1, <1>3, <1>4
<1>9. f + k * c \in Nat
  BY Products
<1>10. x % w = d
  <2>1. PICK q \in Nat : q = f + k * c
    BY <1>9
  <2>2. x = q * w + d
    BY <1>8, <2>1
  <2>3. (q * w + d) % w = d
    BY <2>1, OnlyQuotient
  <2>4. QED
    BY <2>2, <2>3
<1>11. x \in Nat
  BY <1>2, <1>3, <1>5
<1>12. QED
  BY <1>1, <1>6, <1>7, <1>10, <1>11 DEF Found

\* The bytes of some frames of the stream, from those of the input.
LEMMA OutIs ==
  ASSUME NEW f \in Nat, NEW c \in Nat \ {0}, NEW w \in Nat, NEW o \in Nat, NEW k \in Nat \ {0},
         f * c * w * o < k
  PROVE  ((f * c * w * o) % k) \div c = f * (o * w)
<1>1. PICK z \in Nat : z = f * (o * w)
  BY Products
<1>2. f * c * w * o = z * c + 0 /\ f * c * w * o = z * c
  BY <1>1
<1>3. PICK y \in Nat : y = z * c
  BY <1>1, Products
<1>4. y % k = y
  BY <1>2, <1>3
<1>5. (z * c + 0) \div c = z /\ z * c + 0 = z * c
  BY <1>1, <1>3, OnlyQuotient
<1>6. QED
  BY <1>1, <1>2, <1>3, <1>4, <1>5
-----------------------------------------------------------------------------
(* The swap buffer. *)

\* Once it is decided the stream has channels, and each has an input or none.
LEMMA StreamIs ==
  ASSUME MatrixInv, RouteInv, stage \notin {"reconcile", "refused"}
  PROVE  /\ route.out \in Nat \ {0} /\ setup.channels \in Nat \ {0} /\ setup.width \in 1 .. 4
         /\ BothKnown => route.out = Route.out /\ Route.mask # {}
         /\ ~BothKnown => route.out = setup.channels
         /\ \A c \in 0 .. route.out - 1 : Feeding(c) \in Int
<1>1. setup.channels \in Nat \ {0} /\ setup.width \in 1 .. 4
  BY RouteAssumption DEF MatrixInv, Setups
<1>2. /\ BothKnown => route.out = Route.out /\ Route.mask # {}
      /\ ~BothKnown => route.out = setup.channels
  BY DEF RouteInv
<1>3. route.out \in Nat \ {0}
  <2>1. CASE BothKnown
    <3>1. Route.out \in Nat /\ Route.out # 0
      BY <1>2, <2>1, RouteTyped
    <3>2. QED
      BY <1>2, <2>1, <3>1
  <2>2. CASE ~BothKnown
    BY <1>1, <1>2, <2>2
  <2>3. QED
    BY <2>1, <2>2
<1>4. ASSUME NEW c \in 0 .. route.out - 1 PROVE Feeding(c) \in Int
  <2>1. CASE route.permute = NoPermute
    BY <2>1 DEF Feeding
  <2>2. CASE route.permute # NoPermute
    <3>1. route.permute \in [0 .. route.out - 1 -> -1 .. setup.channels - 1]
      BY <2>2 DEF RouteInv
    <3>2. route.permute[c] \in -1 .. setup.channels - 1
      BY <3>1
    <3>3. QED
      BY <1>1, <2>2, <3>2 DEF Feeding
  <2>3. QED
    BY <2>1, <2>2
<1>5. QED
  BY <1>1, <1>2, <1>3, <1>4

\* What a grown buffer holds.
LEMMA GrownIs ==
  ASSUME NEW buffer \in Seq(Samples), NEW size \in Nat
  PROVE  Grown(buffer, size) \in Seq(Samples) /\ Len(Grown(buffer, size)) = size
<1>1. PICK n \in Nat : n = Len(buffer)
  BY LenProperties
<1>2. Garbage \in Samples
  BY DEF Garbage, Byte, Samples
<1>3. \A p \in 1 .. size : p <= n => buffer[p] \in Samples
  <2> SUFFICES ASSUME NEW p \in 1 .. size, p <= n PROVE buffer[p] \in Samples
    OBVIOUS
  <2>1. p \in 1 .. Len(buffer)
    BY <1>1
  <2>2. QED
    BY <2>1, ElementOfSeq
<1>4. Grown(buffer, size) \in [1 .. size -> Samples]
  BY <1>1, <1>2, <1>3 DEF Grown
<1>5. QED
  BY <1>4

\* A byte the application passes.
LEMMA SourceIs ==
  ASSUME MatrixInv, NEW n \in Nat, NEW p \in Int
  PROVE  SourceByte(n, p) \in Samples
<1>1. PICK c \in Nat \ {0}, w \in Nat \ {0} : c = setup.channels /\ w = setup.width
  <2>1. setup.channels \in Nat \ {0} /\ setup.width \in 1 .. 4
    BY RouteAssumption DEF MatrixInv, Setups
  <2>2. QED
    BY <2>1
<1>2. PICK y \in Nat \ {0} : y = c * w
  BY Products
<1>3. p \div y \in Int /\ p % y \in Int /\ p % w \in Int /\ (p % y) \div w \in Int
        /\ w - 1 - (p % w) \in Int
  <2>1. p % y \in Int /\ p \div y \in Int /\ p % w \in Int
    BY <1>2, Quotients
  <2>2. QED
    BY <2>1, Quotients
<1>4. QED
  BY <1>1, <1>2, <1>3 DEF SourceByte, Byte, Samples

\* The converted buffer is a buffer of the same length.
LEMMA ConvertedIs ==
  ASSUME MatrixInv, RouteInv, stage = "ready", NEW n \in Nat, NEW outBytes \in Nat,
         NEW buffer \in Seq(Samples)
  PROVE  /\ Converted(buffer, n, outBytes) \in Seq(Samples)
         /\ Len(Converted(buffer, n, outBytes)) = Len(buffer)
<1>1. PICK l \in Nat : l = Len(buffer)
  BY LenProperties
<1>2. PICK c \in Nat \ {0}, w \in Nat \ {0}, o \in Nat \ {0} :
        c = setup.channels /\ w = setup.width /\ o = route.out
  BY StreamIs
<1>3. PICK y \in Nat \ {0}, x \in Nat \ {0} : y = w * o /\ x = w * c
  BY Products
<1>4. ASSUME NEW q \in 1 .. l PROVE Converted(buffer, n, outBytes)[q] \in Samples
  <2>1. PICK p \in Nat : p = q - 1
    OBVIOUS
  <2>0. p % y \in 0 .. y - 1 /\ p \div y \in Nat /\ p % w \in Int
    <3>1. y \in Nat \ {0} /\ w \in Nat \ {0} /\ p \in Int /\ p >= 0
      BY <1>2, <1>3, <2>1
    <3>2. p % y \in 0 .. y - 1
      BY <3>1, Quotients
    <3>3. p \div y \in Nat
      BY <3>1, Quotients
    <3>4. p % w \in Int
      BY <3>1, Quotients
    <3>5. QED
      BY <3>2, <3>3, <3>4
  <2>2. PICK r \in 0 .. y - 1 : r = p % y
    BY <2>0
  <2>3. PICK k \in Nat : k = p \div y
    BY <2>0
  <2>4. PICK h \in 0 .. o - 1 : h = r \div w
    <3>1. y = o * w
      BY <1>3
    <3>2. QED
      BY <2>2, <3>1, ChannelOf
  <2>5. PICK b \in Int : b = p % w
    BY <2>0
  <2>6. PICK f \in Int : f = Feeding(h)
    BY <1>2, <2>4, StreamIs
  <2>7. buffer[q] \in Samples
    BY <1>1, ElementOfSeq
  <2>8. Silent(buffer, p) \in Samples
    BY DEF Silent, Silence, Byte, Samples
  <2>9. \A z \in Int : SourceByte(n, z) \in Samples
    BY SourceIs
  <2>10. f * w + k * x \in Int
    OBVIOUS
  <2>11. Converted(buffer, n, outBytes)[q] =
           IF p - b >= outBytes THEN buffer[q]
           ELSE IF f = -1 THEN Silent(buffer, p)
           ELSE SourceByte(n, (f * w + k * x) + (IF Swapped THEN w - 1 - b ELSE b))
    BY <1>1, <1>2, <1>3, <2>1, <2>2, <2>3, <2>4, <2>5, <2>6 DEF Converted, InputStride
  <2>12. (f * w + k * x) + (IF Swapped THEN w - 1 - b ELSE b) \in Int
    BY <2>10
  <2>13. QED
    BY <2>7, <2>8, <2>9, <2>11, <2>12
<1>5. Converted(buffer, n, outBytes) = [q \in 1 .. l |-> Converted(buffer, n, outBytes)[q]]
  BY <1>1 DEF Converted
<1>6. QED
  BY <1>1, <1>4, <1>5

\* There is no buffer at first, and none is needed.
LEMMA SwapInvInit == ASSUME RouteInit PROVE SwapInv
BY DEF RouteInit, SwapInv

\* The length that ao_play works out.
LEMMA OutBytesIs ==
  ASSUME MatrixInv, RouteInv, NEW z \in Nat
  PROVE  OutBytes(z) \in Nat
<1>1. PICK c \in Nat \ {0} : c = setup.channels
  BY RouteAssumption DEF MatrixInv, Setups
<1>2. PICK o \in Nat : o = route.out
  BY DEF RouteInv
<1>3. PICK k \in Nat \ {0} : k = Wrap
  BY RouteAssumption
<1>4. PICK y \in Nat : y = z * o
  BY Products
<1>5. PICK x \in Nat : x = y % k
  BY Quotients
<1>6. x \div c \in Nat
  BY Quotients
<1>7. QED
  BY <1>1, <1>2, <1>3, <1>4, <1>5, <1>6 DEF OutBytes

\* The buffer stays as long as it is, or grows.
LEMMA SwapInvNext ==
  ASSUME MatrixInv, RouteInv, SwapInv, [RouteNext]_routeVars
  PROVE  SwapInv'
<1>1. /\ swap \in Seq(Samples) /\ handed \in Seq(Samples)
      /\ played \in [call : Nat, frames : Nat]
  BY DEF SwapInv
<1>2. DefSize \in Nat \ {0} /\ Buffers \subseteq Nat \ {0}
  BY RouteAssumption
<1>3. CASE Reconcile \/ NoReconcile \/ DriverOpen \/ Permute
  <2>1. stage # "ready" /\ stage' # "ready" /\ swap' = swap /\ handed' = handed /\ played' = played
    BY <1>3 DEF Reconcile, NoReconcile, DriverOpen, Permute
  <2>2. QED
    BY <2>1 DEF SwapInv
<1>4. CASE CreateSwap
  <2>1. /\ stage = "swap" /\ handed' = handed /\ played' = played /\ setup' = setup /\ route' = route
        /\ NeedsSwap' = NeedsSwap
    BY <1>4 DEF CreateSwap, NeedsSwap, Swapped
  <2>2. played.frames = 0 /\ handed = <<>> /\ swap = <<>>
    BY <2>1 DEF SwapInv
  <2>3. CASE swap' = swap /\ (stage' = "ready" => ~NeedsSwap)
    BY <2>1, <2>2, <2>3 DEF SwapInv
  <2>4. CASE stage' = "ready" /\ swap' = Grown(swap, DefSize)
    <3>1. swap' \in Seq(Samples) /\ Len(swap') = DefSize
      BY <1>1, <1>2, <2>4, GrownIs
    <3>2. swap' # <<>> /\ Len(<<>>) = 0 /\ 0 <= DefSize
      BY <1>2, <3>1
    <3>3. QED
      BY <2>1, <2>2, <2>4, <3>1, <3>2 DEF SwapInv
  <2>5. QED
    BY <1>4, <2>3, <2>4 DEF CreateSwap
<1>5. ASSUME NEW frames \in Buffers, PlayDirect(frames)
      PROVE  SwapInv'
  <2>1. /\ stage = "ready" /\ swap = <<>> /\ stage' = stage /\ setup' = setup /\ route' = route
        /\ swap' = swap /\ NeedsSwap' = NeedsSwap
        /\ handed' = [q \in 1 .. frames * setup.channels * setup.width |->
                       SourceByte(played.call + 1, q - 1)]
        /\ played' = [call |-> played.call + 1, frames |-> frames]
    BY <1>5 DEF PlayDirect, NeedsSwap, Swapped
  <2>2. PICK n \in Nat : n = played.call + 1
    BY <1>1
  <2>3. PICK z \in Nat : z = frames * setup.channels * setup.width
    <3>1. PICK c \in Nat, w \in Nat, f \in Nat : c = setup.channels /\ w = setup.width /\ f = frames
      BY <1>2, <2>1, StreamIs
    <3>2. QED
      BY <3>1, Products
  <2>4. \A q \in 1 .. z : SourceByte(n, q - 1) \in Samples
    BY SourceIs
  <2>5. handed' \in Seq(Samples)
    BY <2>1, <2>2, <2>3, <2>4
  <2>6. played' \in [call : Nat, frames : Nat]
    BY <1>2, <2>1, <2>2
  <2>7. QED
    BY <1>1, <2>1, <2>5, <2>6 DEF SwapInv
<1>6. ASSUME NEW frames \in Buffers, PlayConverted(frames)
      PROVE  SwapInv'
  <2> DEFINE out == OutBytes(frames * setup.channels * setup.width)
             size == IF out > Len(swap) THEN out ELSE Len(swap)
             buffer == Grown(swap, size)
  <2>1. /\ stage = "ready" /\ swap # <<>> /\ stage' = stage
        /\ swap' = Converted(buffer, played.call + 1, out) /\ handed' = SubSeq(swap', 1, out)
        /\ played' = [call |-> played.call + 1, frames |-> frames]
    BY <1>6 DEF PlayConverted
  <2>2. PICK n \in Nat : n = played.call + 1
    BY <1>1
  <2>3. out \in Nat
    <3>1. PICK c \in Nat, w \in Nat, f \in Nat : c = setup.channels /\ w = setup.width /\ f = frames
      BY <1>2, <2>1, StreamIs
    <3>2. f * c * w \in Nat
      BY Products
    <3>3. QED
      BY <3>1, <3>2, OutBytesIs
  <2>4. PICK l \in Nat \ {0} : l = Len(swap)
    BY <1>1, <2>1, LenProperties
  <2> HIDE DEF out
  <2>5. size \in Nat /\ size # 0 /\ out <= size
    BY <2>3, <2>4
  <2> HIDE DEF size
  <2>6. buffer \in Seq(Samples) /\ Len(buffer) = size
    BY <1>1, <2>5, GrownIs
  <2> HIDE DEF buffer
  <2>7. swap' \in Seq(Samples) /\ Len(swap') = size
    BY <2>1, <2>2, <2>3, <2>6, ConvertedIs
  <2>8. handed' \in Seq(Samples) /\ Len(handed') = out
    <3>1. PICK s \in Seq(Samples) : s = swap' /\ Len(s) = size
      BY <2>7
    <3>2. SubSeq(s, 1, out) \in Seq(Samples) /\ Len(SubSeq(s, 1, out)) = out
      BY <2>3, <2>5, <3>1, SubSeqProperties
    <3>3. QED
      BY <2>1, <3>1, <3>2
  <2>9. swap' # <<>> /\ Len(handed') <= Len(swap')
    BY <2>5, <2>7, <2>8
  <2>10. played' \in [call : Nat, frames : Nat]
    BY <1>2, <2>1, <2>2
  <2>11. QED
    BY <2>1, <2>7, <2>8, <2>9, <2>10 DEF SwapInv
<1>7. ASSUME NEW frames \in Buffers, PlayRefused(frames)
      PROVE  SwapInv'
  <2>1. /\ stage = "ready" /\ swap # <<>> /\ stage' = stage /\ swap' = swap /\ handed' = <<>>
        /\ played' = [call |-> played.call + 1, frames |-> 0]
    BY <1>7 DEF PlayRefused
  <2>2. played' \in [call : Nat, frames : Nat] /\ <<>> \in Seq(Samples) /\ Len(<<>>) = 0
    BY <1>1, <2>1
  <2>3. PICK l \in Nat : l = Len(swap)
    BY <1>1, LenProperties
  <2>4. QED
    BY <1>1, <2>1, <2>2, <2>3 DEF SwapInv
<1>8. CASE UNCHANGED routeVars
  <2>1. NeedsSwap' = NeedsSwap
    BY <1>8 DEF routeVars, NeedsSwap, Swapped
  <2>2. QED
    BY <1>8, <2>1 DEF routeVars, SwapInv
<1>9. QED
  BY <1>3, <1>4, <1>5, <1>6, <1>7, <1>8 DEF RouteNext, Play
-----------------------------------------------------------------------------
(* The theorems. *)

RouteIInv == MatrixInv /\ RouteInv /\ SwapInv

\* The invariant holds throughout.
LEMMA RouteStays == RouteSpec => []RouteIInv
<1>1. RouteInit => RouteIInv
  BY MatrixInit, RouteInvInit, SwapInvInit DEF RouteIInv
<1>2. RouteIInv /\ [RouteNext]_routeVars => RouteIInv'
  BY MatrixNext, RouteInvNext, SwapInvNext DEF RouteIInv
<1>3. QED
  BY <1>1, <1>2, PTL DEF RouteSpec

\* Every stage of _open_device and every call of ao_play leaves the variables
\* with values of their types, for any matrices, channels and widths.
THEOREM RouteTypesCorrect == RouteSpec => []RouteTypeOK
<1>1. RouteIInv => RouteTypeOK
  <2>1. SUFFICES ASSUME RouteIInv PROVE RouteTypeOK
    OBVIOUS
  <2>2. MatrixInv /\ RouteInv /\ SwapInv
    BY <2>1 DEF RouteIInv
  <2>3. /\ stage \in {"reconcile", "open", "permute", "swap", "ready", "refused", "nomem"}
        /\ setup \in Setups /\ smatrix \in Seq(Mnemonics)
        /\ route.out \in Nat /\ route.inter \in Seq(Mnemonics)
    BY <2>2 DEF MatrixInv, RouteInv
  <2>4. route.permute = NoPermute \/ route.permute \in [0 .. route.out - 1 -> -1 .. setup.channels - 1]
    BY <2>2 DEF RouteInv
  <2>5. /\ DOMAIN route.map \in {{}, 0 .. setup.channels - 1}
        /\ \A c \in DOMAIN route.map : route.map[c] \in -1 .. Len(setup.premap) - 1
    <3>1. CASE BothKnown /\ stage \notin {"reconcile", "refused"}
      <4>1. route.map = InputMap(setup.channels, smatrix, setup.premap)
        BY <2>2, <3>1 DEF RouteInv
      <4>2. route.map \in [0 .. setup.channels - 1 -> -1 .. Len(setup.premap) - 1]
        BY <2>2, <3>1, <4>1, MapTyped
      <4>3. QED
        BY <4>2
    <3>2. CASE ~BothKnown \/ stage \in {"reconcile", "refused"}
      <4>1. route.map = <<>> /\ DOMAIN <<>> = {}
        BY <2>2, <3>2 DEF RouteInv, NoMap
      <4>2. QED
        BY <4>1
    <3>3. QED
      BY <3>1, <3>2
  <2>6. Len(handed) <= (IF swap = <<>> THEN Len(handed) ELSE Len(swap))
    <3>1. PICK l \in Nat : l = Len(handed)
      BY <2>2, LenProperties DEF SwapInv
    <3>2. QED
      BY <2>2, <3>1 DEF SwapInv
  <2>7. QED
    BY <2>3, <2>4, <2>5, <2>6 DEF RouteTypeOK
<1>2. QED
  BY <1>1, RouteStays, PTL

\* The input channel a name of the stream calls for.
LEMMA WantedIs ==
  ASSUME WellFormed, MatrixInv, smatrix # NoMatrix, NEW c \in Nat
  PROVE  Wanted(c) = IF c < Len(Source) THEN FindChannel(Source[c + 1], smatrix) ELSE -1
<1>1. StreamNames = Source
  BY StreamNamed
<1> DEFINE name == Source[c + 1]
           carrying == {i \in 0 .. Len(smatrix) - 1 : smatrix[i + 1] = name /\ smatrix[i + 1] # "X"}
           at == {i \in 0 .. Len(smatrix) - 1 : smatrix[i + 1] = name}
<1>2. Wanted(c) = IF c < Len(Source)
                  THEN IF carrying = {} THEN -1
                       ELSE CHOOSE i \in carrying : \A j \in carrying : i <= j
                  ELSE -1
  BY <1>1 DEF Wanted
<1>3. FindChannel(name, smatrix)
        = IF name = "X" THEN -1
          ELSE IF at = {} THEN -1 ELSE CHOOSE i \in at : \A j \in at : i <= j
  BY DEF FindChannel, FirstAt
<1>4. carrying = IF name = "X" THEN {} ELSE at
  OBVIOUS
<1> HIDE DEF carrying, at, name
<1>5. (IF carrying = {} THEN -1 ELSE CHOOSE i \in carrying : \A j \in carrying : i <= j)
        = FindChannel(name, smatrix)
  <2>1. CASE name = "X"
    BY <1>3, <1>4, <2>1
  <2>2. CASE name # "X"
    <3>1. carrying = at
      BY <1>4, <2>2
    <3>2. QED
      BY <1>3, <2>2, <3>1
  <2>3. QED
    BY <2>1, <2>2
<1>6. QED
  BY <1>2, <1>5 DEF name

\* A single channel called M is not kept as a matrix, so that no channel of
\* the stream is fed by its being mono.
LEMMA NoMono ==
  ASSUME MatrixInv, setup.channels = 1
  PROVE  FindChannel("M", smatrix) = -1
<1>1. PICK k \in Nat : k = Len(smatrix) /\ k <= 1 /\ smatrix \in Seq(Mnemonics)
  BY LenProperties DEF MatrixInv
<1>2. PICK f \in -1 .. k - 1 : f = FirstAt("M", smatrix)
  BY <1>1, FirstAtIs
<1>3. CASE f = -1
  BY <1>2, <1>3 DEF FindChannel
<1>4. CASE f # -1
  <2>1. f = 0 /\ k = 1
    BY <1>1, <1>2, <1>4
  <2>2. smatrix[f + 1] = "M"
    BY <1>1, <1>2, <1>4, FirstAtIs
  <2>3. smatrix[1] = "M"
    BY <2>1, <2>2
  <2>4. smatrix = <<"M">>
    <3>1. PICK t \in Seq(Mnemonics) : t = <<"M">> /\ Len(t) = 1 /\ t[1] = "M"
      <4>1. "M" \in Mnemonics
        BY ChannelMapAssumption
      <4>2. <<"M">> \in Seq(Mnemonics) /\ Len(<<"M">>) = 1 /\ <<"M">>[1] = "M"
        BY <4>1
      <4>3. QED
        BY <4>2
    <3>2. \A i \in 1 .. Len(t) : t[i] = smatrix[i]
      BY <2>3, <3>1
    <3>3. t = smatrix
      BY <1>1, <2>1, <3>1, <3>2, SeqEqual
    <3>4. QED
      BY <3>1, <3>3
  <2>5. QED
    BY <2>4 DEF MatrixInv
<1>5. QED
  BY <1>3, <1>4

\* Each channel of the stream is fed as it should be.
LEMMA FedAsWanted ==
  ASSUME WellFormed, MatrixInv, RouteInv, stage = "ready", NEW c \in 0 .. route.out - 1
  PROVE  Feeding(c) = Wanted(c)
<1>1. CASE smatrix = NoMatrix
  BY <1>1 DEF RouteInv, Feeding, Wanted
<1>2. CASE smatrix # NoMatrix
  <2>1. Feeding(c) = InterPermute(route.out, Source, setup.channels, smatrix)[c]
    BY <1>2 DEF RouteInv
  <2>2. c \in Nat /\ route.out \in Nat
    BY DEF RouteInv
  <2>3. Source \in Seq(Mnemonics)
    BY <1>2, SourceTyped
  <2>4. PICK n \in Nat : n = Len(Source)
    BY <2>3, LenProperties
  <2>5. PICK found : found = FindChannel(Source[c + 1], smatrix)
    OBVIOUS
  <2>6. InterPermute(route.out, Source, setup.channels, smatrix)[c]
          = IF c >= n THEN -1
            ELSE IF found = -1 /\ setup.channels = 1 THEN FindChannel("M", smatrix) ELSE found
    BY <2>4, <2>5 DEF InterPermute
  <2>7. InterPermute(route.out, Source, setup.channels, smatrix)[c] = IF c >= n THEN -1 ELSE found
    BY <2>6, NoMono
  <2>8. Wanted(c) = IF c < n THEN found ELSE -1
    BY <1>2, <2>2, <2>4, <2>5, WantedIs
  <2>9. QED
    BY <2>1, <2>2, <2>7, <2>8
<1>3. QED
  BY <1>1, <1>2

\* No input channel with a place is left out.
LEMMA NoneLeftOut ==
  ASSUME WellFormed, MatrixInv, RouteInv, stage = "ready",
         ~Dropped, setup.premap # NoMatrix, NamesOnce(smatrix), NEW i \in Mapped(smatrix, setup.premap)
  PROVE  \E c \in 0 .. route.out - 1 : Feeding(c) = i
<1>1. setup.premap \in Seq(Mnemonics) /\ smatrix \in Seq(Mnemonics) /\ Len(setup.premap) <= WordBits
  BY Known
<1>2. PICK k \in Nat : k = Len(smatrix)
  BY <1>1, LenProperties
<1>3. i + 1 \in 1 .. k /\ i \in Nat /\ Location(smatrix[i + 1], setup.premap) # -1
  <2>1. Location(smatrix[i + 1], setup.premap) \in 0 .. Len(setup.premap) - 1
    BY <1>1, MaskIs
  <2>2. i + 1 \in 1 .. k /\ i \in Nat
    BY <1>1, <1>2, MaskIs
  <2>3. ~(-1 \in 0 .. Len(setup.premap) - 1)
    OBVIOUS
  <2>4. QED
    BY <2>1, <2>2, <2>3
<1>4. smatrix[i + 1] # "X"
  BY <1>1, <1>3, LocationIs
<1>5. smatrix # NoMatrix
  <2>1. Len(<<>>) = 0 /\ k # 0
    BY <1>3
  <2>2. QED
    BY <1>2, <2>1 DEF NoMatrix
<1>6. BothKnown /\ Source = Route.inter /\ route.out = Route.out /\ Route.mask # {}
  BY <1>5 DEF BothKnown, RouteInv, Source
<1>7. PICK c \in 0 .. Route.out - 1 : c < Len(Source) /\ Source[c + 1] = smatrix[i + 1]
  BY <1>6, RoutePlaces
<1>8. c \in Nat /\ c \in 0 .. route.out - 1
  BY <1>6, <1>7, RouteTyped
<1>9. Wanted(c) = FindChannel(smatrix[i + 1], smatrix)
  BY <1>5, <1>7, <1>8, WantedIs
<1>10. FindChannel(smatrix[i + 1], smatrix) = i
  <2>1. FirstAt(smatrix[i + 1], smatrix) = (i + 1) - 1
    BY <1>1, <1>2, <1>3, <1>4, FirstAtOnly
  <2>2. QED
    BY <1>3, <1>4, <2>1 DEF FindChannel
<1>11. QED
  BY <1>8, <1>9, <1>10, FedAsWanted

\* Nor are left and right when alsa has dropped the matrix.
LEMMA LeftAndRight ==
  ASSUME WellFormed, MatrixInv, RouteInv, stage = "ready",
         Dropped, NamesOnce(smatrix), NEW i \in Mapped(smatrix, <<"L", "R">>)
  PROVE  \E c \in 0 .. route.out - 1 : Feeding(c) = i
<1> DEFINE p == <<"L", "R">>
<1>1. p \in Seq(Mnemonics) /\ Len(p) = 2 /\ smatrix \in Seq(Mnemonics) /\ route.out \in Nat
  BY OwnNames DEF MatrixInv, RouteInv
<1>2. PICK k \in Nat : k = Len(smatrix)
  BY <1>1, LenProperties
<1>3. i \in 0 .. k - 1 /\ Location(smatrix[i + 1], p) >= 0
  BY <1>2 DEF Mapped
<1>4. PICK c \in -1 .. 1 : c = Location(smatrix[i + 1], p)
  <2> HIDE DEF p
  <2>1. Location(smatrix[i + 1], p) \in -1 .. Len(p) - 1
    BY <1>1, LocationIs
  <2>2. Location(smatrix[i + 1], p) \in -1 .. 1
    BY <1>1, <2>1
  <2>3. QED
    BY <2>2
<1>5. c \in 0 .. 1 /\ c # -1 /\ c < 2
  BY <1>3, <1>4
<1>6. smatrix[i + 1] # "X" /\ p[c + 1] = smatrix[i + 1]
  BY <1>1, <1>4, <1>5, LocationIs
<1>7. smatrix # NoMatrix
  BY <1>2, <1>3 DEF NoMatrix
<1>8. c \in Nat /\ c \in 0 .. route.out - 1
  BY <1>1, <1>5 DEF Dropped
<1>9. Wanted(c) = FindChannel(smatrix[i + 1], smatrix)
  <2>1. Source = p
    BY DEF Source
  <2> HIDE DEF p
  <2>2. QED
    BY <1>1, <1>5, <1>6, <1>7, <1>8, <2>1, WantedIs
<1>10. FirstAt(smatrix[i + 1], smatrix) = (i + 1) - 1
  <2>1. i + 1 \in 1 .. k
    BY <1>2, <1>3
  <2>2. QED
    BY <1>1, <1>2, <1>6, <2>1, FirstAtOnly
<1>11. FindChannel(smatrix[i + 1], smatrix) = i
  BY <1>3, <1>6, <1>10 DEF FindChannel
<1>12. QED
  BY <1>8, <1>9, <1>11, FedAsWanted

\* Where every input channel has a place, the map by input channel is one by
\* channel of the stream; and the locations of pulse's own matrix are the
\* positions of its server.
LEMMA PulseNames ==
  ASSUME WellFormed, MatrixInv, RouteInv, setup.premap = PulseMatrix,
         \A i \in DOMAIN route.map : route.map[i] # -1
  PROVE  PulseNamesEverySlot
<1> SUFFICES ASSUME stage = "ready", setup.kind = "pulse", route.map # NoMap,
                    NEW c \in 0 .. route.out - 1
             PROVE  ServerName(c) = StreamNames[c + 1]
  BY DEF PulseNamesEverySlot
<1>0. setup.order = "PERMUTABLE" /\ ~Dropped
  BY DEF MatrixInv, Setups, OrdersOf, Dropped
<1> DEFINE m == smatrix
           p == setup.premap
           U == {i \in 1 .. Len(m) : Location(m[i], p) >= 0}
<1>1. BothKnown
  BY DEF RouteInv
<1>2. route.map = InputMap(setup.channels, m, p) /\ route.out = Route.out /\ Route.mask # {}
  BY <1>1 DEF RouteInv
<1>3. p \in Seq(Mnemonics) /\ m \in Seq(Mnemonics) /\ Len(p) <= WordBits
  BY <1>1, Known DEF BothKnown
<1>4. PICK n \in Nat \ {0} : n = setup.channels
  BY <1>1, MapTyped
<1>5. PICK k \in Nat : k = Len(m) /\ k <= n
  BY <1>3, <1>4, LenProperties DEF MatrixInv
<1>6. \A i \in 0 .. n - 1 : i < k /\ Location(m[i + 1], p) # -1 /\ route.map[i] = Location(m[i + 1], p)
  BY <1>2, <1>4, <1>5 DEF InputMap
<1>7. k = n
  <2>1. n - 1 \in 0 .. n - 1
    BY <1>4
  <2>2. n - 1 < k
    BY <1>6, <2>1
  <2>3. QED
    BY <1>4, <1>5, <2>2
<1>8. U = 1 .. n
  <2>1. ASSUME NEW i \in 1 .. n PROVE Location(m[i], p) >= 0
    <3>1. i - 1 \in 0 .. n - 1 /\ (i - 1) + 1 = i
      BY <1>4
    <3>2. Location(m[i], p) # -1
      BY <1>6, <3>1
    <3>3. QED
      BY <1>3, <3>2, LocationIs
  <2>2. QED
    BY <1>5, <1>7, <2>1
<1>9. Cardinality(U) = n
  <2>1. Cardinality(1 .. n) = n
    BY <1>4, FS_Interval
  <2>2. QED
    BY <1>8, <2>1
<1>10. Cardinality(ChannelMask(m, p)) <= n /\ Cardinality(ChannelMask(m, p)) \in Nat
  BY <1>3, <1>9, TokenCount, MaskCount
<1>11. Route.out = Cardinality(ChannelMask(m, p)) /\ Route.inter = Kept(m, U)
  BY <1>0 DEF Route, Reconciled, Bits, Intersect
<1>12. c \in 0 .. n - 1
  BY <1>2, <1>4, <1>10, <1>11
<1>13. StreamNames = Kept(m, U)
  BY <1>0, <1>1, <1>11, StreamNamed DEF Source, BothKnown
<1>14. Kept(m, U)[c + 1] = m[c + 1]
  <2>1. c + 1 \in U /\ U \in SUBSET (1 .. Len(m))
    BY <1>8, <1>12
  <2>2. Kept(m, U)[Cardinality(Below(U, c + 1))] = m[c + 1]
    BY <1>3, <2>1, KeptIs
  <2>3. Below(U, c + 1) = 1 .. c + 1
    BY <1>8, <1>12, <1>4 DEF Below
  <2>4. Cardinality(1 .. c + 1) = c + 1
    <3>1. PICK e \in Nat : e = c + 1
      BY <1>12
    <3>2. Cardinality(1 .. e) = e
      BY FS_Interval
    <3>3. QED
      BY <3>1, <3>2
  <2>5. QED
    BY <2>2, <2>3, <2>4
<1>15. PICK x : x = route.map[c] /\ x = Location(m[c + 1], p) /\ x # -1
  BY <1>6, <1>12
<1>16. x \in 0 .. Len(p) - 1 /\ p[x + 1] = m[c + 1]
  <2>1. x \in -1 .. Len(p) - 1 /\ p[x + 1] = m[c + 1]
    BY <1>3, <1>15, LocationIs
  <2>2. QED
    BY <1>15, <2>1
<1>17. x + 1 \in DOMAIN p
  BY <1>3, <1>16
<1>18. QED
  BY <1>13, <1>14, <1>15, <1>16, <1>17 DEF ServerName

\* The channels that _open_device permutes are those with the same names, for
\* every input matrix, every output matrix that names no location twice and has
\* a bit for each, every order of the output and each of the ways in which a
\* driver's open sets, keeps or drops inter_matrix.
THEOREM SlotsCarried == ASSUME WellFormed PROVE RouteSpec => []SlotsCarryTheirSpeaker
<1>1. RouteIInv => SlotsCarryTheirSpeaker
  <2> SUFFICES ASSUME RouteIInv, stage = "ready" PROVE SlotsCarryTheirSpeaker
    BY DEF SlotsCarryTheirSpeaker
  <2>1. MatrixInv /\ RouteInv
    BY DEF RouteIInv
  <2>2. \A c \in 0 .. route.out - 1 : Feeding(c) = Wanted(c)
    BY <2>1, FedAsWanted
  <2>3. AllHeard(IF Dropped THEN <<"L", "R">> ELSE setup.premap)
    <3>1. CASE Dropped
      BY <2>1, <3>1, LeftAndRight DEF AllHeard
    <3>2. CASE ~Dropped
      BY <2>1, <3>2, NoneLeftOut DEF AllHeard
    <3>3. QED
      BY <3>1, <3>2
  <2>4. setup.premap = PulseMatrix /\ (\A i \in DOMAIN route.map : route.map[i] # -1) =>
          PulseNamesEverySlot
    BY <2>1, PulseNames
  <2>5. QED
    BY <2>2, <2>3, <2>4 DEF SlotsCarryTheirSpeaker
<1>2. QED
  BY <1>1, RouteStays, PTL
-----------------------------------------------------------------------------
(* The samples. *)

\* Byte p, from 0, of the buffer the driver should get from call n.
Right(n, p) ==
  LET frame == route.out * setup.width
      c == (p % frame) \div setup.width
      b == p % setup.width
  IN IF Wanted(c) = -1 THEN Silence(setup.width)
     ELSE Byte(n, p \div frame, Wanted(c),
               IF setup.driver = "little" THEN b ELSE setup.width - 1 - b)

\* It depends on nothing but the route.
LEMMA RightStays ==
  ASSUME setup' = setup, smatrix' = smatrix, route' = route
  PROVE  \A n, p : Right(n, p)' = Right(n, p)
<1>1. \A c : Wanted(c)' = Wanted(c)
  BY DEF Wanted, StreamNames, Dropped
<1>2. QED
  BY <1>1 DEF Right

\* Where a byte of the stream is.
LEMMA Place ==
  ASSUME MatrixInv, RouteInv, stage = "ready", NEW p \in Nat
  PROVE  /\ (p % (route.out * setup.width)) \div setup.width \in 0 .. route.out - 1
         /\ p \div (route.out * setup.width) \in Nat
         /\ p % setup.width \in 0 .. setup.width - 1
         /\ route.out \in Nat \ {0} /\ setup.width \in Nat \ {0} /\ setup.channels \in Nat \ {0}
<1>1. route.out \in Nat \ {0} /\ setup.width \in 1 .. 4 /\ setup.channels \in Nat \ {0}
  BY StreamIs
<1>2. PICK o \in Nat \ {0}, w \in Nat \ {0} : o = route.out /\ w = setup.width
  BY <1>1
<1>3. PICK y \in Nat \ {0} : y = o * w
  BY <1>2, Products
<1>4. p % y \in 0 .. y - 1 /\ p \div y \in Nat
  <2>1. y \in Nat \ {0} /\ p \in Int /\ p >= 0
    BY <1>3
  <2>2. p % y \in 0 .. y - 1
    BY <2>1, Quotients
  <2>3. p \div y \in Nat
    BY <2>1, Quotients
  <2>4. QED
    BY <2>2, <2>3
<1>5. p % w \in 0 .. w - 1
  BY <1>2, Quotients
<1>6. (p % y) \div w \in 0 .. o - 1
  <2>1. PICK r \in 0 .. o * w - 1 : r = p % y
    BY <1>3, <1>4
  <2>2. r \div w \in 0 .. o - 1
    BY <1>2, <2>1, ChannelOf
  <2>3. QED
    BY <2>1, <2>2
<1>7. QED
  BY <1>1, <1>2, <1>3, <1>4, <1>5, <1>6

\* A channel of the stream is fed by one of the input or by none.
LEMMA FeedingIs ==
  ASSUME MatrixInv, RouteInv, stage = "ready", NEW c \in 0 .. route.out - 1, Feeding(c) # -1
  PROVE  Feeding(c) \in 0 .. setup.channels - 1
<1>1. route.out \in Nat \ {0} /\ setup.channels \in Nat \ {0}
  BY StreamIs
<1>2. CASE smatrix = NoMatrix
  <2>1. route.out = setup.channels /\ route.permute = NoPermute
    BY <1>2 DEF RouteInv, BothKnown
  <2>2. QED
    BY <2>1 DEF Feeding
<1>3. CASE smatrix # NoMatrix
  <2>1. Source \in Seq(Mnemonics)
    BY <1>3, SourceTyped
  <2>2. InterPermute(route.out, Source, setup.channels, smatrix)
          \in [0 .. route.out - 1 -> -1 .. setup.channels - 1]
    BY <1>1, <2>1, PermuteTyped
  <2>3. Feeding(c) \in -1 .. setup.channels - 1
    BY <1>3, <2>2 DEF RouteInv
  <2>4. QED
    BY <1>1, <2>3
<1>4. QED
  BY <1>2, <1>3

\* The byte order of the driver is that of the caller, or the bytes of each
\* sample are turned round.
LEMMA OrderIs ==
  ASSUME MatrixInv, NEW w \in Nat \ {0}, w = setup.width, NEW b \in 0 .. w - 1
  PROVE  LET d == IF Swapped THEN w - 1 - b ELSE b
         IN  /\ d \in 0 .. w - 1
             /\ (IF setup.client = "little" THEN d ELSE w - 1 - d)
                  = (IF setup.driver = "little" THEN b ELSE w - 1 - b)
<1>1. setup.client \in {"little", "big"} /\ setup.driver \in {"little", "big"}
  BY DEF MatrixInv, Setups
<1>2. w - 1 - (w - 1 - b) = b /\ w - 1 - b \in 0 .. w - 1
  OBVIOUS
<1>3. CASE Swapped
  <2>1. setup.client # setup.driver
    BY <1>3 DEF Swapped
  <2>2. QED
    BY <1>1, <1>2, <1>3, <2>1
<1>4. CASE ~Swapped /\ setup.client = setup.driver
  BY <1>4
<1>5. CASE ~Swapped /\ setup.client # setup.driver
  <2>1. w = 1 /\ b = 0
    BY <1>5 DEF Swapped
  <2>2. QED
    BY <1>5, <2>1
<1>6. QED
  BY <1>3, <1>4, <1>5

\* Without a swap buffer the bytes of the caller are the ones to play.
LEMMA DirectByte ==
  ASSUME WellFormed, MatrixInv, RouteInv, stage = "ready", ~NeedsSwap, NEW n, NEW p \in Nat
  PROVE  SourceByte(n, p) = Right(n, p)
<1>1. setup.channels = route.out /\ route.permute = NoPermute /\ ~Swapped
  BY DEF NeedsSwap
<1>2. PICK w \in Nat \ {0}, o \in Nat \ {0} : w = setup.width /\ o = route.out
  BY Place
<1>3. PICK b \in 0 .. w - 1 : b = p % w
  BY <1>2, Place
<1>4. PICK c \in 0 .. o - 1 : c = (p % (o * w)) \div w
  BY <1>2, Place
<1>5. Wanted(c) = c
  BY <1>1, <1>2, <1>4, FedAsWanted DEF Feeding
<1>6. c # -1
  BY <1>2, <1>4
<1>7. (IF setup.client = "little" THEN b ELSE w - 1 - b)
        = (IF setup.driver = "little" THEN b ELSE w - 1 - b)
  BY <1>1, <1>2, <1>3, OrderIs
<1>8. SourceByte(n, p) = Byte(n, p \div (o * w), c, IF setup.client = "little" THEN b ELSE w - 1 - b)
  BY <1>1, <1>2, <1>3, <1>4 DEF SourceByte
<1>9. Right(n, p) = Byte(n, p \div (o * w), c, IF setup.driver = "little" THEN b ELSE w - 1 - b)
  BY <1>2, <1>3, <1>4, <1>5, <1>6 DEF Right
<1>10. QED
  BY <1>7, <1>8, <1>9

\* With one, the bytes put there are.
LEMMA ConvertedByte ==
  ASSUME WellFormed, MatrixInv, RouteInv, stage = "ready", NEW n, NEW outBytes \in Nat,
         NEW buffer \in Seq(Samples), outBytes <= Len(buffer), NEW p \in Nat, p < outBytes
  PROVE  Converted(buffer, n, outBytes)[p + 1] = Right(n, p)
<1>1. PICK l \in Nat : l = Len(buffer)
  BY LenProperties
<1>2. PICK w \in Nat \ {0}, o \in Nat \ {0}, i \in Nat \ {0} :
        w = setup.width /\ o = route.out /\ i = setup.channels
  BY Place
<1>3. PICK y \in Nat \ {0} : y = o * w /\ y = w * o
  BY <1>2, Products
<1>4. PICK b \in 0 .. w - 1 : b = p % w
  BY <1>2, Place
<1>5. PICK c \in 0 .. o - 1 : c = (p % y) \div w
  BY <1>2, <1>3, Place
<1>6. PICK k \in Nat : k = p \div y
  BY <1>2, <1>3, Place
<1>7. PICK f : f = Feeding(c) /\ f = Wanted(c)
  BY <1>2, <1>5, FedAsWanted
<1>8. p + 1 \in 1 .. l /\ (p + 1) - 1 = p /\ ~(p - b >= outBytes)
  BY <1>1, <1>4
<1>9. Converted(buffer, n, outBytes)[p + 1]
        = IF f = -1 THEN Silence(w)
          ELSE SourceByte(n, (f * w + k * (w * i)) + (IF Swapped THEN w - 1 - b ELSE b))
  <2> DEFINE At(q) == LET a == q - 1
                          e == a % setup.width
                          h == (a % (setup.width * route.out)) \div setup.width
                          g == a \div (setup.width * route.out)
                          from == Feeding(h) * setup.width + g * InputStride
                      IN IF a - e >= outBytes THEN buffer[q]
                         ELSE IF Feeding(h) = -1 THEN Silent(buffer, a)
                         ELSE SourceByte(n, from + (IF Swapped THEN setup.width - 1 - e ELSE e))
  <2>1. Converted(buffer, n, outBytes) = [q \in 1 .. l |-> At(q)]
    BY <1>1 DEF Converted
  <2>2. Converted(buffer, n, outBytes)[p + 1] = At(p + 1)
    BY <1>8, <2>1
  <2>3. At(p + 1) = IF p - b >= outBytes THEN buffer[p + 1]
                    ELSE IF f = -1 THEN Silent(buffer, p)
                    ELSE SourceByte(n, (f * w + k * (w * i)) + (IF Swapped THEN w - 1 - b ELSE b))
    BY <1>2, <1>3, <1>4, <1>5, <1>6, <1>7, <1>8 DEF InputStride
  <2>4. Silent(buffer, p) = Silence(w)
    BY <1>2 DEF Silent
  <2> HIDE DEF At
  <2>5. QED
    BY <1>8, <2>2, <2>3, <2>4
<1>10. Right(n, p) = IF f = -1 THEN Silence(w)
                     ELSE Byte(n, k, f, IF setup.driver = "little" THEN b ELSE w - 1 - b)
  BY <1>2, <1>3, <1>4, <1>5, <1>6, <1>7 DEF Right
<1>11. CASE f = -1
  BY <1>9, <1>10, <1>11
<1>12. CASE f # -1
  <2>1. PICK g \in 0 .. i - 1 : g = f
    BY <1>2, <1>5, <1>7, <1>12, FeedingIs
  <2>2. PICK d \in 0 .. w - 1 : /\ d = IF Swapped THEN w - 1 - b ELSE b
                                /\ (IF setup.client = "little" THEN d ELSE w - 1 - d)
                                     = (IF setup.driver = "little" THEN b ELSE w - 1 - b)
    BY <1>2, <1>4, OrderIs
  <2>3. PICK x \in Nat : /\ x = (g * w + k * (w * i)) + d
                         /\ x \div (i * w) = k /\ (x % (i * w)) \div w = g /\ x % w = d
    <3>1. w \in Nat \ {0} /\ i \in Nat \ {0} /\ k \in Nat /\ g \in 0 .. i - 1 /\ d \in 0 .. w - 1
      BY <1>2, <1>6, <2>1, <2>2
    <3>2. PICK x : x = (g * w + k * (w * i)) + d
      OBVIOUS
    <3>3. ByteAt(x, i, w, k, g, d)
      BY <3>2 DEF ByteAt
    <3>4. Found(x, i, w, k, g, d)
      BY <3>1, <3>3, Landing
    <3>5. QED
      BY <3>2, <3>4, Zenon DEF Found
  <2>4. SourceByte(n, x) = Byte(n, k, g, IF setup.client = "little" THEN d ELSE w - 1 - d)
    BY <1>2, <2>3 DEF SourceByte
  <2>5. Converted(buffer, n, outBytes)[p + 1] = SourceByte(n, x)
    BY <1>9, <1>12, <2>1, <2>2, <2>3
  <2>6. QED
    BY <1>10, <1>12, <2>1, <2>2, <2>4, <2>5
<1>13. QED
  BY <1>11, <1>12

\* As many bytes as the frames have in the stream.
LEMMA LengthIs ==
  ASSUME WellFormed, FitsWord, MatrixInv, RouteInv, stage = "ready", NEW frames \in Buffers
  PROVE  /\ OutBytes(frames * setup.channels * setup.width) = frames * (route.out * setup.width)
         /\ frames * (route.out * setup.width) \in Nat
<1>1. PICK w \in Nat \ {0}, o \in Nat \ {0}, c \in Nat \ {0} :
        w = setup.width /\ o = route.out /\ c = setup.channels
  <2>1. setup.width \in Nat \ {0} /\ route.out \in Nat \ {0} /\ setup.channels \in Nat \ {0}
    <3>1. setup.width \in 1 .. 4 /\ route.out \in Nat \ {0} /\ setup.channels \in Nat \ {0}
      BY StreamIs
    <3>2. QED
      BY <3>1
  <2>2. QED
    BY <2>1
<1>2. frames \in Nat /\ Wrap \in Nat \ {0}
  BY RouteAssumption
<1>3. c \in ChannelCounts /\ w \in Widths
  BY <1>1 DEF MatrixInv, Setups
<1>4. o <= c \/ \E p \in Premaps : o <= Len(p)
  <2>1. CASE BothKnown
    <3>1. setup.premap \in Premaps /\ route.out = Route.out /\ Route.mask # {}
      BY <2>1, StreamIs DEF MatrixInv, Setups
    <3>2. Route.out <= Len(setup.premap)
      BY <2>1, <3>1, RoutePlaces
    <3>3. QED
      BY <1>1, <3>1, <3>2
  <2>2. CASE ~BothKnown
    BY <1>1, <2>2, StreamIs
  <2>3. QED
    BY <2>1, <2>2
<1>5. frames * c * w * o < Wrap
  BY <1>1, <1>3, <1>4 DEF FitsWord
<1>6. ((frames * c * w * o) % Wrap) \div c = frames * (o * w)
  BY <1>1, <1>2, <1>5, OutIs
<1>7. o * w \in Nat
  BY <1>1, Products
<1>8. frames * (o * w) \in Nat
  BY <1>2, <1>7, Products
<1>9. QED
  BY <1>1, <1>6, <1>8 DEF OutBytes
\* What the driver was handed by a call.
Handed(h, n, frames) ==
  /\ Len(h) = frames * (route.out * setup.width)
  /\ \A p \in 0 .. Len(h) - 1 : h[p + 1] = Right(n, p)

\* By a call that needs no conversion.
LEMMA HandedDirect ==
  ASSUME WellFormed, MatrixInv, RouteInv, SwapInv, NEW frames \in Buffers, PlayDirect(frames)
  PROVE  Handed(handed', played.call + 1, frames)
<1>1. stage = "ready" /\ ~NeedsSwap
  BY DEF PlayDirect, SwapInv
<1>2. route.out = setup.channels
  BY <1>1 DEF NeedsSwap
<1>3. PICK z \in Nat : z = frames * setup.channels * setup.width
                       /\ z = frames * (route.out * setup.width)
  <2>1. PICK o \in Nat, w \in Nat, f \in Nat : o = route.out /\ w = setup.width /\ f = frames
    <3>1. route.out \in Nat /\ setup.width \in Nat /\ frames \in Nat
      BY <1>1, StreamIs, RouteAssumption
    <3>2. QED
      BY <3>1
  <2>2. f * o * w \in Nat /\ f * o * w = f * (o * w)
    BY <2>1, Products
  <2>3. QED
    BY <1>2, <2>1, <2>2
<1>4. PICK n : n = played.call + 1
  OBVIOUS
<1>5. handed' = [q \in 1 .. z |-> SourceByte(n, q - 1)]
  BY <1>3, <1>4 DEF PlayDirect
<1>6. ASSUME NEW p \in 0 .. z - 1 PROVE handed'[p + 1] = Right(n, p)
  <2>1. p \in Nat /\ p + 1 \in 1 .. z /\ (p + 1) - 1 = p
    BY <1>3
  <2>2. SourceByte(n, p) = Right(n, p)
    BY <1>1, <2>1, DirectByte
  <2>3. QED
    BY <1>5, <2>1, <2>2
<1>7. Len(handed') = z
  BY <1>3, <1>5
<1>8. QED
  BY <1>3, <1>4, <1>6, <1>7 DEF Handed

\* By one that converts.
LEMMA HandedConverted ==
  ASSUME WellFormed, FitsWord, MatrixInv, RouteInv, SwapInv,
         NEW frames \in Buffers, PlayConverted(frames)
  PROVE  Handed(handed', played.call + 1, frames)
<1>1. stage = "ready"
  BY DEF PlayConverted
<1>2. PICK out \in Nat : out = OutBytes(frames * setup.channels * setup.width)
                         /\ out = frames * (route.out * setup.width)
  BY <1>1, LengthIs
<1>3. PICK n \in Nat : n = played.call + 1
  BY DEF SwapInv
<1>4. PICK l \in Nat : l = Len(swap) /\ swap \in Seq(Samples)
  BY LenProperties DEF SwapInv
<1>5. PICK size \in Nat : size = (IF out > l THEN out ELSE l) /\ out <= size
  BY <1>2, <1>4
<1>6. PICK buffer \in Seq(Samples) : buffer = Grown(swap, size) /\ Len(buffer) = size
  BY <1>4, <1>5, GrownIs
<1>7. swap' = Converted(buffer, n, out) /\ handed' = SubSeq(swap', 1, out)
  BY <1>2, <1>3, <1>4, <1>5, <1>6 DEF PlayConverted
<1>8. PICK s \in Seq(Samples) : s = swap' /\ Len(s) = size /\ s = Converted(buffer, n, out)
  BY <1>1, <1>2, <1>3, <1>6, <1>7, ConvertedIs
<1>9. Len(SubSeq(s, 1, out)) = out /\ \A i \in 1 .. out : SubSeq(s, 1, out)[i] = s[i]
  BY <1>2, <1>5, <1>8, SubSeqProperties
<1>10. ASSUME NEW p \in 0 .. out - 1 PROVE SubSeq(s, 1, out)[p + 1] = Right(n, p)
  <2>1. p \in Nat /\ p < out /\ p + 1 \in 1 .. out
    BY <1>2
  <2>2. Converted(buffer, n, out)[p + 1] = Right(n, p)
    BY <1>1, <1>2, <1>5, <1>6, <2>1, ConvertedByte
  <2>3. QED
    BY <1>8, <1>9, <2>1, <2>2
<1>11. QED
  BY <1>2, <1>3, <1>7, <1>8, <1>9, <1>10 DEF Handed

\* Whatever is played, the driver gets the samples of this call in its own
\* channel and byte order, or silence: for every width of at most four bytes,
\* every number of channels and of frames whose bytes an unsigned int counts.
THEOREM SamplesArrive ==
  ASSUME WellFormed, FitsWord PROVE RouteSpec => []DriverGetsTheSamples
<1> DEFINE Arrived == stage = "ready" /\ played.frames > 0 => Handed(handed, played.call, played.frames)
<1>1. Arrived <=> DriverGetsTheSamples
  BY Zenon DEF DriverGetsTheSamples, Handed, Right
<1>2. RouteInit => Arrived
  BY DEF RouteInit
<1>3. ASSUME RouteIInv, Arrived, [RouteNext]_routeVars
      PROVE  Arrived'
  <2>1. MatrixInv /\ RouteInv /\ SwapInv
    BY <1>3 DEF RouteIInv
  <2>2. CASE Reconcile \/ NoReconcile \/ DriverOpen \/ Permute
    BY <2>2 DEF Reconcile, NoReconcile, DriverOpen, Permute
  <2>3. CASE CreateSwap
    <3>1. played' = played /\ stage = "swap"
      BY <2>3 DEF CreateSwap
    <3>2. played'.frames = 0
      BY <2>1, <3>1 DEF SwapInv
    <3>3. QED
      BY <3>2
  <2>4. ASSUME setup' = setup, smatrix' = smatrix, route' = route, NEW n, NEW frames,
               Handed(handed', n, frames), played' = [call |-> n, frames |-> frames]
        PROVE  Arrived'
    <3>1. \A m, p : Right(m, p)' = Right(m, p)
      BY <2>4, RightStays
    <3>2. /\ Len(handed') = frames * (route'.out * setup'.width)
          /\ \A p \in 0 .. Len(handed') - 1 : handed'[p + 1] = Right(n, p)'
      BY <2>4, <3>1 DEF Handed
    <3>3. played'.call = n /\ played'.frames = frames
      BY <2>4
    <3>4. Handed(handed, played.call, played.frames)'
      BY <3>1, <3>2, <3>3 DEF Handed
    <3>5. QED
      BY <3>4
  <2>5. ASSUME NEW frames \in Buffers, PlayDirect(frames) PROVE Arrived'
    <3>1. Handed(handed', played.call + 1, frames)
      BY <1>3, <2>1, <2>5, HandedDirect
    <3>2. QED
      BY <2>4, <2>5, <3>1 DEF PlayDirect
  <2>6. ASSUME NEW frames \in Buffers, PlayConverted(frames) PROVE Arrived'
    <3>1. Handed(handed', played.call + 1, frames)
      BY <1>3, <2>1, <2>6, HandedConverted
    <3>2. QED
      BY <2>4, <2>6, <3>1 DEF PlayConverted
  <2>7. ASSUME NEW frames \in Buffers, PlayRefused(frames) PROVE Arrived'
    <3>1. played'.frames = 0
      BY <2>7 DEF PlayRefused
    <3>2. QED
      BY <3>1
  <2>8. CASE UNCHANGED routeVars
    <3>1. \A m, p : Right(m, p)' = Right(m, p)
      BY <2>8, RightStays DEF routeVars
    <3>2. QED
      BY <1>3, <2>8, <3>1 DEF routeVars, Handed
  <2>9. QED
    BY <1>3, <2>2, <2>3, <2>5, <2>6, <2>7, <2>8 DEF RouteNext, Play
<1>4. RouteIInv /\ Arrived /\ [RouteNext]_routeVars => Arrived'
  BY <1>3
<1> HIDE DEF Arrived
<1>5. QED
  BY <1>1, <1>2, <1>4, RouteStays, PTL DEF RouteSpec
=============================================================================
