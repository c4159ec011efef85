---------------------------- MODULE DriverTable -----------------------------
(***************************************************************************)
(* The driver list of src/src/audio_out.c and the configuration files of   *)
(* src/src/config.c: ao_initialize, ao_shutdown, ao_append_global_option   *)
(* and the calls that ask for drivers.  A driver id is a position in the   *)
(* list, counted from 0.  ao_initialize is split where an allocation, a    *)
(* plugin or a file may be missing; the caller's thread runs it alone.     *)
(***************************************************************************)
EXTENDS Integers, Sequences, FiniteSets, SequencesExt, Positions

CONSTANTS
  Drivers,      \* ao_infos, named by their short_name
  Static,       \* the static_drivers table, a sequence of Drivers
  Files,        \* shared libraries in the plugin directory
  Holds,        \* the driver in each file, or Broken when a symbol is missing
  Broken,
  Type,         \* ao_info.type of each driver: "live" or "file"
  Priority,     \* ao_info.priority of each driver, 0..65535
  LittleEndian, \* byte order of an int
  SystemFiles,  \* contents /etc/libao.conf may have: sequences of lines
  UserFiles,    \* contents ~/.libao may have
  Keys,         \* option keys that an application appends
  NoFile, NoName, NoTable,
  MaxOptions,   \* bound on ao_global_options
  MaxInits      \* bound on calls of ao_initialize

\* A line of a configuration file: default_driver=<value> or an option key.
Line == [key : {"default_driver"} \cup Keys, value : Drivers \cup {NoName}]

ASSUME TableAssumption ==
  /\ Static \in Seq(Drivers) /\ Static # <<>>
  /\ Broken \notin Drivers /\ NoName \notin Drivers /\ NoFile \notin Files
  /\ Holds \in [Files -> Drivers \cup {Broken}]
  /\ Type \in [Drivers -> {"live", "file"}]
  /\ Priority \in [Drivers -> 0 .. 256 * 256 - 1]
  /\ LittleEndian \in BOOLEAN /\ MaxOptions \in Nat /\ MaxInits \in Nat
  /\ SystemFiles \subseteq Seq(Line) /\ UserFiles \subseteq Seq(Line)

VARIABLES
  pc,       \* "idle", a stage of ao_initialize, or "crashed"
  list,     \* driver_head: entries with a driver and the file it came from
  loaded,   \* dlopen handles of each file that were not closed
  unread,   \* files readdir has not returned yet
  table,    \* info_table, NoTable when NULL
  count,    \* driver_count
  default,  \* config.default_driver, NoName when NULL
  options,  \* ao_global_options: keys
  conf,     \* the two configuration files on disk
  asked,    \* the last answer of ao_default_driver_id
  session,  \* history: initialisations since the configuration was cleared,
            \* the files they found, options the application appended before
            \* and after
  starts    \* calls of ao_initialize so far

vars == <<pc, list, loaded, unread, table, count, default, options, conf, asked,
          session, starts>>

Entry(driver, file) == [driver |-> driver, file |-> file]
-----------------------------------------------------------------------------
(* Asking for drivers. *)

\* ao_driver_id: the first driver of that name, or -1.
DriverId(name) ==
  LET at == {i \in DOMAIN list : list[i].driver = name}
  IN IF at = {} THEN -1 ELSE (CHOOSE i \in at : \A j \in at : i <= j) - 1

\* _get_driver: does id name a driver?
IsDriver(id) == id \in 0 .. Len(list) - 1

\* ao_driver_info
DriverInfo(id) == IF IsDriver(id) THEN list[id + 1].driver ELSE NoName

\* The driver that is tried for a default: live, of positive priority, and its
\* test() succeeds.
Usable(driver, works) ==
  Type[driver] = "live" /\ Priority[driver] > 0 /\ driver \in works

\* _find_default_driver_id: the configured driver, or the first usable one.
DefaultId(works) ==
  IF default # NoName /\ DriverId(default) >= 0 THEN DriverId(default)
  ELSE LET usable == {i \in DOMAIN list : Usable(list[i].driver, works)}
       IN IF usable = {} THEN -1
          ELSE (CHOOSE i \in usable : \A j \in usable : i <= j) - 1
-----------------------------------------------------------------------------
NoAnswer == [id |-> -2, works |-> {}]
NewSession == [inits |-> 0, conf |-> <<>>, before |-> <<>>, after |-> <<>>]

Init ==
  /\ pc = "idle" /\ list = <<>> /\ loaded = [f \in Files |-> 0] /\ unread = {}
  /\ table = NoTable /\ count = 0 /\ default = NoName /\ options = <<>>
  /\ conf \in [system : SystemFiles, user : UserFiles]
  /\ asked = NoAnswer /\ session = NewSession /\ starts = 0

\* A configuration file is edited while no call runs.
EditConfig ==
  /\ pc = "idle" /\ starts < MaxInits
  /\ conf' \in [system : SystemFiles, user : UserFiles] /\ asked' = NoAnswer
  /\ UNCHANGED <<pc, list, loaded, unread, table, count, default, options, session,
                 starts>>

\* ao_append_global_option
AppendGlobalOption(key) ==
  /\ pc = "idle" /\ Len(options) < MaxOptions
  /\ options' = Append(options, key)
  /\ session' = IF session.inits = 0
                THEN [session EXCEPT !.before = Append(@, key)]
                ELSE [session EXCEPT !.after = Append(@, key)]
  /\ asked' = NoAnswer
  /\ UNCHANGED <<pc, list, loaded, unread, table, count, default, conf, starts>>

\* ao_default_driver_id; test() opens nothing and may come out either way.
AoDefaultDriverId(works) ==
  /\ pc = "idle"
  /\ asked' = [id |-> DefaultId(works), works |-> works]
  /\ UNCHANGED <<pc, list, loaded, unread, table, count, default, options, conf,
                 session, starts>>
-----------------------------------------------------------------------------
(* ao_initialize. *)

AoInitialize ==
  /\ pc = "idle" /\ starts < MaxInits /\ starts' = starts + 1
  /\ pc' = "system" /\ asked' = NoAnswer
  /\ session' = [session EXCEPT !.inits = @ + 1, !.conf = conf]
  /\ UNCHANGED <<list, loaded, unread, table, count, default, options, conf>>

IsDefault(line) == line.key = "default_driver"

\* The keys of the lines that are options.
LineKeys(lines) ==
  LET kept == {i \in DOMAIN lines : ~IsDefault(lines[i])}
  IN [n \in 1 .. Cardinality(kept) |-> lines[Nth(kept, n)].key]

DefaultAfter(lines, before) ==
  LET named == {i \in DOMAIN lines : IsDefault(lines[i])}
  IN IF named = {} THEN before ELSE lines[Max(named)].value

\* ao_read_config_file on one of the two files.
ReadFile(from, lines, to) ==
  /\ pc = from /\ pc' = to
  /\ default' = DefaultAfter(lines, default)
  /\ options' = options \o LineKeys(lines)
  /\ UNCHANGED <<list, loaded, unread, table, count, conf, asked, session, starts>>

\* A driver list left by an earlier ao_initialize is used again.
AfterConfig == IF list = <<>> THEN "static" ELSE "table"

ReadConfigFiles == \/ ReadFile("system", conf.system, "user")
                   \/ ReadFile("user", conf.user, AfterConfig)

\* _load_static_drivers: as many nodes as calloc() gives.
LoadStaticDrivers ==
  /\ pc = "static" /\ pc' = "plugins"
  /\ \E n \in 0 .. Len(Static) :
       list' = [i \in 1 .. n |-> Entry(Static[i], NoFile)]
  /\ unread' = Files
  /\ UNCHANGED <<loaded, table, count, default, options, conf, asked, session,
                 starts>>

\* _append_dynamic_drivers, one directory entry: it is no library, the plugin
\* cannot be opened, lacks a symbol, finds no memory (its handle stays open), or
\* is appended.  With no node to append to, the program crashes.
LoadPlugin(f) ==
  /\ pc = "plugins" /\ f \in unread
  /\ unread' = unread \ {f}
  /\ \/ UNCHANGED <<pc, list, loaded>>
     \/ loaded' = [loaded EXCEPT ![f] = @ + 1] /\ UNCHANGED <<pc, list>>
     \/ /\ Holds[f] # Broken
        /\ loaded' = [loaded EXCEPT ![f] = @ + 1]
        /\ IF list = <<>> THEN pc' = "crashed" /\ UNCHANGED list
           ELSE list' = Append(list, Entry(Holds[f], f)) /\ UNCHANGED pc
  /\ UNCHANGED <<table, count, default, options, conf, asked, session, starts>>

PluginsLoaded ==
  /\ pc = "plugins" /\ unread = {}
  /\ pc' = "table"
  /\ UNCHANGED <<list, loaded, unread, table, count, default, options, conf,
                 asked, session, starts>>

\* The bytes of a priority in memory, as memcmp() sees them.
Bytes(p) == IF LittleEndian THEN <<p % 256, p \div 256>> ELSE <<p \div 256, p % 256>>

\* Seeded fault: the comparison has its arguments the other way round.
FaultComesFirst(d, e) ==
  LET a == Bytes(Priority[e]) b == Bytes(Priority[d])
  IN a[1] > b[1] \/ (a[1] = b[1] /\ a[2] > b[2])

\* _compar_driver_priority: d must stand before e.
ComesFirst(d, e) ==
  LET a == Bytes(Priority[d]) b == Bytes(Priority[e])
  IN a[1] > b[1] \/ (a[1] = b[1] /\ a[2] > b[2])

\* What qsort() may make of the list; it need not keep equal drivers in order.
Sortings ==
  {s \in {[i \in DOMAIN list |-> list[p[i]]] : p \in Bijection(DOMAIN list, DOMAIN list)} :
     \A i, j \in DOMAIN list : i < j => ~ComesFirst(s[j].driver, s[i].driver)}

\* Seeded fault: the nodes are not linked again in their new order.
FaultRelinked(sorted) == list

Relinked(sorted) == sorted

\* _make_info_table on a list that is not empty: nothing happens without memory
\* for drivers_table; without memory for the table the list is sorted still.
MakeInfoTable ==
  /\ pc = "table" /\ list # <<>> /\ pc' = "idle"
  /\ \/ table' = NoTable /\ count' = 0 /\ UNCHANGED list
     \/ \E sorted \in Sortings :
          /\ list' = Relinked(sorted) /\ count' = Len(list)
          /\ table' \in {NoTable, [i \in DOMAIN list |-> sorted[i].driver]}
  /\ UNCHANGED <<loaded, unread, default, options, conf, asked, session, starts>>

\* On an empty list calloc(0) may return NULL; if not, what lies behind the
\* block is read and written.
MakeEmptyTable ==
  /\ pc = "table" /\ list = <<>>
  /\ pc' \in {"idle", "crashed"}
  /\ table' = NoTable /\ count' = 0
  /\ UNCHANGED <<list, loaded, unread, default, options, conf, asked, session, starts>>

\* Seeded fault: _clear_config leaves default_driver to the next session.
FaultClearConfig == options' = <<>> /\ UNCHANGED default

\* _clear_config
ClearConfig == options' = <<>> /\ default' = NoName

\* Seeded fault: driver_head keeps pointing to the freed list.
FaultForgetList == UNCHANGED list

ForgetList == list' = <<>>

\* ao_shutdown; it does nothing when there is no list.
AoShutdown ==
  /\ pc = "idle" /\ list # <<>>
  /\ table' = NoTable
  /\ loaded' = [f \in Files |->
       loaded[f] - Cardinality({i \in DOMAIN list : list[i].file = f})]
  /\ ClearConfig /\ ForgetList
  /\ session' = NewSession /\ asked' = NoAnswer
  /\ UNCHANGED <<pc, unread, count, conf, starts>>

Next ==
  \/ EditConfig \/ \E key \in Keys : AppendGlobalOption(key)
  \/ \E works \in SUBSET Drivers : AoDefaultDriverId(works)
  \/ AoInitialize \/ ReadConfigFiles \/ LoadStaticDrivers
  \/ \E f \in Files : LoadPlugin(f)
  \/ PluginsLoaded \/ MakeInfoTable \/ MakeEmptyTable \/ AoShutdown

Spec == Init /\ [][Next]_vars
-----------------------------------------------------------------------------
(* What should hold. *)

TypeOK ==
  /\ pc \in {"idle", "system", "user", "static", "plugins", "table", "crashed"}
  /\ list \in Seq([driver : Drivers, file : Files \cup {NoFile}])
  /\ loaded \in [Files -> Nat] /\ unread \subseteq Files
  /\ table = NoTable \/ table \in Seq(Drivers)
  /\ count \in Nat /\ default \in Drivers \cup {NoName}
  /\ options \in Seq(Keys)
  /\ asked.id \in -2 .. Len(list) - 1 /\ asked.works \subseteq Drivers

Ready == pc = "idle" /\ session.inits > 0

\* An id means the same driver to every call: the table ao_driver_info_list
\* returns, ao_driver_info, ao_driver_id and the list _open_device searches.
IdsAgree ==
  Ready /\ table # NoTable =>
    /\ count = Len(list) /\ Len(table) = count
    /\ \A id \in 0 .. count - 1 :
         table[id + 1] = DriverInfo(id) /\ DriverId(table[id + 1]) = id

\* The driver the configuration files name, the user's over the system's and a
\* later line over an earlier one; NoName if none does.
Named ==
  LET lines == session.conf.system \o session.conf.user
      at    == {i \in DOMAIN lines : IsDefault(lines[i])}
  IN IF at = {} THEN NoName ELSE lines[CHOOSE i \in at : \A j \in at : j <= i].value

\* The default driver is the configured one if it exists, and otherwise a
\* functioning live driver of highest priority; -1 means there is none.
\* (Without memory for drivers_table the list is not sorted; count is 0 then.)
DefaultIsBest ==
  LET usable == {d \in {list[i].driver : i \in DOMAIN list} : Usable(d, asked.works)}
      answer == DriverInfo(asked.id)
  IN Ready /\ session.inits = 1 /\ asked # NoAnswer /\ count > 0 =>
       IF DriverId(Named) >= 0 THEN answer = Named
       ELSE IF asked.id = -1 THEN usable = {}
       ELSE answer \in usable /\ \A d \in usable : Priority[d] <= Priority[answer]

\* After ao_shutdown and ao_initialize the options are those of the files as
\* they are now, in the order that gives the user's file precedence, and the
\* application's: nothing of an earlier session is left.
ConfigurationIsFresh ==
  Ready /\ session.inits = 1 =>
    /\ default = Named
    /\ options = session.before
                   \o LineKeys(session.conf.system \o session.conf.user)
                   \o session.after

\* A plugin in the list stays loaded while it can be called.
ListedPluginsAreLoaded ==
  \A f \in Files :
    Cardinality({i \in DOMAIN list : list[i].file = f}) <= loaded[f]
=============================================================================
