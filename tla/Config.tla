------------------------------- MODULE Config -------------------------------
(***************************************************************************)
(* config.Load and what depends on it: from the lines of the configuration *)
(* file, the environment and the flags of a command to its settings, and   *)
(* from those to the automatic refetch of a lookup (resolveDB), while the  *)
(* user edits all of them between commands.                                *)
(*                                                                         *)
(* Texts are told apart by what they parse to.  A number of minutes is an  *)
(* integer of ticks; NaN and the infinities, which strconv.ParseFloat also *)
(* reads, are values of their own that compare as IEEE 754 has it.  One    *)
(* command runs at a time: two that start together may both refetch.       *)
(***************************************************************************)
EXTENDS Integers, SequencesExt

CONSTANTS Lines,      \* lines a user may write into the file
          MaxLines,   \* bound: lines of a file
          Envs,       \* environments, layers of settings
          Flags,      \* command lines, layers of settings
          Home,       \* the path each text that starts with ~ stands for
          DefaultURL, DefaultStore,
          MinTTL, DefaultTTL, MaxTTL,
          NaN, PosInf, NegInf, Words,  \* Words: text that is no number
          Unreadable,  \* a file that cannot be opened or read
          None         \* not set, or set to ""

ASSUME TTLAssumption == /\ MinTTL \in Nat /\ DefaultTTL \in Nat /\ MaxTTL \in Nat
                        /\ MinTTL <= DefaultTTL /\ DefaultTTL <= MaxTTL
                        /\ None \notin Int
\* The texts that are no integer; no flag gives the threshold or auto_update.
ASSUME NumberAssumption == /\ {NaN, PosInf, NegInf} \cap Int = {}
                           /\ NaN \notin {PosInf, NegInf} /\ PosInf # NegInf
ASSUME FlagsAssumption ==
    None \notin Flags /\ \A f \in Flags : f.ttl = None /\ f.auto = None
ASSUME SettingsAssumption == /\ DefaultURL # None /\ DefaultStore # None
                             /\ \A p \in DOMAIN Home : Home[p] # None
                             /\ None \notin {"yes", "no"}

VARIABLES file,    \* the configuration file: lines, none if it is missing
          env,     \* MAC_LOOKUP_* variables
          flags,   \* the flags of the lookup or update in progress, None between two
          cfg,     \* the settings of the command in progress
          age      \* age[p]: of the store at path p, or None; it stops at Old

Old == MaxTTL + 1   \* older than every threshold

vars == <<file, env, flags, cfg, age>>

Urls == {l.value : l \in {k \in Lines : k.kind = "set" /\ k.name = "base_url"}}
        \cup {e.url : e \in Envs \cup Flags}
Paths == {l.value : l \in {k \in Lines : k.kind = "set" /\ k.name = "path"}}
         \cup {e.store : e \in Envs \cup Flags}
\* The default path is used as it is.
Stores == {DefaultStore} \cup (Paths \ (DOMAIN Home \cup {None}))
          \cup {Home[p] : p \in DOMAIN Home}

Number(m) == m \in Int
AtLeast(m, n) == m = PosInf \/ (Number(m) /\ m >= n)
AtMost(m, n) == m = NegInf \/ (Number(m) /\ m <= n)

\* Seeded bug: the range stated from the outside, which NaN gets through.
Refused_Outside(m) == m \in {Words, PosInf, NegInf} \/ (Number(m) /\ ~(m \in 0..MaxTTL))
\* parseTTLMinutes returns an error.
Refused(m) == m = Words \/ ~(AtLeast(m, 0) /\ AtMost(m, MaxTTL))

\* Seeded bug: a path is used as it was written.
ExpandHome_Never(path) == path
ExpandHome(path) == IF path \in DOMAIN Home THEN Home[path] ELSE path

-----------------------------------------------------------------------------
\* parseTOML: the section a line is in and the value each key was last given.
Keys == {<<"ieee", "base_url">>, <<"ieee", "ttl_minutes">>,
         <<"ieee", "auto_update">>, <<"store", "path">>}
NothingRead == [section |-> "", values |-> [k \in Keys |-> None], ok |-> TRUE]

ParseLine(read, line) ==
    IF line.kind = "header" THEN [read EXCEPT !.section = line.name]
    ELSE IF line.kind = "set" /\ <<read.section, line.name>> \in Keys
         THEN [read EXCEPT !.values[<<read.section, line.name>>] = line.value]
    ELSE [read EXCEPT !.ok = @ /\ line.kind # "broken"]

ParseTOML(lines) == FoldLeft(ParseLine, NothingRead, lines)

\* A layer of settings: what applySections finds, the environment has, or the
\* flags give.
FileLayer == LET v == ParseTOML(file).values
             IN [url |-> v[<<"ieee", "base_url">>], store |-> v[<<"store", "path">>],
                 ttl |-> v[<<"ieee", "ttl_minutes">>], auto |-> v[<<"ieee", "auto_update">>]]

Default == [url |-> DefaultURL, store |-> DefaultStore, ttl |-> DefaultTTL, auto |-> TRUE]

\* Seeded bug: an answer that is neither yes nor no is taken for a no.
Decides_Anything(v) == v # None
\* parseBool knows the answer.
Decides(v) == v \in {"yes", "no"}

Over(c, layer) ==
    [url |-> IF layer.url = None THEN c.url ELSE layer.url,
     store |-> IF layer.store = None THEN c.store ELSE ExpandHome(layer.store),
     ttl |-> IF layer.ttl = None THEN c.ttl ELSE layer.ttl,
     auto |-> IF Decides(layer.auto) THEN layer.auto = "yes" ELSE c.auto]

\* Load with flags f returns an error: for a file or a number it cannot read,
\* also one that a later layer would override.
LoadFails(f) == \/ file = Unreadable
                \/ ~ParseTOML(file).ok
                \/ \E t \in {FileLayer.ttl, env.ttl} : t # None /\ Refused(t)

\* Seeded bug: no floor.
Floored_Not(ttl) == ttl
Floored(ttl) == IF Number(ttl) /\ ttl < MinTTL THEN MinTTL ELSE ttl

Load(f) == LET c == Over(Over(Over(Default, FileLayer), env), f)
           IN [c EXCEPT !.ttl = Floored(@)]
-----------------------------------------------------------------------------
Init == /\ file \in {<<>>, Unreadable} \cup {<<l>> : l \in Lines}
        /\ env \in Envs
        /\ flags = None /\ cfg = None
        /\ age = [p \in Stores |-> None]

\* Between two commands the user edits the file and the environment, and time
\* passes.
AppendLine(l) == /\ flags = None /\ file # Unreadable /\ Len(file) < MaxLines
                 /\ file' = Append(file, l)
                 /\ UNCHANGED <<env, flags, cfg, age>>
Replace(f) == /\ flags = None
              /\ file' = f
              /\ UNCHANGED <<env, flags, cfg, age>>
Export(e) == /\ flags = None
             /\ env' = e
             /\ UNCHANGED <<file, flags, cfg, age>>
Tick == /\ flags = None
        /\ age' = [p \in Stores |-> IF age[p] \in {None, Old} THEN age[p] ELSE age[p] + 1]
        /\ UNCHANGED <<file, env, flags, cfg>>

\* buildEngine: a command starts; where Load fails it ends at once.
Start(f) == /\ flags = None
            /\ ~LoadFails(f)
            /\ flags' = f
            /\ cfg' = Load(f)
            /\ UNCHANGED <<file, env, age>>

\* EnsureFresh: there is a store and it is no older than the threshold.
Fresh == age[cfg.store] # None /\ age[cfg.store] <= cfg.ttl
End == cfg' = None /\ flags' = None /\ UNCHANGED <<file, env>>

\* resolveDB reads the store as it is: it may not refetch, or need not.
Answer == /\ flags # None /\ flags.command = "lookup"
          /\ flags.noUpdate \/ ~cfg.auto \/ Fresh
          /\ End /\ UNCHANGED age

\* resolveDB refetches; an Update that fails keeps the store and its age.
Refetch(ok) == /\ flags # None /\ flags.command = "lookup"
               /\ ~flags.noUpdate /\ cfg.auto /\ ~Fresh
               /\ age' = IF ok THEN [age EXCEPT ![cfg.store] = 0] ELSE age
               /\ End

\* cmdUpdate downloads whatever the age of the store.
Update(ok) == /\ flags # None /\ flags.command = "update"
              /\ age' = IF ok THEN [age EXCEPT ![cfg.store] = 0] ELSE age
              /\ End

Next == \/ \E l \in Lines : AppendLine(l)
        \/ \E f \in {<<>>, Unreadable} : Replace(f)
        \/ \E e \in Envs : Export(e)
        \/ Tick
        \/ \E f \in Flags : Start(f)
        \/ Answer
        \/ \E ok \in BOOLEAN : Refetch(ok) \/ Update(ok)

Spec == Init /\ [][Next]_vars
-----------------------------------------------------------------------------
Settings == [url : {DefaultURL} \cup Urls, store : Stores, ttl : Nat, auto : BOOLEAN]

\* Every variable keeps its type: a file is lines or unreadable, a command in
\* progress has the settings Load resolved for it.
TypeOK == /\ file = Unreadable \/ file \in Seq(Lines)
          /\ env \in Envs
          /\ flags = None \/ (cfg \in Settings /\ flags \in Flags)
          /\ age \in [Stores -> 0..Old \cup {None}]

\* Whatever number the file and the environment spell, NaN, the infinities and
\* too large ones among them, the threshold of a command is between the floor
\* and a year (parseTTLMinutes, Load).
TTLInRange == flags # None => cfg.ttl \in MinTTL..MaxTTL

\* What the documentation says of a setting, without the order Load works in:
\* the last line of the file that gives the key under its section counts, over
\* it the environment, over that the flag; an empty value sets nothing, and
\* neither does an answer to auto_update that is neither yes nor no.
InSection(i, sec) == \E h \in 1..i : /\ file[h].kind = "header" /\ file[h].name = sec
                                      /\ \A k \in h+1..i : file[k].kind # "header"
Gives(sec, key) == {i \in DOMAIN file : /\ file[i].kind = "set" /\ file[i].name = key
                                         /\ InSection(i, sec)}
InFile(sec, key) == LET g == Gives(sec, key)
                    IN IF g = {} THEN None
                       ELSE file[CHOOSE i \in g : \A j \in g : j <= i].value
First(values) == values[CHOOSE i \in DOMAIN values :
                           values[i] # None /\ \A j \in 1..i-1 : values[j] = None]
Path(p) == IF p = None THEN None ELSE ExpandHome(p)
Answers(v) == IF v \in {"yes", "no"} THEN v ELSE None
Precedence ==
    flags # None =>
      /\ cfg.url = First(<<flags.url, env.url, InFile("ieee", "base_url"), DefaultURL>>)
      /\ cfg.store = First(<<Path(flags.store), Path(env.store),
                            Path(InFile("store", "path")), DefaultStore>>)
      /\ LET t == First(<<env.ttl, InFile("ieee", "ttl_minutes"), DefaultTTL>>)
         IN cfg.ttl = IF t < MinTTL THEN MinTTL ELSE t
      /\ cfg.auto = (First(<<Answers(env.auto), Answers(InFile("ieee", "auto_update")),
                             "yes">>) = "yes")

\* A lookup replaces a store that is there only once it is older than the
\* floor, whatever the user did to file, environment and flags between the two
\* commands (EnsureFresh, Load; "regardless of configuration").
FetchesSpaced ==
    [][\A p \in Stores : /\ flags # None /\ flags.command = "lookup"
                         /\ age[p] # None /\ age'[p] # age[p]
                         => age[p] > MinTTL]_vars
=============================================================================
