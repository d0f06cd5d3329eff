----------------------------- MODULE LavaProofs -----------------------------
(***************************************************************************)
(* For any modules, prefixes and functions, any number of trampolines and   *)
(* of libraries: names lead to mapped code, every way out of an import or a *)
(* call gives back the loader's state, and no file is left but by an error. *)
(***************************************************************************)
EXTENDS Lava, FiniteSetTheorems, TLAPS

Trial == {"write", "written", "opened", "register"}

(* A candidate is being tried, and only then a file in /tmp is in use.      *)
Searching ==
  /\ phase \in Trial => candidates # <<>>
  /\ phase \notin Trial \cup {"killed", "aborted"} => temp = NoFile
  /\ IsFiniteSet(files)

(* Whatever is in a table is mapped, and the library being tried is in none *)
(* before it registers.                                                     *)
LibrariesOpen ==
  /\ phase \in {"opened", "register"} => opened \in mapped /\ raised < opened
  /\ \A s \in DOMAIN g_slots : g_slots[s].lib \in mapped
  /\ phase = "opened" =>
       /\ \A s \in DOMAIN g_slots : g_slots[s].lib # opened
       /\ \A i \in DOMAIN g_handles : g_handles[i] # opened
  /\ phase = "register" => loading.lib = opened

Inv == /\ TypeOK /\ NamesLead /\ LoaderRestored /\ HandlesOpen
       /\ LibrariesOpen /\ Searching /\ TempsAccounted

LEMMA InitInv == Init => Inv
<1> SUFFICES ASSUME Init PROVE Inv  OBVIOUS
<1> USE DEF Init
<1>1. IsFiniteSet(files) /\ Cardinality(files \ {temp}) = 0
  <2>1. files = {} /\ files \ {temp} = {}  OBVIOUS
  <2> QED  BY <2>1, FS_EmptySet
<1>2. TypeOK
  BY LavaAssumption DEF TypeOK, NotLoading, NoCtx, None
<1>3. NamesLead /\ LoaderRestored /\ HandlesOpen /\ LibrariesOpen
  BY DEF NamesLead, LoaderRestored, HandlesOpen, ToSet, LibrariesOpen,
         NotLoading, NoCtx, Trial
<1>4. Searching
  BY <1>1 DEF Searching, Trial
<1>5. TempsAccounted
  BY <1>1 DEF TempsAccounted
<1> QED  BY <1>2, <1>3, <1>4, <1>5 DEF Inv

-----------------------------------------------------------------------------
(* The files.                                                               *)

LEMMA Unlinked ==
  ASSUME TypeOK, Searching, TempsAccounted, unlink,
         phase \notin {"killed", "aborted"}
  PROVE  /\ temp' \in files' \cup {NoFile} /\ files' \subseteq TempName
         /\ IsFiniteSet(files') /\ temp' = NoFile
         /\ Cardinality(files' \ {temp'}) <= raised
<1>1. files' \ {temp'} = files \ {temp}
  BY LavaAssumption DEF unlink, TypeOK
<1>2. IsFiniteSet(files')
  BY FS_Subset DEF unlink, Searching
<1> QED  BY <1>1, <1>2 DEF unlink, TypeOK, TempsAccounted

LEMMA FilesKept ==
  ASSUME Searching, TempsAccounted, UNCHANGED <<temp, files, raised>>,
         phase \notin {"killed", "aborted"},
         phase' \in Trial => candidates' # <<>>,
         phase' \notin Trial \cup {"killed", "aborted"}
           => phase \notin Trial \cup {"killed", "aborted"}
  PROVE  Searching' /\ TempsAccounted'
BY DEF Searching, TempsAccounted

(* The next candidate: phase and candidates are of their types.             *)
LEMMA NextCandidate ==
  ASSUME TypeOK, candidates # <<>>, TryNext
  PROVE  candidates' \in Seq(Source) /\ phase' = "search"
BY DEF TypeOK, TryNext

-----------------------------------------------------------------------------
(* Steps of a search: they leave the libraries and tables alone.            *)

LEMMA SearchInv ==
  ASSUME Inv,
         \/ \E sources \in Seq(Source), p \in Prefix \cup {NoPrefix} :
              StartSearch(sources, p)
         \/ GiveUp \/ mkstemp \/ write \/ CannotOpen
  PROVE  Inv'
<1> USE DEF Inv, search, libraries, tables, call
<1>1. /\ UNCHANGED <<libraries, tables, call>>
      /\ phase \in {"script", "search", "write", "written"}
      /\ phase' \in {"script", "search", "write", "written"}
  BY DEF StartSearch, GiveUp, mkstemp, write, CannotOpen, Trying, TryNext
<1>2. /\ candidates' \in Seq(Source)
      /\ prefix' \in Prefix \cup {NoPrefix}
      /\ temp' \in files' \cup {NoFile} /\ files' \subseteq TempName
      /\ Searching' /\ TempsAccounted'
  <2>1. ASSUME NEW sources \in Seq(Source), NEW p \in Prefix \cup {NoPrefix},
               StartSearch(sources, p)
        PROVE  <1>2!:
    <3>1. Searching' /\ TempsAccounted'
      BY <2>1, <1>1, FilesKept DEF StartSearch, Trial
    <3> QED  BY <2>1, <3>1 DEF StartSearch, TypeOK
  <2>2. CASE GiveUp
    <3>1. Searching' /\ TempsAccounted'
      BY <2>2, <1>1, FilesKept DEF GiveUp, Trial
    <3> QED  BY <2>2, <3>1 DEF GiveUp, TypeOK
  <2>3. ASSUME mkstemp, NEW t \in TempName \ files, phase' = "write", temp' = t,
               files' = files \cup {t}, UNCHANGED candidates
        PROVE  <1>2!:
    <3>1. temp = NoFile
      BY <2>3 DEF mkstemp, Trying, Searching, Trial
    <3>2. files' \ {temp'} = files \ {temp}
      BY <2>3, <3>1, LavaAssumption DEF TypeOK
    <3>3. IsFiniteSet(files')
      BY <2>3, FS_AddElement DEF Searching
    <3>4. Searching'
      BY <2>3, <3>3 DEF Searching, Trial, mkstemp, Trying
    <3>5. TempsAccounted'
      BY <2>3, <3>2, <1>1 DEF TempsAccounted
    <3> QED  BY <2>3, <3>4, <3>5 DEF mkstemp, TypeOK
  <2>4. CASE mkstemp /\ TryNext /\ UNCHANGED <<temp, files>>
    <3>1. candidates' \in Seq(Source) /\ phase' = "search" /\ phase = "search"
      BY <2>4, NextCandidate DEF mkstemp, Trying
    <3>2. Searching' /\ TempsAccounted'
      BY <2>4, <1>1, <3>1, FilesKept DEF Trial
    <3> QED  BY <2>4, <3>1, <3>2 DEF mkstemp, TypeOK
  <2>5. CASE phase = "write" /\ phase' = "written" /\ UNCHANGED search
    <3>1. Searching' /\ TempsAccounted'
      BY <2>5, <1>1, FilesKept DEF Trial, Searching
    <3> QED  BY <2>5, <3>1 DEF TypeOK
  <2>6. CASE candidates # <<>> /\ TryNext /\ unlink /\ UNCHANGED prefix
    <3>1. candidates' \in Seq(Source) /\ phase' = "search"
      BY <2>6, NextCandidate
    <3>2. /\ temp' \in files' \cup {NoFile} /\ files' \subseteq TempName
          /\ IsFiniteSet(files') /\ temp' = NoFile
          /\ Cardinality(files' \ {temp'}) <= raised'
      BY <2>6, <1>1, Unlinked
    <3>3. Searching' /\ TempsAccounted'
      BY <3>1, <3>2 DEF Searching, TempsAccounted, Trial
    <3> QED  BY <2>6, <3>1, <3>2, <3>3 DEF TypeOK
  <2>7. \/ CannotOpen => <2>6!1
        \/ ~CannotOpen
    BY DEF CannotOpen, Trying, Searching, Trial
  <2>8. write => <2>5!1 \/ <2>6!1
    BY DEF write, Searching, Trial
  <2>9. mkstemp => <2>4!1 \/ \E t \in TempName \ files :
                     phase' = "write" /\ temp' = t /\ files' = files \cup {t}
                     /\ UNCHANGED candidates
    BY DEF mkstemp
  <2> QED  BY <2>1, <2>2, <2>3, <2>4, <2>5, <2>6, <2>7, <2>8, <2>9
<1>3. TypeOK'
  BY <1>1, <1>2 DEF TypeOK
<1>4. NamesLead' /\ HandlesOpen'
  BY <1>1 DEF NamesLead, HandlesOpen, ToSet
<1>5. LoaderRestored' /\ LibrariesOpen'
  BY <1>1 DEF LoaderRestored, LibrariesOpen
<1> QED  BY <1>2, <1>3, <1>4, <1>5

-----------------------------------------------------------------------------
(* Libraries.                                                               *)

LEMMA DlopenInv == Inv /\ dlopen => Inv'
<1> SUFFICES ASSUME Inv, dlopen PROVE Inv'  OBVIOUS
<1> USE DEF Inv, dlopen, search, tables, call
<1>1. /\ phase \in {"written", "search"} /\ candidates # <<>>
      /\ opened \in Nat /\ opened' = opened + 1 /\ opened' \in 0..MaxLibraries
      /\ mapped' = mapped \cup {opened'} /\ loading = NotLoading
  BY LavaAssumption DEF Trying, Searching, Trial, TypeOK, LoaderRestored
<1>2. TypeOK'
  <2>1. mapped' \subseteq 1..opened'
    <3>1. mapped \subseteq 1..opened
      BY DEF TypeOK
    <3>2. 1..(opened + 1) = 1..opened \cup {opened + 1}
      BY <1>1
    <3> QED  BY <1>1, <3>1, <3>2
  <2>2. g_handles' \in Seq(1..opened')
    BY <1>1 DEF TypeOK
  <2>3. raised' \in 0..opened'
    BY <1>1 DEF TypeOK
  <2>4. loading' \in [lib : {None, opened'}, prefix : Prefix \cup {NoPrefix}]
    BY <1>1 DEF NotLoading
  <2> QED  BY <1>1, <2>1, <2>2, <2>3, <2>4 DEF TypeOK
<1>3. NamesLead' /\ HandlesOpen'
  BY <1>1 DEF NamesLead, HandlesOpen, ToSet
<1>4. LoaderRestored'
  BY <1>1 DEF LoaderRestored
<1>5. LibrariesOpen'
  <2>1. opened' \in mapped' /\ raised' < opened' /\ opened' \notin mapped
    BY <1>1 DEF TypeOK
  <2>2. \A i \in DOMAIN g_handles : g_handles[i] \in mapped
    BY DEF HandlesOpen, ToSet
  <2> QED  BY <1>1, <2>1, <2>2 DEF LibrariesOpen
<1>6. Searching' /\ TempsAccounted'
  BY <1>1, FilesKept DEF Trial
<1> QED  BY <1>2, <1>3, <1>4, <1>5, <1>6

LEMMA NoRegisterInv == Inv /\ NoRegister => Inv'
<1> SUFFICES ASSUME Inv, NoRegister PROVE Inv'  OBVIOUS
<1> USE DEF Inv, NoRegister, tables, call
<1>1. candidates # <<>> /\ TryNext /\ unlink
  BY DEF Searching, Trial
<1>2. candidates' \in Seq(Source) /\ phase' = "search"
  BY <1>1, NextCandidate
<1>3. /\ temp' \in files' \cup {NoFile} /\ files' \subseteq TempName
      /\ IsFiniteSet(files') /\ temp' = NoFile
      /\ Cardinality(files' \ {temp'}) <= raised'
  BY <1>1, Unlinked
<1>4. TypeOK'
  BY <1>2, <1>3 DEF TypeOK
<1>5. NamesLead'
  BY DEF NamesLead, LibrariesOpen
<1>6. HandlesOpen'
  BY DEF HandlesOpen, ToSet, LibrariesOpen
<1>7. LoaderRestored' /\ LibrariesOpen'
  BY <1>2 DEF LoaderRestored, LibrariesOpen
<1>8. Searching' /\ TempsAccounted'
  BY <1>2, <1>3 DEF Searching, TempsAccounted, Trial
<1> QED  BY <1>4, <1>5, <1>6, <1>7, <1>8

LEMMA InitHandleInv == Inv /\ lava_init_handle => Inv'
<1> SUFFICES ASSUME Inv, lava_init_handle PROVE Inv'  OBVIOUS
<1> USE DEF Inv, lava_init_handle, search, tables
<1>1. opened \in mapped /\ opened \in 1..opened /\ opened \in Nat
  BY DEF LibrariesOpen, TypeOK
<1>2. g_handles' \in Seq(1..opened) /\ HandlesOpen'
  <2>1. CASE g_handles' = g_handles
    BY <2>1 DEF TypeOK, HandlesOpen, ToSet
  <2>2. CASE g_handles' = <<opened>> \o g_handles
    <3>1. g_handles \in Seq(1..opened) /\ <<opened>> \in Seq(1..opened)
      BY <1>1 DEF TypeOK
    <3>2. /\ g_handles' \in Seq(1..opened)
          /\ DOMAIN g_handles' = 1..(Len(g_handles) + 1)
          /\ Len(g_handles) \in Nat /\ DOMAIN g_handles = 1..Len(g_handles)
          /\ g_handles'[1] = opened
          /\ \A i \in 2..(Len(g_handles) + 1) :
               i - 1 \in DOMAIN g_handles /\ g_handles'[i] = g_handles[i - 1]
      BY <2>2, <3>1
    <3>3. \A i \in DOMAIN g_handles : g_handles[i] # opened /\ g_handles[i] \in mapped
      BY DEF LibrariesOpen, HandlesOpen, ToSet
    <3>4. \A i \in DOMAIN g_handles' : i = 1 \/ i \in 2..(Len(g_handles) + 1)
      BY <3>2
    <3>5. ToSet(g_handles') \subseteq mapped'
      <4>1. \A i \in DOMAIN g_handles' : g_handles'[i] \in mapped'
        BY <1>1, <3>2, <3>3, <3>4
      <4> QED  BY <4>1 DEF ToSet
    <3>6. ASSUME NEW i \in DOMAIN g_handles', NEW j \in DOMAIN g_handles', i # j
          PROVE  g_handles'[i] # g_handles'[j]
      <4>1. CASE i = 1 \/ j = 1
        BY <3>2, <3>3, <3>4, <3>6, <4>1
      <4>2. CASE i # 1 /\ j # 1
        <5>1. /\ i - 1 \in DOMAIN g_handles /\ g_handles'[i] = g_handles[i - 1]
              /\ j - 1 \in DOMAIN g_handles /\ g_handles'[j] = g_handles[j - 1]
              /\ i - 1 # j - 1
          BY <3>2, <3>4, <3>6, <4>2
        <5> QED  BY <5>1 DEF HandlesOpen
      <4> QED  BY <4>1, <4>2
    <3> QED  BY <3>2, <3>5, <3>6 DEF HandlesOpen
  <2> QED  BY <2>1, <2>2
<1>3. loading' \in [lib : {None, opened}, prefix : Prefix \cup {NoPrefix}]
      /\ loading' # NotLoading
  BY <1>1 DEF TypeOK, NotLoading, None
<1>4. TypeOK'
  BY <1>2, <1>3 DEF TypeOK
<1>5. NamesLead'
  BY DEF NamesLead
<1>6. LoaderRestored' /\ LibrariesOpen'
  BY <1>3 DEF LoaderRestored, LibrariesOpen
<1>7. Searching' /\ TempsAccounted'
  BY FilesKept DEF Trial, Searching
<1> QED  BY <1>2, <1>4, <1>5, <1>6, <1>7

-----------------------------------------------------------------------------
(* Registration.                                                            *)

(* The new entry is the newest of its name; the other names keep theirs.    *)
LEMMA RegisterInv ==
  ASSUME Inv, NEW fn \in Function, lava_register_fn(fn)
  PROVE  Inv'
<1> USE DEF Inv, lava_register_fn, search, libraries, call
<1> DEFINE entry == [lib |-> loading.lib, prefix |-> loading.prefix, fn |-> fn]
           new == <<loading.prefix, fn>>
           last == Len(g_slots) + 1
<1>1. /\ loading.lib = opened /\ opened \in mapped /\ opened \in Library
      /\ loading.prefix \in Prefix
  BY LavaAssumption DEF LibrariesOpen, TypeOK, Library
<1>2. entry \in Entry
  BY <1>1 DEF Entry
<1>3. /\ g_slots' \in Seq(Entry) /\ Len(g_slots) \in Nat /\ Len(g_slots') = last
      /\ DOMAIN g_slots = 1..Len(g_slots) /\ DOMAIN g_slots' = 1..last
      /\ g_slots'[last] = entry
      /\ \A s \in DOMAIN g_slots : s < last /\ g_slots'[s] = g_slots[s]
      /\ \A s \in DOMAIN g_slots' : s = last \/ s \in DOMAIN g_slots
  <2>1. g_slots \in Seq(Entry) /\ g_slots' = Append(g_slots, entry)
    BY DEF TypeOK, Register
  <2> HIDE DEF entry
  <2> QED  BY <1>2, <2>1
<1>4. last \in Slot
  BY <1>3, LavaAssumption DEF Slot
<1>5. /\ DOMAIN func_table' = DOMAIN func_table \cup {new}
      /\ func_table'[new] = last
      /\ \A n \in DOMAIN func_table : n # new => func_table'[n] = func_table[n]
  BY <1>3 DEF Register
<1>6. DOMAIN func_table' \subseteq Prefix \X Function
  BY <1>1, <1>5 DEF TypeOK
<1>7. TypeOK'
  BY <1>3, <1>6 DEF TypeOK
<1>8. NamesLead'
  <2> DEFINE OfName(sl, n) ==
               {s \in DOMAIN sl : <<sl[s].prefix, sl[s].fn>> = n}
             Leads(sl, ft, n) ==
               /\ ft[n] \in OfName(sl, n) \cap Slot
               /\ \A s \in OfName(sl, n) : s <= ft[n]
               /\ sl[ft[n]].lib \in mapped
  <2>1. Leads(g_slots', func_table', new)
    BY <1>1, <1>3, <1>4, <1>5
  <2>2. ASSUME NEW n \in DOMAIN func_table, n # new
        PROVE  Leads(g_slots', func_table', n)
    <3>1. Leads(g_slots, func_table, n)
      BY DEF NamesLead
    <3>2. OfName(g_slots', n) = OfName(g_slots, n)
      BY <1>3, <2>2
    <3> QED  BY <1>3, <1>5, <2>2, <3>1, <3>2
  <2>3. \A n \in DOMAIN func_table' : Leads(g_slots', func_table', n)
    BY <1>5, <2>1, <2>2
  <2> QED  BY <2>3 DEF NamesLead
<1>9. HandlesOpen' /\ LoaderRestored'
  BY DEF HandlesOpen, ToSet, LoaderRestored
<1>10. LibrariesOpen'
  BY <1>1, <1>3 DEF LibrariesOpen
<1>11. Searching' /\ TempsAccounted'
  BY FilesKept DEF Trial, Searching
<1> QED  BY <1>7, <1>8, <1>9, <1>10, <1>11

LEMMA RegisteredInv == Inv /\ Registered => Inv'
<1> SUFFICES ASSUME Inv, Registered PROVE Inv'  OBVIOUS
<1> USE DEF Inv, Registered, tables
<1>1. /\ temp' \in files' \cup {NoFile} /\ files' \subseteq TempName
      /\ IsFiniteSet(files') /\ temp' = NoFile
      /\ Cardinality(files' \ {temp'}) <= raised'
  BY Unlinked
<1>2. TypeOK'
  BY <1>1 DEF TypeOK, NotLoading
<1>3. NamesLead' /\ HandlesOpen'
  BY DEF NamesLead, HandlesOpen, ToSet
<1>4. LoaderRestored' /\ LibrariesOpen'
  BY DEF LoaderRestored, LibrariesOpen
<1>5. Searching' /\ TempsAccounted'
  BY <1>1 DEF Searching, TempsAccounted, Trial
<1> QED  BY <1>2, <1>3, <1>4, <1>5

(* The one step that leaves a file behind: it is counted.                   *)
LEMMA RaisesInv == Inv /\ RegisterRaises => Inv'
<1> SUFFICES ASSUME Inv, RegisterRaises PROVE Inv'  OBVIOUS
<1> USE DEF Inv, RegisterRaises, tables
<1>1. raised < opened /\ raised \in Nat /\ opened \in Nat
  BY LavaAssumption DEF LibrariesOpen, TypeOK
<1>2. Cardinality(files' \ {temp'}) <= raised'
  <2>1. Cardinality(files' \ {temp'}) = Cardinality(files)
    <3>1. files' \ {temp'} = files
      BY LavaAssumption DEF TypeOK
    <3> QED  BY <3>1
  <2>2. Cardinality(files) <= Cardinality(files \ {temp}) + 1
    <3>1. CASE temp \in files
      <4>1. /\ IsFiniteSet(files \ {temp}) /\ temp \notin files \ {temp}
            /\ files = (files \ {temp}) \cup {temp}
        BY <3>1, FS_Subset DEF Searching
      <4>2. Cardinality(files) = Cardinality(files \ {temp}) + 1
        BY <4>1, FS_AddElement
      <4>3. Cardinality(files) \in Nat /\ Cardinality(files \ {temp}) \in Nat
        BY <4>1, FS_CardinalityType DEF Searching
      <4> QED  BY <4>2, <4>3
    <3>2. CASE temp \notin files
      <4>1. Cardinality(files \ {temp}) = Cardinality(files)
        <5>1. files \ {temp} = files
          BY <3>2
        <5> QED  BY <5>1
      <4>2. Cardinality(files) \in Nat
        BY FS_CardinalityType DEF Searching
      <4> QED  BY <4>1, <4>2
    <3> QED  BY <3>1, <3>2
  <2>3. /\ Cardinality(files) \in Nat /\ Cardinality(files \ {temp}) \in Nat
    BY FS_Subset, FS_CardinalityType DEF Searching
  <2>4. Cardinality(files \ {temp}) <= raised
    BY DEF TempsAccounted
  <2> QED  BY <1>1, <2>1, <2>2, <2>3, <2>4
<1>3. TypeOK'
  <2>1. raised' \in 0..opened'
    BY <1>1
  <2> QED  BY <2>1 DEF TypeOK, NotLoading
<1>4. NamesLead' /\ HandlesOpen'
  BY DEF NamesLead, HandlesOpen, ToSet
<1>5. LoaderRestored' /\ LibrariesOpen'
  BY DEF LoaderRestored, LibrariesOpen
<1>6. Searching' /\ TempsAccounted'
  BY <1>2 DEF Searching, TempsAccounted, Trial
<1> QED  BY <1>3, <1>4, <1>5, <1>6

-----------------------------------------------------------------------------
(* Calls, and the end: no file is made or removed.                          *)

LEMMA CallInv == Inv /\ Call => Inv'
<1> SUFFICES ASSUME Inv, Call PROVE Inv'  OBVIOUS
<1> USE DEF Inv, search, libraries, tables
<1> USE DEF Call, lava_dispatch, BadArgument, ffi_call, infernal_return_type,
            infernal_return, infernal_return_value, CallRaises, CallReturns, abort
<1>1. /\ UNCHANGED <<search, libraries, tables>>
      /\ phase \in {"script", "convert", "native"}
      /\ phase' \in {"script", "convert", "native", "aborted"}
  OBVIOUS
<1>2. /\ exception_env' = IF phase' = "script" THEN "script" ELSE "call"
      /\ \/ phase' = "aborted"
         \/ (g_ctx' # NoCtx) <=> (phase' = "native")
      /\ g_ctx' \in [type : Type \cup {"unset"}, value : Type \cup {"unset"}]
                    \cup {NoCtx}
  <2> USE DEF TypeOK, LoaderRestored, NoCtx, Type
  <2>1. CASE phase = "script"
    BY <2>1
  <2>2. CASE phase = "convert"
    BY <2>2
  <2>3. CASE phase = "native"
    BY <2>3
  <2> QED  BY <1>1, <2>1, <2>2, <2>3
<1> USE DEF search, libraries, tables
<1>3. TypeOK'
  BY <1>1, <1>2 DEF TypeOK
<1>4. NamesLead' /\ HandlesOpen' /\ LibrariesOpen'
  BY <1>1 DEF NamesLead, HandlesOpen, ToSet, LibrariesOpen
<1>5. LoaderRestored'
  BY <1>1, <1>2 DEF LoaderRestored
<1>6. Searching' /\ TempsAccounted'
  BY <1>1, FilesKept DEF Trial
<1> QED  BY <1>3, <1>4, <1>5, <1>6

LEMMA EndInv == Inv /\ (lava_cleanup \/ Kill \/ Misuse) => Inv'
<1> SUFFICES ASSUME Inv, lava_cleanup \/ Kill \/ Misuse PROVE Inv'  OBVIOUS
<1> USE DEF Inv, search, libraries, tables, call
<1>1. CASE lava_cleanup
  <2> USE <1>1 DEF lava_cleanup
  <2>1. TypeOK'
    <3>1. /\ mapped' \subseteq 1..opened'
          /\ g_handles' = <<>> /\ g_slots' = <<>>
      BY DEF TypeOK
    <3>2. DOMAIN func_table' \subseteq Prefix \X Function
      OBVIOUS
    <3> QED  BY <3>1, <3>2 DEF TypeOK
  <2>2. NamesLead' /\ HandlesOpen' /\ LibrariesOpen'
    BY DEF NamesLead, HandlesOpen, ToSet, LibrariesOpen
  <2>3. LoaderRestored'
    BY DEF LoaderRestored
  <2>4. Searching' /\ TempsAccounted'
    BY FilesKept DEF Trial
  <2> QED  BY <2>1, <2>2, <2>3, <2>4
<1>2. CASE Kill \/ Misuse
  <2> USE <1>2 DEF Kill, Misuse, abort
  <2>1. TypeOK'
    BY DEF TypeOK
  <2>2. NamesLead' /\ HandlesOpen' /\ LibrariesOpen'
    BY DEF NamesLead, HandlesOpen, ToSet, LibrariesOpen
  <2>3. LoaderRestored' /\ Searching' /\ TempsAccounted'
    BY DEF LoaderRestored, Searching, TempsAccounted, Trial
  <2> QED  BY <2>1, <2>2, <2>3
<1> QED  BY <1>1, <1>2

LEMMA NextInv == Inv /\ [Next]_vars => Inv'
<1> SUFFICES ASSUME Inv, [Next]_vars PROVE Inv'  OBVIOUS
<1>1. CASE Import
  <2>1. ASSUME NEW m \in Module, NEW home \in BOOLEAN,
               NEW p \in Prefix \cup {NoPrefix}, lava_try_import(m, home, p)
        PROVE  Inv'
    <3> DEFINE sources == (IF m \in Embedded THEN <<"embedded">> ELSE <<>>)
                          \o (IF home THEN <<"user">> ELSE <<>>) \o <<"system">>
    <3>1. sources \in Seq(Source)
      <4>1. /\ <<>> \in Seq(Source) /\ <<"embedded">> \in Seq(Source)
            /\ <<"user">> \in Seq(Source) /\ <<"system">> \in Seq(Source)
        BY DEF Source
      <4>2. (IF m \in Embedded THEN <<"embedded">> ELSE <<>>) \in Seq(Source)
        BY <4>1
      <4>3. (IF home THEN <<"user">> ELSE <<>>) \in Seq(Source)
        BY <4>1
      <4> QED  BY <4>1, <4>2, <4>3
    <3>2. StartSearch(sources, p)
      BY <2>1 DEF lava_try_import
    <3> QED  BY <3>1, <3>2, SearchInv
  <2>2. ASSUME NEW has_ext \in BOOLEAN, NEW p \in Prefix,
               lava_try_import_path(has_ext, p)
        PROVE  Inv'
    <3> DEFINE sources == IF has_ext THEN <<"path">> ELSE <<"path", "path.lava">>
    <3>1. sources \in Seq(Source)
      <4>1. <<"path">> \in Seq(Source) /\ <<"path", "path.lava">> \in Seq(Source)
        BY DEF Source
      <4> QED  BY <4>1
    <3>2. StartSearch(sources, p)
      BY <2>2 DEF lava_try_import_path
    <3> QED  BY <3>1, <3>2, SearchInv
  <2>3. CASE GiveUp \/ mkstemp \/ write \/ CannotOpen
    BY <2>3, SearchInv
  <2>4. CASE dlopen \/ NoRegister
    BY <2>4, DlopenInv, NoRegisterInv
  <2> QED  BY <1>1, <2>1, <2>2, <2>3, <2>4 DEF Import
<1>2. CASE Registration
  BY <1>2, InitHandleInv, RegisterInv, RegisteredInv, RaisesInv DEF Registration
<1>3. CASE Call
  BY <1>3, CallInv
<1>4. CASE lava_cleanup \/ Kill \/ Misuse
  BY <1>4, EndInv
<1>5. CASE UNCHANGED vars
  BY <1>5 DEF vars, Inv, TypeOK, NamesLead, LoaderRestored, HandlesOpen, ToSet,
              LibrariesOpen, Searching, TempsAccounted
<1> QED  BY <1>1, <1>2, <1>3, <1>4, <1>5 DEF Next

-----------------------------------------------------------------------------
(* Theorems.                                                                *)

LEMMA Invariant == Spec => []Inv
BY InitInv, NextInv, PTL DEF Spec

(* The state of the loader is of its types (lava.c:60-95).                  *)
THEOREM LoaderTyped == Spec => []TypeOK
<1>1. Inv => TypeOK  BY DEF Inv
<1> QED  BY <1>1, Invariant, PTL

(* However imports fail, repeat or fill the trampolines, a name of a native *)
(* function leads to its newest entry and to mapped code.                   *)
THEOREM NamesLeadToCode == Spec => []NamesLead
<1>1. Inv => NamesLead  BY DEF Inv
<1> QED  BY <1>1, Invariant, PTL

(* Every way out of an import or a call puts the handler back and forgets   *)
(* the loading module and the call in progress.                             *)
THEOREM LoaderIsRestored == Spec => []LoaderRestored
<1>1. Inv => LoaderRestored  BY DEF Inv
<1> QED  BY <1>1, Invariant, PTL

(* lava_cleanup closes only what is open, and nothing twice.                *)
THEOREM HandlesAreOpen == Spec => []HandlesOpen
<1>1. Inv => HandlesOpen  BY DEF Inv
<1> QED  BY <1>1, Invariant, PTL

(* Files left in /tmp are no more than the libraries that raised an error   *)
(* while they registered.                                                   *)
THEOREM TempsAreAccounted == Spec => []TempsAccounted
<1>1. Inv => TempsAccounted  BY DEF Inv
<1> QED  BY <1>1, Invariant, PTL

(* Importing a module changes nothing about the functions of the others.    *)
THEOREM PrefixesStayApart == Spec => PrefixesApart
<1> DEFINE Apart == \A name \in DOMAIN func_table' :
                      name[1] = loading.prefix
                      \/ (name \in DOMAIN func_table /\ func_table'[name] = func_table[name])
<1>1. Inv /\ [Next]_vars => [Apart]_vars
  <2> SUFFICES ASSUME Inv, Next PROVE Apart  OBVIOUS
  <2>1. ASSUME NEW fn \in Function, lava_register_fn(fn) PROVE Apart
    <3>1. /\ DOMAIN func_table' = DOMAIN func_table \cup {<<loading.prefix, fn>>}
          /\ \A n \in DOMAIN func_table' :
               n # <<loading.prefix, fn>> => func_table'[n] = func_table[n]
      BY <2>1 DEF lava_register_fn, Register
    <3> QED  BY <3>1
  <2>2. CASE lava_cleanup
    BY <2>2 DEF lava_cleanup
  <2>3. CASE UNCHANGED func_table
    BY <2>3
  <2>4. Import => UNCHANGED func_table
    BY DEF Import, lava_try_import, lava_try_import_path, StartSearch, GiveUp,
           mkstemp, write, CannotOpen, dlopen, NoRegister, tables
  <2>5. Call \/ Kill \/ Misuse => UNCHANGED func_table
    BY DEF Call, lava_dispatch, BadArgument, ffi_call, infernal_return_type,
           infernal_return, infernal_return_value, CallRaises, CallReturns, Kill,
           Misuse, tables
  <2>6. lava_init_handle \/ Registered \/ RegisterRaises => UNCHANGED func_table
    BY DEF lava_init_handle, Registered, RegisterRaises, tables
  <2> QED  BY <2>1, <2>2, <2>3, <2>4, <2>5, <2>6 DEF Next, Registration
<1> QED  BY <1>1, Invariant, PTL DEF Spec, PrefixesApart
=============================================================================
