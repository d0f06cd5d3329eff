-------------------------------- MODULE Lava --------------------------------
(***************************************************************************)
(* Native modules (runtime/lava.c): how an import looks for a library,      *)
(* opens it and lets it register functions in the table of trampolines, and *)
(* what a call of one of them does. Libraries are code outside the program: *)
(* what they register, in which order, and whether they raise an error is   *)
(* chosen. An error leaves by longjmp to the handler in exception_env; what *)
(* the script does with it is Evaluator's affair, here it just runs on.     *)
(***************************************************************************)
EXTENDS Naturals, Sequences, SequencesExt, FiniteSets

CONSTANTS
  Embedded,        \* modules in the binary
  Module,          \* modules looked for by name
  Prefix,          \* aliases and names functions are registered under
  NoPrefix,        \* the empty prefix, as of import a/.b
  Function,        \* names of the functions of libraries
  TempName,        \* names mkstemp chooses from
  LAVA_MAX_SLOTS,  \* trampolines
  MaxLibraries     \* bound on the libraries opened in one run

NoFile == "no file"    \* temp, when an import has none in /tmp

ASSUME LavaAssumption ==
  /\ LAVA_MAX_SLOTS \in Nat \ {0} /\ MaxLibraries \in Nat
  /\ NoPrefix \notin Prefix /\ NoFile \notin TempName

None == 0    \* no library; they are numbered in the order they are opened

Library == 1..MaxLibraries
Slot == 1..LAVA_MAX_SLOTS
Type == {"int", "list", "map"}   \* "int" for float, string and bool too
Source == {"embedded", "user", "system", "path", "path.lava"}
Entry == [lib : Library, prefix : Prefix, fn : Function]

VARIABLES
  phase,         \* what the thread is doing
  candidates,    \* the sources an import has still to try
  prefix,        \* the prefix it registers under
  temp,          \* its file in /tmp, if any
  files,         \* the files in /tmp
  opened,        \* how many libraries have been opened
  mapped,        \* those that are
  g_handles,     \* the list lava_cleanup closes
  g_slots,       \* trampolines in use
  func_table,    \* from prefixed names to trampolines; the newest one counts
  loading,       \* g_loading_module_path and g_loading_prefix
  exception_env, \* who armed the handler in force
  g_ctx,         \* the call in progress of a native function
  raised         \* how many libraries failed while they registered

vars == <<phase, candidates, prefix, temp, files, opened, mapped, g_handles,
          g_slots, func_table, loading, exception_env, g_ctx, raised>>
search == <<candidates, prefix, temp, files>>
libraries == <<opened, mapped, g_handles, loading, raised>>
tables == <<g_slots, func_table>>
call == <<exception_env, g_ctx>>

NoCtx == [type |-> "none", value |-> "none"]
NotLoading == [lib |-> None, prefix |-> NoPrefix]

-----------------------------------------------------------------------------
(* Import. A Fire module of that name would have been taken before.         *)

StartSearch(sources, p) ==
  /\ phase = "script"
  /\ phase' = "search"
  /\ candidates' = sources
  /\ prefix' = p
  /\ UNCHANGED <<temp, files, libraries, tables, call>>

lava_try_import(m, home, p) ==
  StartSearch((IF m \in Embedded THEN <<"embedded">> ELSE <<>>)
              \o (IF home THEN <<"user">> ELSE <<>>) \o <<"system">>, p)

lava_try_import_path(has_ext, p) ==
  p \in Prefix /\ StartSearch(IF has_ext THEN <<"path">>
                              ELSE <<"path", "path.lava">>, p)

(* No candidate is left: the import is an error, or a path's file is read   *)
(* as a Fire module.                                                        *)
GiveUp ==
  /\ phase = "search" /\ candidates = <<>>
  /\ phase' = "script"
  /\ prefix' = NoPrefix
  /\ UNCHANGED <<candidates, temp, files, libraries, tables, call>>

Trying(source) == phase = "search" /\ candidates # <<>> /\ Head(candidates) = source

TryNext == phase' = "search" /\ candidates' = Tail(candidates)

(* Removes the file of an embedded library, if there is one.                *)
unlink == temp' = NoFile /\ files' = files \ {temp}

(* An embedded library goes through a file in /tmp: SYS_memfd_create is not *)
(* defined where lava.c asks for it.                                        *)
mkstemp ==
  /\ Trying("embedded")
  /\ \/ \E t \in TempName \ files :
          /\ phase' = "write" /\ temp' = t /\ files' = files \cup {t}
          /\ UNCHANGED candidates
     \/ TryNext /\ UNCHANGED <<temp, files>>
  /\ UNCHANGED <<prefix, libraries, tables, call>>

write ==
  /\ phase = "write"
  /\ \/ phase' = "written" /\ UNCHANGED <<candidates, temp, files>>
     \/ TryNext /\ unlink
  /\ UNCHANGED <<prefix, libraries, tables, call>>

(* Mutant: the file of a library that cannot be opened stays.               *)
CannotOpen_keeps ==
  /\ phase = "written" \/ \E s \in Source \ {"embedded"} : Trying(s)
  /\ TryNext /\ temp' = NoFile
  /\ UNCHANGED <<prefix, files, libraries, tables, call>>

(* There is nothing at the candidate's path, or nothing dlopen takes.       *)
CannotOpen ==
  /\ phase = "written" \/ \E s \in Source \ {"embedded"} : Trying(s)
  /\ TryNext /\ unlink
  /\ UNCHANGED <<prefix, libraries, tables, call>>

dlopen ==
  /\ phase = "written" \/ \E s \in Source \ {"embedded"} : Trying(s)
  /\ opened < MaxLibraries
  /\ phase' = "opened"
  /\ opened' = opened + 1
  /\ mapped' = mapped \cup {opened'}
  /\ UNCHANGED <<search, g_handles, loading, raised, tables, call>>

(* The library has no infernal_lava_register.                               *)
NoRegister ==
  /\ phase = "opened"
  /\ mapped' = mapped \ {opened}
  /\ TryNext /\ unlink
  /\ UNCHANGED <<prefix, opened, g_handles, loading, raised, tables, call>>

(* The list of handles goes without the library if memory is short.         *)
lava_init_handle ==
  /\ phase = "opened"
  /\ phase' = "register"
  /\ g_handles' \in {g_handles, <<opened>> \o g_handles}
  /\ loading' = [lib |-> opened, prefix |-> prefix]
  /\ exception_env' = "register"
  /\ UNCHANGED <<search, opened, mapped, raised, tables, g_ctx>>

-----------------------------------------------------------------------------
(* What the library does in infernal_lava_register.                         *)

(* The name with the prefix now leads to the trampoline of the new entry.   *)
Register(fn) ==
  LET name == <<loading.prefix, fn>> IN
  /\ g_slots' = Append(g_slots, [lib |-> loading.lib, prefix |-> loading.prefix,
                                 fn |-> fn])
  /\ func_table' = [n \in DOMAIN func_table \cup {name} |->
                      IF n = name THEN Len(g_slots') ELSE func_table[n]]

(* Mutant: the table is taken to have one more trampoline.                  *)
lava_register_fn_257th(fn) ==
  /\ phase = "register"
  /\ loading.prefix # NoPrefix
  /\ Len(g_slots) <= LAVA_MAX_SLOTS
  /\ Register(fn)
  /\ UNCHANGED <<phase, search, libraries, call>>

(* A registration that is refused, for an invalid signature, an empty       *)
(* prefix, a full table or a lack of memory, changes nothing.               *)
lava_register_fn(fn) ==
  /\ phase = "register"
  /\ loading.prefix # NoPrefix
  /\ Len(g_slots) < LAVA_MAX_SLOTS
  /\ Register(fn)
  /\ UNCHANGED <<phase, search, libraries, call>>

Registered ==
  /\ phase = "register"
  /\ phase' = "script"
  /\ loading' = NotLoading
  /\ exception_env' = "script"
  /\ candidates' = <<>> /\ prefix' = NoPrefix /\ unlink
  /\ UNCHANGED <<opened, mapped, g_handles, raised, tables, g_ctx>>

(* An error in it goes to the handler of lava_init_handle, which passes it  *)
(* on: past the removal of the file.                                        *)
RegisterRaises ==
  /\ phase = "register"
  /\ phase' = "script"
  /\ loading' = NotLoading
  /\ exception_env' = "script"
  /\ raised' = raised + 1
  /\ candidates' = <<>> /\ prefix' = NoPrefix /\ temp' = NoFile
  /\ UNCHANGED <<files, opened, mapped, g_handles, tables, g_ctx>>

-----------------------------------------------------------------------------
(* Calls. Wrong numbers of arguments are refused before anything happens.   *)

lava_dispatch(name) ==
  /\ phase = "script"
  /\ name \in DOMAIN func_table
  /\ phase' = "convert"
  /\ exception_env' = "call"
  /\ UNCHANGED <<search, libraries, tables, g_ctx>>

(* An argument that is no int, or no memory.                                *)
BadArgument ==
  /\ phase = "convert"
  /\ phase' = "script"
  /\ exception_env' = "script"
  /\ UNCHANGED <<search, libraries, tables, g_ctx>>

ffi_call ==
  /\ phase = "convert"
  /\ phase' = "native"
  /\ g_ctx' = [type |-> "unset", value |-> "unset"]
  /\ UNCHANGED <<search, libraries, tables, exception_env>>

(* abort() ends the process at once: nothing is cleaned up.                 *)
abort == phase' = "aborted" /\ UNCHANGED g_ctx

infernal_return_type(t) ==
  /\ phase = "native"
  /\ IF g_ctx.type # "unset" \/ t \notin Type THEN abort
     ELSE g_ctx' = [g_ctx EXCEPT !.type = t] /\ UNCHANGED phase
  /\ UNCHANGED <<search, libraries, tables, exception_env>>

(* For a list or a map, an empty one.                                       *)
infernal_return_value ==
  /\ phase = "native"
  /\ IF g_ctx.type = "unset" \/ g_ctx.value # "unset" THEN abort
     ELSE g_ctx' = [g_ctx EXCEPT !.value = g_ctx.type] /\ UNCHANGED phase
  /\ UNCHANGED <<search, libraries, tables, exception_env>>

(* infernal_return_list, infernal_return_map, infernal_return_value_raw.    *)
infernal_return(t) ==
  /\ phase = "native"
  /\ IF g_ctx.type # "unset" \/ g_ctx.value # "unset" THEN abort
     ELSE g_ctx' = [type |-> t, value |-> t] /\ UNCHANGED phase
  /\ UNCHANGED <<search, libraries, tables, exception_env>>

(* Mutant: the context of the call outlives it.                             *)
CallRaises_in_context ==
  /\ phase = "native"
  /\ phase' = "script"
  /\ exception_env' = "script"
  /\ UNCHANGED <<search, libraries, tables, g_ctx>>

(* lava_arg_int and others raise an error for a value they cannot convert.  *)
CallRaises ==
  /\ phase = "native"
  /\ phase' = "script"
  /\ exception_env' = "script"
  /\ g_ctx' = NoCtx
  /\ UNCHANGED <<search, libraries, tables>>

(* lava_arg_at with an index out of range, or a return value while the      *)
(* library registers.                                                       *)
Misuse ==
  /\ phase \in {"register", "native"}
  /\ abort
  /\ UNCHANGED <<search, libraries, tables, exception_env>>

(* The function returns; without a type it is an error all the same.        *)
CallReturns ==
  /\ phase = "native"
  /\ phase' = "script"
  /\ exception_env' = "script"
  /\ g_ctx' = NoCtx
  /\ UNCHANGED <<search, libraries, tables>>

-----------------------------------------------------------------------------
(* The end: handles are closed before the table that leads to them is gone, *)
(* with nobody left to call.                                                *)

lava_cleanup ==
  /\ phase = "script"
  /\ phase' = "ended"
  /\ mapped' = mapped \ ToSet(g_handles)
  /\ g_handles' = <<>>
  /\ g_slots' = <<>>
  /\ func_table' = [n \in {} |-> None]
  /\ UNCHANGED <<search, opened, loading, raised, call>>

Kill ==
  /\ phase \notin {"ended", "aborted", "killed"}
  /\ phase' = "killed"
  /\ UNCHANGED <<search, libraries, tables, call>>

Init ==
  /\ phase = "script"
  /\ candidates = <<>> /\ prefix = NoPrefix /\ temp = NoFile /\ files = {}
  /\ opened = 0 /\ mapped = {} /\ g_handles = <<>> /\ raised = 0
  /\ g_slots = <<>> /\ func_table = [n \in {} |-> None]
  /\ loading = NotLoading
  /\ exception_env = "script" /\ g_ctx = NoCtx

Import ==
  \/ \E m \in Module, home \in BOOLEAN, p \in Prefix \cup {NoPrefix} :
       lava_try_import(m, home, p)
  \/ \E has_ext \in BOOLEAN, p \in Prefix : lava_try_import_path(has_ext, p)
  \/ GiveUp \/ mkstemp \/ write \/ CannotOpen \/ dlopen \/ NoRegister

Registration ==
  \/ lava_init_handle
  \/ \E fn \in Function : lava_register_fn(fn)
  \/ Registered \/ RegisterRaises

Call ==
  \/ \E name \in DOMAIN func_table : lava_dispatch(name)
  \/ BadArgument \/ ffi_call
  \/ \E t \in Type \cup {"invalid"} : infernal_return_type(t)
  \/ \E t \in Type : infernal_return(t)
  \/ infernal_return_value \/ CallRaises \/ CallReturns

Next == Import \/ Registration \/ Call \/ Misuse \/ lava_cleanup \/ Kill
Spec == Init /\ [][Next]_vars

-----------------------------------------------------------------------------
(* Properties.                                                              *)

(* The state of the loader is of its types.                                 *)
TypeOK ==
  /\ phase \in {"script", "search", "write", "written", "opened", "register",
                "convert", "native", "ended", "aborted", "killed"}
  /\ candidates \in Seq(Source)
  /\ prefix \in Prefix \cup {NoPrefix}
  /\ temp \in files \cup {NoFile} /\ files \subseteq TempName
  /\ opened \in 0..MaxLibraries /\ mapped \subseteq 1..opened
  /\ g_handles \in Seq(1..opened) /\ raised \in 0..opened
  /\ g_slots \in Seq(Entry)
  /\ DOMAIN func_table \subseteq Prefix \X Function
  /\ loading \in [lib : {None, opened}, prefix : Prefix \cup {NoPrefix}]
  /\ exception_env \in {"script", "register", "call"}
  /\ g_ctx \in [type : Type \cup {"unset"}, value : Type \cup {"unset"}]
              \cup {NoCtx}

(* A name leads to one of the trampolines there are, to the entry last      *)
(* registered under it, and to code that is mapped: errors while libraries  *)
(* register, fallbacks and repeated imports change nothing about it.        *)
NamesLead ==
  \A name \in DOMAIN func_table :
    LET slot == func_table[name]
        OfName == {s \in DOMAIN g_slots :
                     <<g_slots[s].prefix, g_slots[s].fn>> = name}
    IN /\ slot \in OfName \cap Slot
       /\ \A s \in OfName : s <= slot
       /\ g_slots[slot].lib \in mapped

(* Whichever way an import or a call is left, the handler that was in force *)
(* is in force again, and neither a loading module nor a call in progress   *)
(* is left behind for the next one.                                         *)
LoaderRestored ==
  phase \notin {"killed", "aborted"} =>
    /\ exception_env = "register" <=> phase = "register"
    /\ exception_env = "call" <=> phase \in {"convert", "native"}
    /\ loading # NotLoading <=> phase = "register"
    /\ g_ctx # NoCtx <=> phase = "native"

(* lava_cleanup closes what is open, and nothing twice.                     *)
HandlesOpen ==
  /\ ToSet(g_handles) \subseteq mapped
  /\ \A i, j \in DOMAIN g_handles : i # j => g_handles[i] # g_handles[j]

(* A module registers under its own prefix: importing one changes nothing   *)
(* about the functions of another (lava.c:905-912).                         *)
PrefixesApart ==
  [][\A name \in DOMAIN func_table' :
       name[1] = loading.prefix
       \/ (name \in DOMAIN func_table /\ func_table'[name] = func_table[name])]_vars

(* A file in /tmp that no import is using is that of a library that raised  *)
(* an error while it registered, or of an interpreter that was killed.      *)
TempsAccounted ==
  phase \notin {"killed", "aborted"} => Cardinality(files \ {temp}) <= raised
=============================================================================
