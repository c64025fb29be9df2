--------------------------------- MODULE Packs ---------------------------------
(***************************************************************************)
(* Packs of awk threads: the loader and the checks of                      *)
(* crates/hawk/src/packs.rs, and how main.rs resolves --transform.         *)
(*                                                                         *)
(* The packs directory is read in the order of the names of its entries,   *)
(* so it is a sequence of packs, a pack's manifest a sequence of threads.  *)
(* A thread is known by its place <<p, t>>.  Of an argument's value only   *)
(* what the checks tell apart is kept:                                     *)
(*   "" empty, "blank" white space, "bit" 0 or 1, "int" another i64,       *)
(*   "bool" true or false in any case, "text" anything else.               *)
(***************************************************************************)
EXTENDS Texts

(* toml_value_to_string: a float without a fraction prints as an integer.   *)
toml_value_to_string(v) ==
    CASE v.toml = "none"    -> ""
      [] v.toml = "string"  -> v.text
      [] v.toml = "integer" -> IF v.n \in {0, 1} THEN "bit" ELSE "int"
      [] v.toml = "float"   -> IF ~v.whole THEN "text" ELSE IF v.n \in {0, 1} THEN "bit" ELSE "int"
      [] v.toml = "boolean" -> "bool"
      [] v.toml = "other"   -> "text"

IsInt(text) == text \in {"bit", "int"}
IsBool(text) == text \in {"bit", "bool"}

(* parse_arg_type *)
IsArgType(ty) == ty \in {"string", "int", "bool"}

(* Mutant: the default of a bool is not looked at. *)
validate_arg_default_lax(ty, default) ==
    ty = "int" => default \in {"", "blank"} \/ IsInt(default)

validate_arg_default(ty, default) ==
    /\ ty = "int" => default \in {"", "blank"} \/ IsInt(default)
    /\ ty = "bool" => default = "" \/ IsBool(default)

ensure_safe_rel_path(file) == ~file.absolute /\ ".." \notin Range(file.parts)

ThreadAccepted(th, exists) ==
    /\ ensure_safe_rel_path(th.file)
    /\ Trim(th.id) # <<>>
    /\ Trim(th.kind) # <<>>
    /\ exists
    /\ \A i \in DOMAIN th.args :
          /\ IsArgType(th.args[i].ty)
          /\ validate_arg_default(th.args[i].ty, toml_value_to_string(th.args[i].default))

Places(packs) == UNION {{p} \X DOMAIN packs[p].threads : p \in DOMAIN packs}
ThreadAt(packs, pt) == packs[pt[1]].threads[pt[2]]
IdAt(packs, pt) == ThreadAt(packs, pt).id

(* Whether parse_pack_manifest succeeds for pack p; gone is the set of      *)
(* threads whose script is not there.                                       *)
parse_pack_manifest(packs, p, gone) ==
    /\ packs[p].manifest = "toml"
    /\ \A t \in DOMAIN packs[p].threads :
          ThreadAccepted(packs[p].threads[t], <<p, t>> \notin gone)

(* Places of the threads in the packs that have a manifest. *)
Listed(disk) == {pt \in Places(disk.packs) : disk.packs[pt[1]].manifest # "missing"}

(* Whether load_packs succeeds. *)
LoadOk(disk, gone) ==
    \/ disk.dir = "missing"
    \/ /\ disk.dir = "ok"
       /\ \A p \in DOMAIN disk.packs :
             disk.packs[p].manifest = "missing" \/ parse_pack_manifest(disk.packs, p, gone)
       /\ \A a, b \in Listed(disk) : IdAt(disk.packs, a) = IdAt(disk.packs, b) => a = b

(* The index load_packs returns: thread ids to places. *)
load_packs(disk) ==
    LET found == IF disk.dir = "ok" THEN Listed(disk) ELSE {}
    IN  [id \in {IdAt(disk.packs, pt) : pt \in found} |->
            CHOOSE pt \in found : IdAt(disk.packs, pt) = id]

-------------------------------------------------------------------------------
(* Transform variables.  Of two arguments of one name the later counts.     *)

ArgNames(args) == {args[i].name : i \in DOMAIN args}
ArgNamed(args, name) == args[Max({i \in DOMAIN args : args[i].name = name})]

default_tvars(args) ==
    [k \in ArgNames(args) |-> toml_value_to_string(ArgNamed(args, k).default)]

validate_tvars(args, tvars) ==
    \A k \in DOMAIN tvars :
        /\ k \in ArgNames(args)
        /\ ArgNamed(args, k).ty = "int" => IsInt(tvars[k])
        /\ ArgNamed(args, k).ty = "bool" => IsBool(tvars[k])

(* parse_transform: "thread:<id>" and "file:<path>" with something behind.  *)
parse_transform(option) == option.mode \in {"thread", "file"} /\ Trim(option.target) # <<>>

(* The variables of the command line over the defaults. *)
Merged(args, tvars) ==
    [k \in ArgNames(args) \cup DOMAIN tvars |->
        IF k \in DOMAIN tvars THEN tvars[k] ELSE default_tvars(args)[k]]

(* main: the thread must be in the index and take the variables.            *)
ThreadResolves(disk, target, tvars) ==
    LET idx == load_packs(disk)
        id == Trim(target)
        args == ThreadAt(disk.packs, idx[id]).args
    IN  id \in DOMAIN idx /\ validate_tvars(args, Merged(args, tvars))
===============================================================================
