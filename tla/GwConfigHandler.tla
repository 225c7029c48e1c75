-------------------------- MODULE GwConfigHandler --------------------------
(***************************************************************************)
(* The configuration (lib/config/GWConfig.cpp): items with a name and a    *)
(* value, the values in memory that the gateway works with, and those      *)
(* stored in the preferences (NVS), which are read at the next start.      *)
(*                                                                         *)
(* A text (a name or a value) is a sequence of symbols.  The preferences   *)
(* are a function from the names that have a key to their values.          *)
(***************************************************************************)
EXTENDS Integers, Sequences

CONSTANTS
  Items,           (* the names of the configuration items                 *)
  Secrets,         (* the items of type password                           *)
  Default,         (* item -> its initial value, that of a CFG_INIT too    *)
  Fixed,           (* some items -> the value preinit sets by setValue     *)
  useAdminPass, adminPassword,      (* two of the names                    *)
  True,            (* the value that asBoolean takes as true               *)
  Windows          (* salts accepted by checkPass: 5 of 8 seconds each     *)

ASSUME ConfigAssumption ==
  /\ Secrets \subseteq Items /\ {useAdminPass, adminPassword} \subseteq Items
  /\ DOMAIN Default = Items /\ DOMAIN Fixed \subseteq Items
  /\ Windows \in Nat \ {0}

Empty == << >>

(* loadConfig, then setValue from preinit until stopChanges is called. *)
loadConfig(prefs) ==
  [i \in Items |-> IF i \in DOMAIN Fixed THEN Fixed[i]
                   ELSE IF i \in DOMAIN prefs THEN prefs[i] ELSE Default[i]]

(* Faulty variant: a name that is no item gets a key. *)
isKnownAlways(i) == TRUE
isKnown(i) == i \in Items

(* updateValue stores a value that differs from the one in memory; an      *)
(* empty password is skipped.                                              *)
updates(mem, i, v) ==
  /\ isKnown(i)
  /\ i \in Secrets => v # Empty
  /\ i \in DOMAIN mem => mem[i] # v

putString(prefs, i, v) == [j \in DOMAIN prefs \cup {i} |-> IF j = i THEN v ELSE prefs[j]]

(* A hash is made of a salt, known by its age in windows (Windows for all  *)
(* that are older, or of an earlier start), and of a password.             *)
checkPass(mem, hash) ==
  \/ mem[useAdminPass] # True
  \/ (hash.pass = mem[adminPassword] /\ hash.age < Windows)
=============================================================================
