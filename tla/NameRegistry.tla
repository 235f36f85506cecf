---------------------------- MODULE NameRegistry ----------------------------
(***************************************************************************)
(* Registry<T> (ts/registry/registry.ts): canonical names and aliases for  *)
(* algorithms and features.  Names are compared in lower case, so a name   *)
(* here is a lower-cased spelling.  Registrations are made when modules    *)
(* are loaded, by the package and by applications, and may throw half way. *)
(***************************************************************************)
EXTENDS Naturals, Sequences

CONSTANTS
  Name,      \* the spellings, in lower case
  Value,     \* what names stand for; undefined is not one of them
  AliasList, \* the alias arrays a caller may pass
  Unknown    \* the outcome of a lookup that throws

ASSUME RegistryAssumption ==
  /\ AliasList \subseteq Seq(Name)
  /\ Unknown \notin Value

VARIABLES
  values,    \* canonical name -> value
  aliases    \* alias -> canonical name

vars == <<values, aliases>>

Init == values = <<>> /\ aliases = <<>>

\* lookup(): an alias wins over a canonical name; Unknown when it throws.
Key(n)    == IF n \in DOMAIN aliases THEN aliases[n] ELSE n
Has(n)    == Key(n) \in DOMAIN values
Lookup(n) == IF Has(n) THEN values[Key(n)] ELSE Unknown

\* Mutant of Fresh: the name itself is not skipped.
FreshWithSelf(name, list) ==
  {i \in 1..Len(list) : \A j \in 1..(i - 1) : list[j] # list[i]}

\* The aliases of a list that are neither the name itself nor a repetition.
Fresh(name, list) ==
  {i \in 1..Len(list) :
     list[i] # name /\ \A j \in 1..(i - 1) : list[j] # list[i]}

\* Mutant of Colliding: an alias is not compared with the canonical names.
CollidingAliases(name, list) ==
  {i \in Fresh(name, list) : list[i] \in DOMAIN aliases}

\* Those among them that already stand for something: the first one throws.
Colliding(name, list) ==
  {i \in Fresh(name, list) : list[i] \in DOMAIN aliases \cup DOMAIN values}

\* The aliases set before register() returns or throws.
Accepted(name, list) ==
  {list[i] : i \in {k \in Fresh(name, list) :
                      \A j \in Colliding(name, list) : k < j}}

Extended(m, keys, v) ==
  [n \in DOMAIN m \cup keys |-> IF n \in keys THEN v ELSE m[n]]

\* register(): only the canonical names are searched for the name.
Register(name, value, list) ==
  /\ name \notin DOMAIN values
  /\ values'  = Extended(values, {name}, value)
  /\ aliases' = Extended(aliases, Accepted(name, list), name)

Next ==
  \E name \in Name, value \in Value, list \in AliasList :
    Register(name, value, list)

Spec == Init /\ [][Next]_vars

-----------------------------------------------------------------------------
TypeOK ==
  /\ DOMAIN values \in SUBSET Name /\ \A n \in DOMAIN values : values[n] \in Value
  /\ DOMAIN aliases \in SUBSET Name /\ \A n \in DOMAIN aliases : aliases[n] \in Name

(***************************************************************************)
(* Every alias leads to a registered name in one step, also after calls of *)
(* register() that threw half way: has() and lookup() never disagree.      *)
(***************************************************************************)
AliasesResolve ==
  \A n \in DOMAIN aliases : aliases[n] \in DOMAIN values /\ aliases[n] # n

(***************************************************************************)
(* What a spelling stands for never changes: no registration, complete or  *)
(* thrown half way, can redirect a name that already resolves.             *)
(***************************************************************************)
LookupStable ==
  [][\A n \in Name : Has(n) => Lookup(n)' = Lookup(n)]_vars

(***************************************************************************)
(* registry.ts:34: a name that collides with an alias is refused; so each  *)
(* canonical name looks up its own value.                                  *)
(***************************************************************************)
CanonicalNamesWin == \A n \in DOMAIN values : Lookup(n) = values[n]
=============================================================================
