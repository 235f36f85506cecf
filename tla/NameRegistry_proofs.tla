------------------------ MODULE NameRegistry_proofs ------------------------
(***************************************************************************)
(* Theorems about Registry<T> for any spellings, values and alias lists.   *)
(* The invariant is TypeOK /\ AliasesResolve; that a lookup never changes  *)
(* follows from it and from the two tests register() makes.  The           *)
(* registries of the package implement NameRegistry, so that the same      *)
(* holds of them, with whatever an application adds.                       *)
(*                                                                         *)
(* What the package's own tables leave in a registry is proved from three  *)
(* facts: the tables are Apart (no name twice, and no alias that an        *)
(* earlier entry has), the post-quantum names are their own, and a         *)
(* registration makes known its own spellings and nothing else.            *)
(***************************************************************************)
EXTENDS PackageRegistries, WellFoundedInduction, TLAPS

\* An accepted alias is a new spelling: not the name, and in neither map.
LEMMA AcceptedIsNew ==
  ASSUME NEW name \in Name, NEW list \in AliasList,
         NEW n \in Accepted(name, list)
  PROVE  /\ n \in Name
         /\ n # name
         /\ n \notin DOMAIN aliases
         /\ n \notin DOMAIN values
<1>1. PICK k \in Fresh(name, list) :
         /\ n = list[k]
         /\ \A j \in Colliding(name, list) : k < j
  BY DEF Accepted
<1>2. list \in Seq(Name) /\ k \in 1..Len(list) /\ list[k] # name
  BY <1>1, RegistryAssumption DEF Fresh
<1>3. k \notin Colliding(name, list)
  BY <1>1, <1>2
<1>4. list[k] \notin DOMAIN aliases \cup DOMAIN values
  BY <1>1, <1>3 DEF Colliding
<1> QED BY <1>1, <1>2, <1>4

LEMMA InitType == Init => TypeOK /\ AliasesResolve
BY DEF Init, TypeOK, AliasesResolve

\* register() keeps the types, complete or thrown half way.
LEMMA RegisterType ==
  ASSUME TypeOK,
         NEW name \in Name, NEW value \in Value, NEW list \in AliasList,
         Register(name, value, list)
  PROVE  TypeOK'
<1>1. /\ DOMAIN values' = DOMAIN values \cup {name}
      /\ values'[name] = value
      /\ \A n \in DOMAIN values \ {name} : values'[n] = values[n]
  BY DEF Register, Extended
<1>2. /\ DOMAIN aliases' = DOMAIN aliases \cup Accepted(name, list)
      /\ \A n \in Accepted(name, list) : aliases'[n] = name
      /\ \A n \in DOMAIN aliases \ Accepted(name, list) : aliases'[n] = aliases[n]
  BY DEF Register, Extended
<1>3. Accepted(name, list) \subseteq Name
  BY AcceptedIsNew
<1> QED BY <1>1, <1>2, <1>3 DEF TypeOK

\* register() leaves every alias one step from a registered name.
LEMMA RegisterResolves ==
  ASSUME TypeOK, AliasesResolve,
         NEW name \in Name, NEW value \in Value, NEW list \in AliasList,
         Register(name, value, list)
  PROVE  AliasesResolve'
<1>1. DOMAIN values' = DOMAIN values \cup {name}
  BY DEF Register, Extended
<1>2. /\ DOMAIN aliases' = DOMAIN aliases \cup Accepted(name, list)
      /\ \A n \in Accepted(name, list) : aliases'[n] = name
      /\ \A n \in DOMAIN aliases \ Accepted(name, list) : aliases'[n] = aliases[n]
  BY DEF Register, Extended
<1>3. \A n \in Accepted(name, list) : n # name
  BY AcceptedIsNew
<1> QED BY <1>1, <1>2, <1>3 DEF AliasesResolve

LEMMA StepResolves ==
  ASSUME TypeOK, AliasesResolve, [Next]_vars
  PROVE  TypeOK' /\ AliasesResolve'
<1>1. CASE Next
  BY <1>1, RegisterType, RegisterResolves DEF Next
<1>2. CASE UNCHANGED vars
  BY <1>2 DEF vars, TypeOK, AliasesResolve
<1> QED BY <1>1, <1>2

(***************************************************************************)
(* The maps are well typed and every alias leads to a registered name in   *)
(* one step (registry.ts register).                                        *)
(***************************************************************************)
THEOREM Resolving == Spec => [](TypeOK /\ AliasesResolve)
<1>1. TypeOK /\ AliasesResolve /\ [Next]_vars => (TypeOK /\ AliasesResolve)'
  BY StepResolves
<1> QED BY <1>1, InitType, PTL DEF Spec

\* A registration redirects no spelling that resolves already.
LEMMA RegisterStable ==
  ASSUME TypeOK, AliasesResolve,
         NEW name \in Name, NEW value \in Value, NEW list \in AliasList,
         Register(name, value, list),
         NEW n \in Name, Has(n)
  PROVE  Lookup(n)' = Lookup(n)
<1>1. /\ DOMAIN values' = DOMAIN values \cup {name}
      /\ \A x \in DOMAIN values \ {name} : values'[x] = values[x]
      /\ name \notin DOMAIN values
  BY DEF Register, Extended
<1>2. /\ DOMAIN aliases' = DOMAIN aliases \cup Accepted(name, list)
      /\ \A x \in DOMAIN aliases \ Accepted(name, list) : aliases'[x] = aliases[x]
  BY DEF Register, Extended
<1>3. \A x \in Accepted(name, list) : x \notin DOMAIN aliases /\ x \notin DOMAIN values
  BY AcceptedIsNew
<1>4. Key(n)' = Key(n)
  <2>1. CASE n \in DOMAIN aliases
    BY <2>1, <1>2, <1>3 DEF Key
  <2>2. CASE n \notin DOMAIN aliases
    <3>1. n \in DOMAIN values
      BY <2>2 DEF Has, Key
    <3> QED BY <2>2, <3>1, <1>2, <1>3 DEF Key
  <2> QED BY <2>1, <2>2
<1>5. Key(n) \in DOMAIN values /\ values'[Key(n)] = values[Key(n)]
  BY <1>1 DEF Has
<1> QED BY <1>1, <1>4, <1>5 DEF Lookup, Has

(***************************************************************************)
(* What a spelling stands for never changes (registry.ts lookup).          *)
(***************************************************************************)
THEOREM Stable == Spec => LookupStable
<1>1. TypeOK /\ AliasesResolve /\ [Next]_vars =>
        [\A n \in Name : Has(n) => Lookup(n)' = Lookup(n)]_vars
  <2> SUFFICES ASSUME TypeOK, AliasesResolve, Next
               PROVE  \A n \in Name : Has(n) => Lookup(n)' = Lookup(n)
    OBVIOUS
  <2> QED BY RegisterStable DEF Next
<1> QED BY <1>1, Resolving, PTL DEF Spec, LookupStable

-----------------------------------------------------------------------------
\* An entry of a table is registered like anything else, or not at all.
LEMMA EntryRegisters ==
  ASSUME NEW e \in Entries, RegisterEntry(e)
  PROVE  [Next]_vars
<1>1. CASE e.name \in DOMAIN values
  BY <1>1 DEF RegisterEntry
<1>2. CASE e.name \notin DOMAIN values
  <2>1. Register(e.name, e.name, e.list)
    BY <1>2 DEF RegisterEntry
  <2>2. e.name \in Name /\ e.name \in Value /\ e.list \in AliasList
    BY PackageAssumption
  <2> QED BY <2>1, <2>2 DEF Next
<1> QED BY <1>1, <1>2

LEMMA TableKept ==
  ASSUME table \in DOMAIN Tables, [PackageNext]_pvars
  PROVE  table' \in DOMAIN Tables
BY DEF PackageNext, pvars, LoadNext, RegisterOwn, CallPqc, PqcNext

\* Each step of the package is a registration or leaves the registry alone.
LEMMA PackageStep ==
  ASSUME table \in DOMAIN Tables, [PackageNext]_pvars
  PROVE  [Next]_vars
<1>1. CASE LoadNext
  <2>1. Tables[table][loaded + 1] \in Entries
    BY <1>1 DEF LoadNext, Entries
  <2> QED BY <1>1, <2>1, EntryRegisters DEF LoadNext
<1>2. ASSUME NEW name \in OwnName, NEW list \in OwnLists, RegisterOwn(name, list)
      PROVE  [Next]_vars
  <2>1. name \in Name /\ list \in AliasList /\ OwnValue \in Value
    BY PackageAssumption
  <2> QED BY <1>2, <2>1 DEF RegisterOwn, Next
<1>3. CASE CallPqc
  BY <1>3 DEF CallPqc, vars
<1>4. CASE PqcNext
  <2>1. PqcTable[pqcDone + 1] \in Entries
    BY <1>4 DEF PqcNext, Entries
  <2> QED BY <1>4, <2>1, EntryRegisters DEF PqcNext
<1>5. CASE UNCHANGED pvars
  BY <1>5 DEF pvars, vars
<1> QED BY <1>1, <1>2, <1>3, <1>4, <1>5 DEF PackageNext

(***************************************************************************)
(* The package's registries and an application's additions to them are a   *)
(* history of registrations.                                               *)
(***************************************************************************)
THEOREM PackageRefines == PackageSpec => Spec
<1>1. PackageInit => Init /\ table \in DOMAIN Tables
  BY DEF PackageInit
<1>2. table \in DOMAIN Tables /\ [PackageNext]_pvars => (table \in DOMAIN Tables)'
  BY TableKept
<1>3. table \in DOMAIN Tables /\ [PackageNext]_pvars => [Next]_vars
  BY PackageStep
<1> QED BY <1>1, <1>2, <1>3, PTL DEF PackageSpec, Spec

(***************************************************************************)
(* Every alias of the package leads to a registered name, also after a     *)
(* registerPqcAlgorithms() that threw half way (pqc.ts:17).                *)
(***************************************************************************)
THEOREM PackageResolves == PackageSpec => []AliasesResolve
<1>1. TypeOK /\ AliasesResolve => AliasesResolve
  OBVIOUS
<1> QED BY <1>1, PackageRefines, Resolving, PTL

(***************************************************************************)
(* No registration of the package or the application redirects a name.     *)
(***************************************************************************)
THEOREM PackageStable == PackageSpec => LookupStable
BY PackageRefines, Stable, PTL

-----------------------------------------------------------------------------
(* The package's tables.                                                   *)

Listed(e) == {e.list[i] : i \in DOMAIN e.list}

\* S is a list in which no entry takes the name of an earlier one, and what it
\* lists beside its own name is neither name nor alias of an earlier one.
Apart(S) ==
  /\ Len(S) \in Nat /\ DOMAIN S = 1..Len(S)
  /\ \A i, j \in 1..Len(S) : j < i =>
       /\ S[i].name # S[j].name
       /\ \A n \in Listed(S[i]) : n # S[i].name => n \notin Spellings(S[j])

LEMMA Least ==
  ASSUME NEW S \in SUBSET Nat, S # {}
  PROVE  \E m \in S : \A k \in S : m <= k
<1> DEFINE R == OpToRel(<, Nat)
<1>1. IsWellFoundedOn(R, Nat)
  BY NatLessThanWellFounded
<1>2. \A k, m \in Nat : k < m => <<k, m>> \in R
  BY DEF OpToRel
<1> HIDE DEF R
<1>3. PICK m \in S : \A k \in S : ~(<<k, m>> \in R)
  BY <1>1, WFMin
<1>4. \A k \in S : m \in Nat /\ k \in Nat /\ ~(k < m)
  BY <1>2, <1>3
<1> QED BY <1>4

LEMMA Spelled == \A e : Spellings(e) = {e.name} \cup Listed(e)
BY DEF Spellings, Listed

\* Lists of up to three aliases.
LEMMA Lists ==
  ASSUME NEW e
  PROVE  /\ DOMAIN e.list = {} => Listed(e) = {}
         /\ DOMAIN e.list = 1..1 => Listed(e) = {e.list[1]}
         /\ DOMAIN e.list = 1..2 => Listed(e) = {e.list[1], e.list[2]}
         /\ DOMAIN e.list = 1..3 => Listed(e) = {e.list[1], e.list[2], e.list[3]}
<1>1. 1..1 = {1} /\ 1..2 = {1, 2} /\ 1..3 = {1, 2, 3}
  OBVIOUS
<1> QED BY <1>1 DEF Listed

LEMMA ApartIf ==
  ASSUME NEW S, NEW N \in Nat, Len(S) = N, DOMAIN S = 1..N,
         \A i, j \in 1..N : j < i => S[i].name # S[j].name,
         \A i, j \in 1..N : j < i =>
           \A n \in Listed(S[i]) : n # S[i].name => n \notin {S[j].name} \cup Listed(S[j])
  PROVE  Apart(S)
BY Spelled, Zenon DEF Apart

LEMMA PublicKeyRows ==
  ASSUME NEW S, S = Tables.publicKey
  PROVE  /\ Len(S) = 9 /\ DOMAIN S = 1..9
         /\ S[1].name = "rsa" /\ S[2].name = "dsa"
         /\ S[3].name = "elgamal" /\ S[4].name = "ecdh"
         /\ S[5].name = "ecdsa" /\ S[6].name = "eddsa"
         /\ S[7].name = "ed25519" /\ S[8].name = "x25519"
         /\ S[9].name = "sm2"
         /\ Listed(S[1]) = {"rsa"}
         /\ Listed(S[2]) = {"dsa"}
         /\ Listed(S[3]) = {"eg", "elgamal"}
         /\ Listed(S[4]) = {"ecdh"}
         /\ Listed(S[5]) = {"ecdsa"}
         /\ Listed(S[6]) = {"ed25519", "eddsa"}
         /\ Listed(S[7]) = {"ed25519-cr"}
         /\ Listed(S[8]) = {"cv25519"}
         /\ Listed(S[9]) = {"sm2", "gm"}
<1>1. /\ Len(S) = 9 /\ DOMAIN S = 1..9
      /\ S[1].name = "rsa" /\ S[2].name = "dsa"
      /\ S[3].name = "elgamal" /\ S[4].name = "ecdh"
      /\ S[5].name = "ecdsa" /\ S[6].name = "eddsa"
      /\ S[7].name = "ed25519" /\ S[8].name = "x25519"
      /\ S[9].name = "sm2"
  BY DEF Tables, E
<1>2. /\ DOMAIN S[1].list = 1..1 /\ S[1].list[1] = "rsa"
      /\ DOMAIN S[2].list = 1..1 /\ S[2].list[1] = "dsa"
      /\ DOMAIN S[3].list = 1..2 /\ S[3].list[1] = "eg" /\ S[3].list[2] = "elgamal"
      /\ DOMAIN S[4].list = 1..1 /\ S[4].list[1] = "ecdh"
      /\ DOMAIN S[5].list = 1..1 /\ S[5].list[1] = "ecdsa"
      /\ DOMAIN S[6].list = 1..2 /\ S[6].list[1] = "ed25519" /\ S[6].list[2] = "eddsa"
      /\ DOMAIN S[7].list = 1..1 /\ S[7].list[1] = "ed25519-cr"
      /\ DOMAIN S[8].list = 1..1 /\ S[8].list[1] = "cv25519"
      /\ DOMAIN S[9].list = 1..2 /\ S[9].list[1] = "sm2" /\ S[9].list[2] = "gm"
  BY DEF Tables, E
<1>3. /\ Listed(S[1]) = {"rsa"}
      /\ Listed(S[2]) = {"dsa"}
      /\ Listed(S[3]) = {"eg", "elgamal"}
      /\ Listed(S[4]) = {"ecdh"}
      /\ Listed(S[5]) = {"ecdsa"}
      /\ Listed(S[6]) = {"ed25519", "eddsa"}
      /\ Listed(S[7]) = {"ed25519-cr"}
      /\ Listed(S[8]) = {"cv25519"}
      /\ Listed(S[9]) = {"sm2", "gm"}
  BY <1>2, Lists
<1> QED BY <1>1, <1>3

LEMMA PublicKeyApart == Apart(Tables.publicKey)
<1> DEFINE S == Tables.publicKey
<1> HIDE DEF S
<1>1. /\ Len(S) = 9 /\ DOMAIN S = 1..9
      /\ S[1].name = "rsa" /\ S[2].name = "dsa"
      /\ S[3].name = "elgamal" /\ S[4].name = "ecdh"
      /\ S[5].name = "ecdsa" /\ S[6].name = "eddsa"
      /\ S[7].name = "ed25519" /\ S[8].name = "x25519"
      /\ S[9].name = "sm2"
  BY PublicKeyRows DEF S
<1>3. /\ Listed(S[1]) = {"rsa"}
      /\ Listed(S[2]) = {"dsa"}
      /\ Listed(S[3]) = {"eg", "elgamal"}
      /\ Listed(S[4]) = {"ecdh"}
      /\ Listed(S[5]) = {"ecdsa"}
      /\ Listed(S[6]) = {"ed25519", "eddsa"}
      /\ Listed(S[7]) = {"ed25519-cr"}
      /\ Listed(S[8]) = {"cv25519"}
      /\ Listed(S[9]) = {"sm2", "gm"}
  BY PublicKeyRows DEF S
<1>4. \A i \in 1..9 : \/ i = 1 \/ i = 2 \/ i = 3 \/ i = 4 \/ i = 5 \/ i = 6
                       \/ i = 7 \/ i = 8 \/ i = 9
  OBVIOUS
<1>5. \A i, j \in 1..9 : j < i => S[i].name # S[j].name
  BY <1>1, <1>4
<1>6. \A i, j \in 1..9 : j < i =>
        \A n \in Listed(S[i]) : n # S[i].name => n \notin {S[j].name} \cup Listed(S[j])
  BY <1>1, <1>3, <1>4
<1>7. Len(S) = 9 /\ DOMAIN S = 1..9
  BY <1>1
<1>8. Apart(S)
  BY <1>5, <1>6, <1>7, ApartIf
<1> QED BY <1>8 DEF S

LEMMA SymmetricApart == Apart(Tables.symmetric)
<1> DEFINE S == Tables.symmetric
<1>1. /\ Len(S) = 12 /\ DOMAIN S = 1..12
      /\ S[1].name = "aes128" /\ S[2].name = "aes192"
      /\ S[3].name = "aes256" /\ S[4].name = "camellia128"
      /\ S[5].name = "camellia192" /\ S[6].name = "camellia256"
      /\ S[7].name = "twofish" /\ S[8].name = "blowfish"
      /\ S[9].name = "cast5" /\ S[10].name = "idea"
      /\ S[11].name = "tripledes" /\ S[12].name = "sm4"
  BY DEF Tables, E
<1>2. /\ DOMAIN S[1].list = 1..2 /\ S[1].list[1] = "aes128" /\ S[1].list[2] = "aes-128"
      /\ DOMAIN S[2].list = 1..2 /\ S[2].list[1] = "aes192" /\ S[2].list[2] = "aes-192"
      /\ DOMAIN S[3].list = 1..2 /\ S[3].list[1] = "aes256" /\ S[3].list[2] = "aes-256"
  BY SMTT(60) DEF Tables, E
<1>3. /\ DOMAIN S[4].list = 1..2 /\ S[4].list[1] = "camellia128" /\ S[4].list[2] = "camellia-128"
      /\ DOMAIN S[5].list = 1..2 /\ S[5].list[1] = "camellia192" /\ S[5].list[2] = "camellia-192"
      /\ DOMAIN S[6].list = 1..2 /\ S[6].list[1] = "camellia256" /\ S[6].list[2] = "camellia-256"
  BY SMTT(60) DEF Tables, E
<1>4. /\ DOMAIN S[7].list = 1..1 /\ S[7].list[1] = "twofish"
      /\ DOMAIN S[8].list = 1..1 /\ S[8].list[1] = "blowfish"
      /\ DOMAIN S[9].list = 1..1 /\ S[9].list[1] = "cast5"
      /\ DOMAIN S[10].list = 1..1 /\ S[10].list[1] = "idea"
  BY SMTT(60) DEF Tables, E
<1>5. /\ DOMAIN S[11].list = 1..3 /\ S[11].list[1] = "tripledes" /\ S[11].list[2] = "des-ede3"
         /\ S[11].list[3] = "3des"
      /\ DOMAIN S[12].list = 1..1 /\ S[12].list[1] = "sm4"
  BY SMTT(60) DEF Tables, E
<1> HIDE DEF S
<1>6. /\ Listed(S[1]) = {"aes128", "aes-128"}
      /\ Listed(S[2]) = {"aes192", "aes-192"}
      /\ Listed(S[3]) = {"aes256", "aes-256"}
      /\ Listed(S[4]) = {"camellia128", "camellia-128"}
      /\ Listed(S[5]) = {"camellia192", "camellia-192"}
      /\ Listed(S[6]) = {"camellia256", "camellia-256"}
      /\ Listed(S[7]) = {"twofish"}
      /\ Listed(S[8]) = {"blowfish"}
      /\ Listed(S[9]) = {"cast5"}
      /\ Listed(S[10]) = {"idea"}
      /\ Listed(S[11]) = {"tripledes", "des-ede3", "3des"}
      /\ Listed(S[12]) = {"sm4"}
  BY <1>2, <1>3, <1>4, <1>5, Lists
<1>7. \A i \in 1..12 : \/ i = 1 \/ i = 2 \/ i = 3 \/ i = 4 \/ i = 5 \/ i = 6
                       \/ i = 7 \/ i = 8 \/ i = 9 \/ i = 10 \/ i = 11 \/ i = 12
  OBVIOUS
<1>8. \A i, j \in 1..12 : j < i => S[i].name # S[j].name
  BY SMTT(60), <1>1, <1>7
<1>9. \A i, j \in 1..12 : j < i =>
        \A n \in Listed(S[i]) : n # S[i].name => n \notin {S[j].name} \cup Listed(S[j])
  BY SMTT(60), <1>1, <1>6, <1>7
<1>10. Len(S) = 12 /\ DOMAIN S = 1..12
  BY <1>1
<1>11. Apart(S)
  BY <1>8, <1>9, <1>10, ApartIf
<1> QED BY <1>11 DEF S

LEMMA HashApart == Apart(Tables.hash)
<1> DEFINE S == Tables.hash
<1>1. /\ Len(S) = 10 /\ DOMAIN S = 1..10
      /\ S[1].name = "sha1" /\ S[2].name = "sha224"
      /\ S[3].name = "sha256" /\ S[4].name = "sha384"
      /\ S[5].name = "sha512" /\ S[6].name = "sha3-256"
      /\ S[7].name = "sha3-512" /\ S[8].name = "md5"
      /\ S[9].name = "ripemd160" /\ S[10].name = "sm3"
  BY DEF Tables, E
<1>2. /\ DOMAIN S[1].list = 1..2 /\ S[1].list[1] = "sha1" /\ S[1].list[2] = "sha-1"
      /\ DOMAIN S[2].list = 1..2 /\ S[2].list[1] = "sha224" /\ S[2].list[2] = "sha-224"
      /\ DOMAIN S[3].list = 1..2 /\ S[3].list[1] = "sha256" /\ S[3].list[2] = "sha-256"
      /\ DOMAIN S[4].list = 1..2 /\ S[4].list[1] = "sha384" /\ S[4].list[2] = "sha-384"
      /\ DOMAIN S[5].list = 1..2 /\ S[5].list[1] = "sha512" /\ S[5].list[2] = "sha-512"
      /\ DOMAIN S[6].list = 1..1 /\ S[6].list[1] = "sha3_256"
      /\ DOMAIN S[7].list = 1..1 /\ S[7].list[1] = "sha3_512"
      /\ DOMAIN S[8].list = 1..1 /\ S[8].list[1] = "md5"
      /\ DOMAIN S[9].list = 1..2 /\ S[9].list[1] = "ripemd160" /\ S[9].list[2] = "ripemd-160"
      /\ DOMAIN S[10].list = 1..1 /\ S[10].list[1] = "sm3"
  BY SMTT(60) DEF Tables, E
<1> HIDE DEF S
<1>3. /\ Listed(S[1]) = {"sha1", "sha-1"}
      /\ Listed(S[2]) = {"sha224", "sha-224"}
      /\ Listed(S[3]) = {"sha256", "sha-256"}
      /\ Listed(S[4]) = {"sha384", "sha-384"}
      /\ Listed(S[5]) = {"sha512", "sha-512"}
      /\ Listed(S[6]) = {"sha3_256"}
      /\ Listed(S[7]) = {"sha3_512"}
      /\ Listed(S[8]) = {"md5"}
      /\ Listed(S[9]) = {"ripemd160", "ripemd-160"}
      /\ Listed(S[10]) = {"sm3"}
  BY <1>2, Lists
<1>4. \A i \in 1..10 : \/ i = 1 \/ i = 2 \/ i = 3 \/ i = 4 \/ i = 5 \/ i = 6
                       \/ i = 7 \/ i = 8 \/ i = 9 \/ i = 10
  OBVIOUS
<1>5. \A i, j \in 1..10 : j < i => S[i].name # S[j].name
  BY SMTT(60), <1>1, <1>4
<1>6. \A i, j \in 1..10 : j < i =>
        \A n \in Listed(S[i]) : n # S[i].name => n \notin {S[j].name} \cup Listed(S[j])
  BY SMTT(60), <1>1, <1>3, <1>4
<1>7. Len(S) = 10 /\ DOMAIN S = 1..10
  BY <1>1
<1>8. Apart(S)
  BY <1>5, <1>6, <1>7, ApartIf
<1> QED BY <1>8 DEF S

LEMMA CompressionApart == Apart(Tables.compression)
<1> DEFINE S == Tables.compression
<1>1. /\ Len(S) = 4 /\ DOMAIN S = 1..4
      /\ S[1].name = "uncompressed" /\ S[2].name = "zip"
      /\ S[3].name = "zlib" /\ S[4].name = "bzip2"
  BY DEF Tables, E
<1>2. /\ DOMAIN S[1].list = 1..2 /\ S[1].list[1] = "none" /\ S[1].list[2] = "uncompressed"
      /\ DOMAIN S[2].list = 1..1 /\ S[2].list[1] = "zip"
      /\ DOMAIN S[3].list = 1..1 /\ S[3].list[1] = "zlib"
      /\ DOMAIN S[4].list = 1..2 /\ S[4].list[1] = "bzip2" /\ S[4].list[2] = "bz2"
  BY DEF Tables, E
<1> HIDE DEF S
<1>3. /\ Listed(S[1]) = {"none", "uncompressed"}
      /\ Listed(S[2]) = {"zip"}
      /\ Listed(S[3]) = {"zlib"}
      /\ Listed(S[4]) = {"bzip2", "bz2"}
  BY <1>2, Lists
<1>4. \A i \in 1..4 : \/ i = 1 \/ i = 2 \/ i = 3 \/ i = 4
  OBVIOUS
<1>5. \A i, j \in 1..4 : j < i => S[i].name # S[j].name
  BY <1>1, <1>4
<1>6. \A i, j \in 1..4 : j < i =>
        \A n \in Listed(S[i]) : n # S[i].name => n \notin {S[j].name} \cup Listed(S[j])
  BY <1>1, <1>3, <1>4
<1>7. Len(S) = 4 /\ DOMAIN S = 1..4
  BY <1>1
<1>8. Apart(S)
  BY <1>5, <1>6, <1>7, ApartIf
<1> QED BY <1>8 DEF S

LEMMA AeadApart == Apart(Tables.aead)
<1> DEFINE S == Tables.aead
<1>1. /\ Len(S) = 3 /\ DOMAIN S = 1..3
      /\ S[1].name = "none" /\ S[2].name = "eax"
      /\ S[3].name = "ocb"
  BY DEF Tables, E
<1>2. /\ DOMAIN S[1].list = 1..1 /\ S[1].list[1] = "none"
      /\ DOMAIN S[2].list = 1..1 /\ S[2].list[1] = "eax"
      /\ DOMAIN S[3].list = 1..1 /\ S[3].list[1] = "ocb"
  BY DEF Tables, E
<1> HIDE DEF S
<1>3. /\ Listed(S[1]) = {"none"}
      /\ Listed(S[2]) = {"eax"}
      /\ Listed(S[3]) = {"ocb"}
  BY <1>2, Lists
<1>4. \A i \in 1..3 : \/ i = 1 \/ i = 2 \/ i = 3
  OBVIOUS
<1>5. \A i, j \in 1..3 : j < i => S[i].name # S[j].name
  BY <1>1, <1>4
<1>6. \A i, j \in 1..3 : j < i =>
        \A n \in Listed(S[i]) : n # S[i].name => n \notin {S[j].name} \cup Listed(S[j])
  BY <1>1, <1>3, <1>4
<1>7. Len(S) = 3 /\ DOMAIN S = 1..3
  BY <1>1
<1>8. Apart(S)
  BY <1>5, <1>6, <1>7, ApartIf
<1> QED BY <1>8 DEF S

LEMMA CurveApart == Apart(Tables.curve)
<1> DEFINE S == Tables.curve
           R == {"brainpoolp256r1", "brainpoolp384r1", "brainpoolp512r1", "ed25519",
            "curve25519", "secp256k1", "secp256r1", "prime256v1", "p-256",
            "secp384r1", "p-384", "secp521r1", "p-521", "brainpoolp256",
            "brainpoolp384", "brainpoolp512", "cv25519", "x25519",
            "sm2p256v1"}
<1>1. S = << E("nist p-256", <<"secp256r1", "prime256v1", "p-256">>),
             E("nist p-384", <<"secp384r1", "p-384">>),
             E("nist p-521", <<"secp521r1", "p-521">>),
             E("brainpoolp256r1", <<"brainpoolp256">>),
             E("brainpoolp384r1", <<"brainpoolp384">>),
             E("brainpoolp512r1", <<"brainpoolp512">>),
             E("ed25519", <<"ed25519">>),
             E("curve25519", <<"curve25519", "cv25519", "x25519">>),
             E("secp256k1", <<"secp256k1">>),
             E("sm2 p-256", <<"sm2p256v1">>) >>
  BY Zenon DEF Tables
<1>2. PICK a, b, c, d : /\ a = "nist p-256" /\ b = "nist p-384"
                        /\ c = "nist p-521" /\ d = "sm2 p-256"
  BY Zenon
<1>3. S = << E(a, <<"secp256r1", "prime256v1", "p-256">>),
             E(b, <<"secp384r1", "p-384">>),
             E(c, <<"secp521r1", "p-521">>),
             E("brainpoolp256r1", <<"brainpoolp256">>),
             E("brainpoolp384r1", <<"brainpoolp384">>),
             E("brainpoolp512r1", <<"brainpoolp512">>),
             E("ed25519", <<"ed25519">>),
             E("curve25519", <<"curve25519", "cv25519", "x25519">>),
             E("secp256k1", <<"secp256k1">>),
             E(d, <<"sm2p256v1">>) >>
  BY <1>1, <1>2, Zenon
<1>4. /\ a \notin R /\ b \notin R /\ c \notin R /\ d \notin R
      /\ a \notin {b, c, d} /\ b \notin {c, d} /\ c # d
  BY <1>2, Zenon
<1>5. /\ Len(S) = 10 /\ DOMAIN S = 1..10
      /\ S[1].name = a /\ S[2].name = b
      /\ S[3].name = c /\ S[4].name = "brainpoolp256r1"
      /\ S[5].name = "brainpoolp384r1" /\ S[6].name = "brainpoolp512r1"
      /\ S[7].name = "ed25519" /\ S[8].name = "curve25519"
      /\ S[9].name = "secp256k1" /\ S[10].name = d
  BY <1>3 DEF E
<1>6. /\ DOMAIN S[1].list = 1..3 /\ S[1].list[1] = "secp256r1" /\ S[1].list[2] = "prime256v1"
         /\ S[1].list[3] = "p-256"
      /\ DOMAIN S[2].list = 1..2 /\ S[2].list[1] = "secp384r1" /\ S[2].list[2] = "p-384"
      /\ DOMAIN S[3].list = 1..2 /\ S[3].list[1] = "secp521r1" /\ S[3].list[2] = "p-521"
      /\ DOMAIN S[4].list = 1..1 /\ S[4].list[1] = "brainpoolp256"
      /\ DOMAIN S[5].list = 1..1 /\ S[5].list[1] = "brainpoolp384"
      /\ DOMAIN S[6].list = 1..1 /\ S[6].list[1] = "brainpoolp512"
      /\ DOMAIN S[7].list = 1..1 /\ S[7].list[1] = "ed25519"
      /\ DOMAIN S[8].list = 1..3 /\ S[8].list[1] = "curve25519" /\ S[8].list[2] = "cv25519"
         /\ S[8].list[3] = "x25519"
      /\ DOMAIN S[9].list = 1..1 /\ S[9].list[1] = "secp256k1"
      /\ DOMAIN S[10].list = 1..1 /\ S[10].list[1] = "sm2p256v1"
  BY SMTT(60), <1>3 DEF E
<1> HIDE DEF S
<1>7. /\ Listed(S[1]) = {"secp256r1", "prime256v1", "p-256"}
      /\ Listed(S[2]) = {"secp384r1", "p-384"}
      /\ Listed(S[3]) = {"secp521r1", "p-521"}
      /\ Listed(S[4]) = {"brainpoolp256"}
      /\ Listed(S[5]) = {"brainpoolp384"}
      /\ Listed(S[6]) = {"brainpoolp512"}
      /\ Listed(S[7]) = {"ed25519"}
      /\ Listed(S[8]) = {"curve25519", "cv25519", "x25519"}
      /\ Listed(S[9]) = {"secp256k1"}
      /\ Listed(S[10]) = {"sm2p256v1"}
  BY <1>6, Lists
<1>8. \A i \in 1..10 : \/ i = 1 \/ i = 2 \/ i = 3 \/ i = 4 \/ i = 5 \/ i = 6
                       \/ i = 7 \/ i = 8 \/ i = 9 \/ i = 10
  OBVIOUS
<1>9. \A i, j \in 1..10 : j < i => S[i].name # S[j].name
  BY SMTT(60), <1>4, <1>5, <1>8
<1>10. \A i, j \in 1..10 : j < i =>
        \A n \in Listed(S[i]) : n # S[i].name => n \notin {S[j].name} \cup Listed(S[j])
  BY SMTT(60), <1>4, <1>5, <1>7, <1>8
<1>11. Len(S) = 10 /\ DOMAIN S = 1..10
  BY <1>5
<1>12. Apart(S)
  BY <1>9, <1>10, <1>11, ApartIf
<1> QED BY <1>12 DEF S

LEMMA FeatureApart == Apart(Tables.feature)
<1> DEFINE S == Tables.feature
<1>1. /\ Len(S) = 9 /\ DOMAIN S = 1..9
      /\ S[1].name = "symmetric" /\ S[2].name = "aead"
      /\ S[3].name = "cipher" /\ S[4].name = "hash"
      /\ S[5].name = "compression" /\ S[6].name = "asymmetric"
      /\ S[7].name = "curve" /\ S[8].name = "protection"
      /\ S[9].name = "s2k"
  BY DEF Tables, E
<1>2. /\ DOMAIN S[1].list = {}
      /\ DOMAIN S[2].list = {}
      /\ DOMAIN S[3].list = {}
      /\ DOMAIN S[4].list = {}
      /\ DOMAIN S[5].list = {}
      /\ DOMAIN S[6].list = {}
      /\ DOMAIN S[7].list = {}
      /\ DOMAIN S[8].list = {}
      /\ DOMAIN S[9].list = {}
  BY DEF Tables, E
<1> HIDE DEF S
<1>3. /\ Listed(S[1]) = {}
      /\ Listed(S[2]) = {}
      /\ Listed(S[3]) = {}
      /\ Listed(S[4]) = {}
      /\ Listed(S[5]) = {}
      /\ Listed(S[6]) = {}
      /\ Listed(S[7]) = {}
      /\ Listed(S[8]) = {}
      /\ Listed(S[9]) = {}
  BY <1>2, Lists
<1>4. \A i \in 1..9 : \/ i = 1 \/ i = 2 \/ i = 3 \/ i = 4 \/ i = 5 \/ i = 6
                       \/ i = 7 \/ i = 8 \/ i = 9
  OBVIOUS
<1>5. \A i, j \in 1..9 : j < i => S[i].name # S[j].name
  BY <1>1, <1>4
<1>6. \A i, j \in 1..9 : j < i =>
        \A n \in Listed(S[i]) : n # S[i].name => n \notin {S[j].name} \cup Listed(S[j])
  BY <1>1, <1>3, <1>4
<1>7. Len(S) = 9 /\ DOMAIN S = 1..9
  BY <1>1
<1>8. Apart(S)
  BY <1>5, <1>6, <1>7, ApartIf
<1> QED BY <1>8 DEF S

\* The names of ts/pqc.ts are their own.
LEMMA PqcDistinct ==
  ASSUME NEW i \in DOMAIN PqcTable, NEW n \in Spellings(PqcTable[i])
  PROVE  /\ \A j \in 1..(i - 1) : n \notin Spellings(PqcTable[j])
         /\ \A j \in 1..Len(Tables.publicKey) : n \notin Spellings(Tables.publicKey[j])
<1> DEFINE S == PqcTable
           P == Tables.publicKey
<1>1. /\ Len(S) = 7 /\ DOMAIN S = 1..7
      /\ S[1].name = "ml-kem-768" /\ S[2].name = "ml-kem-1024"
      /\ S[3].name = "ml-dsa-65" /\ S[4].name = "ml-dsa-87"
      /\ S[5].name = "slh-dsa-sha2-128s" /\ S[6].name = "slh-dsa-sha2-128f"
      /\ S[7].name = "slh-dsa-sha2-256s"
  BY DEF PqcTable, E
<1>2. /\ DOMAIN S[1].list = 1..1 /\ S[1].list[1] = "kyber768"
      /\ DOMAIN S[2].list = 1..1 /\ S[2].list[1] = "kyber1024"
      /\ DOMAIN S[3].list = 1..1 /\ S[3].list[1] = "dilithium3"
      /\ DOMAIN S[4].list = 1..1 /\ S[4].list[1] = "dilithium5"
      /\ DOMAIN S[5].list = {}
      /\ DOMAIN S[6].list = {}
      /\ DOMAIN S[7].list = {}
  BY DEF PqcTable, E
<1> HIDE DEF S
<1>3. /\ Listed(S[1]) = {"kyber768"}
      /\ Listed(S[2]) = {"kyber1024"}
      /\ Listed(S[3]) = {"dilithium3"}
      /\ Listed(S[4]) = {"dilithium5"}
      /\ Listed(S[5]) = {}
      /\ Listed(S[6]) = {}
      /\ Listed(S[7]) = {}
  BY <1>2, Lists
<1>4. \A k \in 1..7 : \/ k = 1 \/ k = 2 \/ k = 3 \/ k = 4 \/ k = 5 \/ k = 6
                       \/ k = 7
  OBVIOUS
<1>5. /\ Spellings(S[1]) = {"ml-kem-768", "kyber768"}
      /\ Spellings(S[2]) = {"ml-kem-1024", "kyber1024"}
      /\ Spellings(S[3]) = {"ml-dsa-65", "dilithium3"}
      /\ Spellings(S[4]) = {"ml-dsa-87", "dilithium5"}
      /\ Spellings(S[5]) = {"slh-dsa-sha2-128s"}
      /\ Spellings(S[6]) = {"slh-dsa-sha2-128f"}
      /\ Spellings(S[7]) = {"slh-dsa-sha2-256s"}
  BY <1>1, <1>3, Spelled
<1>6. i \in 1..7 /\ n \in Spellings(S[i])
  BY <1>1 DEF S, PqcTable
<1>7. \A j \in 1..(i - 1) : n \notin Spellings(S[j])
  <2> SUFFICES ASSUME NEW j \in 1..(i - 1) PROVE n \notin Spellings(S[j])
    OBVIOUS
  <2>1. j \in 1..7 /\ j < i
    BY <1>6
  <2> QED BY <2>1, <1>4, <1>5, <1>6
<1>8. Len(P) = 9 /\ \A j \in 1..9 : Spellings(P[j]) \subseteq
            {"rsa", "dsa", "eg", "elgamal", "ecdh", "ecdsa", "eddsa", "ed25519",
             "ed25519-cr", "x25519", "cv25519", "sm2", "gm"}
  <2> HIDE DEF P
  <2>1. P = Tables.publicKey
    BY DEF P
  <2>2. \A j \in 1..9 : \/ j = 1 \/ j = 2 \/ j = 3 \/ j = 4 \/ j = 5 \/ j = 6
                        \/ j = 7 \/ j = 8 \/ j = 9
    OBVIOUS
  <2> QED BY <2>1, <2>2, PublicKeyRows, Spelled
<1>9. n \notin {"rsa", "dsa", "eg", "elgamal", "ecdh", "ecdsa", "eddsa", "ed25519",
             "ed25519-cr", "x25519", "cv25519", "sm2", "gm"}
  BY <1>4, <1>5, <1>6
<1> QED BY <1>7, <1>8, <1>9 DEF S

LEMMA TablesApart == \A t \in DOMAIN Tables : Apart(Tables[t])
<1>1. DOMAIN Tables = {"publicKey", "symmetric", "hash", "compression", "aead",
                       "curve", "feature"}
  BY Zenon DEF Tables
<1> SUFFICES ASSUME NEW t \in DOMAIN Tables PROVE Apart(Tables[t])
  OBVIOUS
<1>2. \/ t = "publicKey" \/ t = "symmetric" \/ t = "hash" \/ t = "compression"
      \/ t = "aead" \/ t = "curve" \/ t = "feature"
  BY <1>1
<1> QED BY <1>2, PublicKeyApart, SymmetricApart, HashApart, CompressionApart,
           AeadApart, CurveApart, FeatureApart, Zenon

\* A spelling of the package is a name, and its value is not the application's.
LEMMA EntryTypes ==
  ASSUME NEW e \in Entries
  PROVE  /\ e.name \in Name /\ e.name \in Value /\ e.name # OwnValue
         /\ e.list \in AliasList /\ e.list \in Seq(Name)
         /\ Spellings(e) \subseteq Name
<1>1. /\ e.name \in Name /\ e.name \in Value /\ e.name # OwnValue
      /\ e.list \in AliasList /\ e.list \in Seq(Name)
  BY PackageAssumption, RegistryAssumption, Zenon
<1>2. Listed(e) \subseteq Name
  BY <1>1 DEF Listed
<1> QED BY <1>1, <1>2, Spelled

\* Whatever has a name or leads to one is known, and only that.
LEMMA Known ==
  ASSUME AliasesResolve, NEW n
  PROVE  Has(n) <=> n \in DOMAIN aliases \cup DOMAIN values
BY DEF AliasesResolve, Has, Key

\* The aliases of a list that collides with nothing are all accepted.
LEMMA AllAccepted ==
  ASSUME NEW name, NEW list \in Seq(Name), Colliding(name, list) = {},
         NEW i \in DOMAIN list, list[i] # name
  PROVE  list[i] \in Accepted(name, list)
<1> DEFINE S == {k \in 1..Len(list) : list[k] = list[i]}
<1>1. i \in S /\ S \in SUBSET Nat
  OBVIOUS
<1>2. PICK k \in S : \A j \in S : k <= j
  BY <1>1, Least
<1>3. k \in 1..Len(list) /\ list[k] = list[i]
  BY <1>2
<1>4. \A j \in 1..(k - 1) : list[j] # list[k]
  <2> SUFFICES ASSUME NEW j \in 1..(k - 1), list[j] = list[k] PROVE FALSE
    OBVIOUS
  <2>1. j \in S
    BY <1>3
  <2>2. k <= j
    BY <1>2, <2>1
  <2> QED BY <1>3, <2>2
<1>5. k \in Fresh(name, list)
  BY <1>3, <1>4 DEF Fresh
<1> QED BY <1>3, <1>5 DEF Accepted

\* A registration redirects nothing; what it makes known is its name and the
\* aliases of its list, and they stand for its value; it makes all of them
\* known unless one collides.
LEMMA RegisterWhole ==
  ASSUME TypeOK, AliasesResolve,
         NEW name \in Name, NEW value \in Value, NEW list \in AliasList,
         Register(name, value, list)
  PROVE  /\ \A n \in Name : Has(n) => Has(n)' /\ Lookup(n)' = Lookup(n)
         /\ \A n : Has(n)' /\ ~Has(n) =>
              /\ n = name \/ \E i \in DOMAIN list : n = list[i]
              /\ Lookup(n)' = value
         /\ \A n : n \in DOMAIN values' => n \in DOMAIN values \/ n = name
         /\ Has(name)'
         /\ Colliding(name, list) = {} => \A i \in DOMAIN list : Has(list[i])'
<1>1. /\ DOMAIN values' = DOMAIN values \cup {name}
      /\ values'[name] = value
      /\ \A x \in DOMAIN values \ {name} : values'[x] = values[x]
      /\ name \notin DOMAIN values
  BY DEF Register, Extended
<1>2. /\ DOMAIN aliases' = DOMAIN aliases \cup Accepted(name, list)
      /\ \A x \in Accepted(name, list) : aliases'[x] = name
      /\ \A x \in DOMAIN aliases \ Accepted(name, list) : aliases'[x] = aliases[x]
  BY DEF Register, Extended
<1>3. AliasesResolve'
  BY RegisterResolves
<1>4. \A n : Has(n)' <=> n \in DOMAIN aliases' \cup DOMAIN values'
  BY <1>3 DEF AliasesResolve, Has, Key
<1>5. \A n : Has(n) <=> n \in DOMAIN aliases \cup DOMAIN values
  BY Known
<1>6. ASSUME NEW n \in Name, Has(n)
      PROVE  Has(n)' /\ Lookup(n)' = Lookup(n)
  BY <1>1, <1>2, <1>4, <1>5, <1>6, RegisterStable
<1>7. ASSUME NEW n, Has(n)', ~Has(n)
      PROVE  /\ n = name \/ \E i \in DOMAIN list : n = list[i]
             /\ Lookup(n)' = value
  <2>1. n = name \/ n \in Accepted(name, list)
    BY <1>1, <1>2, <1>4, <1>5, <1>7
  <2>2. n = name \/ \E i \in DOMAIN list : n = list[i]
    BY <2>1, RegistryAssumption DEF Accepted, Fresh
  <2>3. Key(n)' = name
    BY <1>2, <1>5, <1>7, <2>1 DEF Key
  <2> QED BY <1>1, <1>7, <2>2, <2>3 DEF Lookup
<1>8. Colliding(name, list) = {} => \A i \in DOMAIN list : Has(list[i])'
  BY <1>1, <1>2, <1>4, AllAccepted, RegistryAssumption
<1>9. Has(name)'
  BY <1>1, <1>4
<1>10. \A n : n \in DOMAIN values' => n \in DOMAIN values \/ n = name
  BY <1>1
<1> QED BY <1>6, <1>7, <1>8, <1>9, <1>10

\* An entry that takes nothing known is registered whole; one that throws
\* took a spelling that was known.
LEMMA EntryWhole ==
  ASSUME TypeOK, AliasesResolve, NEW e \in Entries, RegisterEntry(e)
  PROVE  /\ \A n \in Name : Has(n) => Has(n)' /\ Lookup(n)' = Lookup(n)
         /\ \A n : Has(n)' /\ ~Has(n) => n \in Spellings(e) /\ Lookup(n)' = e.name
         /\ \A n : n \in DOMAIN values' => n \in DOMAIN values \/ n = e.name
         /\ ~Throws(e) => \A n \in Spellings(e) : Has(n)'
         /\ Throws(e) => \E n \in Spellings(e) : Has(n)
<1>0. /\ e.name \in Name /\ e.name \in Value /\ e.list \in AliasList
      /\ e.list \in Seq(Name)
  BY EntryTypes
<1>1. CASE e.name \in DOMAIN values
  <2>1. UNCHANGED vars /\ Throws(e)
    BY <1>1 DEF RegisterEntry, Throws
  <2>2. Has(e.name) /\ e.name \in Spellings(e)
    BY <1>1, Known DEF Spellings
  <2>3. \A n : Has(n)' = Has(n) /\ Lookup(n)' = Lookup(n)
    BY <2>1 DEF vars, Has, Lookup, Key
  <2> QED BY <2>1, <2>2, <2>3 DEF vars
<1>2. CASE e.name \notin DOMAIN values
  <2>1. Register(e.name, e.name, e.list)
    BY <1>2 DEF RegisterEntry
  <2>2. Throws(e) <=> Colliding(e.name, e.list) # {}
    BY <1>2 DEF Throws
  <2>3. Throws(e) => \E n \in Spellings(e) : Has(n)
    <3> SUFFICES ASSUME Throws(e) PROVE \E n \in Spellings(e) : Has(n)
      OBVIOUS
    <3>1. PICK i \in Fresh(e.name, e.list) : e.list[i] \in DOMAIN aliases \cup DOMAIN values
      BY <2>2 DEF Colliding
    <3>2. e.list[i] \in Spellings(e)
      BY <1>0, <3>1 DEF Fresh, Spellings
    <3>3. Has(e.list[i])
      BY <3>1, Known
    <3> QED BY <3>2, <3>3
  <2>4. \A n : n \in Spellings(e) <=> n = e.name \/ \E i \in DOMAIN e.list : n = e.list[i]
    BY DEF Spellings
  <2> QED BY <1>0, <2>1, <2>2, <2>3, <2>4, RegisterWhole
<1> QED BY <1>1, <1>2

-----------------------------------------------------------------------------
(* RegistrationsWhole.  Until its table is loaded, a registry holds what   *)
(* the table has named so far; afterwards, everything known is the         *)
(* table's, the post-quantum list's so far, or the application's.          *)

\* n is a spelling of one of the first k entries of S.
Among(n, S, k) == \E i \in 1..k : n \in Spellings(S[i])

Typed ==
  /\ TypeOK /\ AliasesResolve
  /\ table \in DOMAIN Tables /\ loaded \in 0..Len(Tables[table])
  /\ pqcDone \in 0..Len(PqcTable)
  /\ running \in BOOLEAN /\ registered \in BOOLEAN /\ threw \in BOOLEAN

Course ==
  /\ ~Loaded => ~registered
  /\ registered => table = "publicKey"
  /\ ~registered => ~running /\ pqcDone = 0 /\ ~threw
  /\ running => ~threw /\ pqcDone < Len(PqcTable)
  /\ registered /\ ~running /\ ~threw => pqcDone = Len(PqcTable)

Importing ==
  ~Loaded =>
    /\ \A n \in Name : Has(n) => Among(n, Tables[table], loaded)
    /\ \A n \in DOMAIN values : \E i \in 1..loaded : n = Tables[table][i].name

Firsts ==
  \A i \in 1..loaded : \A n \in Spellings(Tables[table][i]) :
    ~Among(n, Tables[table], i - 1) => Has(n) /\ Lookup(n) = Tables[table][i].name

Whose ==
  ~threw => \A n \in Name : Has(n) =>
    \/ Lookup(n) = OwnValue
    \/ Among(n, Tables[table], loaded)
    \/ Among(n, PqcTable, pqcDone)

Theirs ==
  \A i \in 1..pqcDone : \A n \in Spellings(PqcTable[i]) :
    Has(n) /\ Lookup(n) \in {PqcTable[i].name, OwnValue}

Taken ==
  threw => \E i \in 1..Len(PqcTable) : \E n \in Spellings(PqcTable[i]) :
             Has(n) /\ Lookup(n) = OwnValue

PackageInv ==
  Typed /\ Course /\ Importing /\ Firsts /\ Whose /\ Theirs /\ Taken

LEMMA Spelt ==
  ASSUME NEW t \in DOMAIN Tables, NEW i \in 1..Len(Tables[t])
  PROVE  /\ Tables[t][i] \in Entries
         /\ Spellings(Tables[t][i]) \subseteq Name
         /\ Tables[t][i].name \in Value
<1>1. i \in DOMAIN Tables[t]
  BY TablesApart DEF Apart
<1>2. Tables[t][i] \in Entries
  BY <1>1 DEF Entries
<1> QED BY <1>2, EntryTypes

LEMMA PqcSpelt ==
  ASSUME NEW i \in 1..Len(PqcTable)
  PROVE  /\ i \in DOMAIN PqcTable
         /\ PqcTable[i] \in Entries
         /\ Spellings(PqcTable[i]) \subseteq Name
         /\ PqcTable[i].name \in Value
<1>1. i \in DOMAIN PqcTable
  BY DEF PqcTable
<1>2. PqcTable[i] \in Entries
  BY <1>1 DEF Entries
<1> QED BY <1>1, <1>2, EntryTypes

LEMMA AmongMore ==
  ASSUME NEW n, NEW S, NEW k \in Nat
  PROVE  Among(n, S, k + 1) <=> Among(n, S, k) \/ n \in Spellings(S[k + 1])
<1>1. \A i : i \in 1..(k + 1) <=> i \in 1..k \/ i = k + 1
  OBVIOUS
<1> QED BY <1>1, Zenon DEF Among

\* A step that redirects nothing.
Settled == \A n \in Name : Has(n) => Has(n)' /\ Lookup(n)' = Lookup(n)

LEMMA FirstsStay ==
  ASSUME Typed, Firsts, Settled, table' = table,
         NEW i \in 1..loaded, NEW n \in Spellings(Tables[table][i]),
         ~Among(n, Tables[table], i - 1)
  PROVE  Has(n)' /\ Lookup(n)' = Tables[table][i].name
<1>1. i \in 1..Len(Tables[table]) /\ table \in DOMAIN Tables
  BY TablesApart DEF Typed, Apart
<1>2. n \in Name
  BY <1>1, Spelt
<1>3. Has(n) /\ Lookup(n) = Tables[table][i].name
  BY DEF Firsts
<1> QED BY <1>2, <1>3 DEF Settled

LEMMA TheirsStay ==
  ASSUME Typed, Theirs, Settled,
         NEW i \in 1..pqcDone, NEW n \in Spellings(PqcTable[i])
  PROVE  Has(n)' /\ Lookup(n)' \in {PqcTable[i].name, OwnValue}
<1>1. i \in 1..Len(PqcTable)
  BY DEF Typed, PqcTable
<1>2. n \in Name
  BY <1>1, PqcSpelt
<1>3. Has(n) /\ Lookup(n) \in {PqcTable[i].name, OwnValue}
  BY DEF Theirs
<1> QED BY <1>2, <1>3 DEF Settled

LEMMA TakenStay ==
  ASSUME Settled, NEW i \in 1..Len(PqcTable), NEW n \in Spellings(PqcTable[i]),
         Has(n), Lookup(n) = OwnValue
  PROVE  /\ Has(n)' /\ Lookup(n)' = OwnValue
         /\ \E k \in 1..Len(PqcTable) : \E x \in Spellings(PqcTable[k]) :
              Has(x)' /\ Lookup(x)' = OwnValue
BY PqcSpelt DEF Settled

LEMMA TypedStep ==
  ASSUME Typed, [PackageNext]_pvars
  PROVE  TypeOK' /\ AliasesResolve'
<1>1. [Next]_vars
  BY PackageStep DEF Typed
<1> QED BY <1>1, StepResolves DEF Typed

\* A table's own statement throws nothing.
LEMMA LoadWhole ==
  ASSUME PackageInv, LoadNext
  PROVE  /\ Tables[table][loaded + 1] \in Entries
         /\ loaded + 1 \in 1..Len(Tables[table])
         /\ ~Throws(Tables[table][loaded + 1])
         /\ ~Loaded
<1> DEFINE T == Tables[table]
           e == T[loaded + 1]
<1>1. /\ table \in DOMAIN Tables /\ loaded \in 0..Len(T) /\ AliasesResolve
      /\ loaded + 1 \in DOMAIN T
  BY DEF PackageInv, Typed, LoadNext
<1>2. Apart(T)
  BY <1>1, TablesApart
<1>3. loaded + 1 \in 1..Len(T) /\ Len(T) \in Nat /\ ~Loaded
  <2>1. loaded # Len(T) => ~Loaded
    BY DEF Loaded
  <2> HIDE DEF T
  <2>2. loaded + 1 \in 1..Len(T) /\ Len(T) \in Nat
    BY <1>1, <1>2 DEF Apart
  <2> QED BY <1>1, <2>1, <2>2
<1>4. e \in Entries
  BY <1>1, <1>3, Spelt
<1>5. \A i \in 1..loaded : i \in 1..Len(T) /\ i < loaded + 1
  BY <1>1, <1>3
<1>6. e.name \notin DOMAIN values
  BY <1>2, <1>3, <1>5 DEF Apart, PackageInv, Importing
<1>7. Colliding(e.name, e.list) = {}
  <2> SUFFICES ASSUME NEW k \in Colliding(e.name, e.list) PROVE FALSE
    OBVIOUS
  <2>1. e.list \in Seq(Name)
    BY <1>4, EntryTypes
  <2>2. /\ k \in DOMAIN e.list /\ e.list[k] # e.name /\ e.list[k] \in Name
        /\ e.list[k] \in DOMAIN aliases \cup DOMAIN values
    BY <2>1 DEF Colliding, Fresh
  <2>3. Has(e.list[k])
    BY <1>1, <2>2, Known
  <2>4. PICK j \in 1..loaded : e.list[k] \in Spellings(T[j])
    BY <1>3, <2>2, <2>3 DEF PackageInv, Importing, Among
  <2>5. e.list[k] \in Listed(e)
    BY <2>2 DEF Listed
  <2> HIDE DEF T, e
  <2>6. e = T[loaded + 1]
    BY DEF e
  <2> QED BY <1>2, <1>3, <1>5, <2>2, <2>4, <2>5, <2>6 DEF Apart
<1> QED BY <1>3, <1>4, <1>6, <1>7 DEF Throws

LEMMA LoadKeeps ==
  ASSUME PackageInv, LoadNext
  PROVE  PackageInv'
<1> DEFINE T == Tables[table]
           e == T[loaded + 1]
<1>1. /\ table \in DOMAIN Tables /\ loaded \in Nat /\ loaded + 1 \in 1..Len(T)
      /\ e \in Entries /\ ~Throws(e) /\ ~Loaded
      /\ TypeOK /\ AliasesResolve
  BY LoadWhole DEF PackageInv, Typed
<1>2. /\ table' = table /\ loaded' = loaded + 1 /\ registered' = registered
      /\ running' = running /\ pqcDone' = pqcDone /\ RegisterEntry(e)
      /\ threw' = (threw \/ Throws(e)) /\ ~threw
  BY DEF LoadNext, RegisterEntry
<1>3. ~registered /\ ~running /\ pqcDone = 0 /\ ~threw'
  BY <1>1, <1>2 DEF PackageInv, Course
<1>4. /\ Settled
      /\ \A n : Has(n)' /\ ~Has(n) => n \in Spellings(e) /\ Lookup(n)' = e.name
      /\ \A n : n \in DOMAIN values' => n \in DOMAIN values \/ n = e.name
      /\ \A n \in Spellings(e) : Has(n)'
  BY <1>1, <1>2, EntryWhole DEF Settled
<1>5. Spellings(e) \subseteq Name
  BY <1>1, EntryTypes
<1>6. \A n : Among(n, T, loaded + 1) <=> Among(n, T, loaded) \/ n \in Spellings(e)
  BY <1>1, AmongMore
<1>7. TypeOK' /\ AliasesResolve'
  BY TypedStep DEF PackageInv, PackageNext
<1> HIDE DEF e
<1>8. e = T[loaded + 1]
  BY DEF e
<1>9. Typed'
  BY <1>1, <1>2, <1>3, <1>7 DEF PackageInv, Typed
<1>10. Course'
  BY <1>2, <1>3 DEF Course
<1>11. \A n \in Name : Has(n)' => Among(n, T, loaded + 1)
  BY <1>1, <1>4, <1>6 DEF PackageInv, Importing
<1>12. \A n \in DOMAIN values' : \E i \in 1..(loaded + 1) : n = T[i].name
  <2> SUFFICES ASSUME NEW n \in DOMAIN values'
               PROVE  \E i \in 1..(loaded + 1) : n = T[i].name
    OBVIOUS
  <2>1. CASE n \in DOMAIN values
    <3>1. PICK i \in 1..loaded : n = T[i].name
      BY <1>1, <2>1 DEF PackageInv, Importing
    <3>2. i \in 1..(loaded + 1)
      BY <1>1
    <3> QED BY <3>1, <3>2
  <2>2. CASE n = e.name
    BY <1>1, <1>8, <2>2
  <2> QED BY <1>4, <2>1, <2>2
<1>13. Importing'
  BY <1>2, <1>11, <1>12, Zenon DEF Importing
<1>14. Whose'
  BY <1>2, <1>11, Zenon DEF Whose
<1>15. Firsts'
  <2> SUFFICES ASSUME NEW i \in 1..(loaded + 1), NEW n \in Spellings(T[i]),
                      ~Among(n, T, i - 1)
               PROVE  Has(n)' /\ Lookup(n)' = T[i].name
    BY <1>2 DEF Firsts, Among
  <2>1. CASE i \in 1..loaded
    BY <1>2, <1>4, <2>1, FirstsStay DEF PackageInv
  <2>2. CASE i = loaded + 1
    <3>1. ~Among(n, T, loaded)
      BY <1>1, <2>2
    <3>2. n \in Name /\ n \in Spellings(e)
      BY <1>5, <1>8, <2>2
    <3>3. ~Has(n)
      BY <1>1, <3>1, <3>2 DEF PackageInv, Importing
    <3> QED BY <1>4, <1>8, <2>2, <3>2, <3>3
  <2> QED BY <1>1, <2>1, <2>2
<1>16. Theirs'
  BY <1>2, <1>3 DEF Theirs
<1>17. Taken'
  BY <1>3 DEF Taken
<1> QED BY <1>9, <1>10, <1>13, <1>14, <1>15, <1>16, <1>17 DEF PackageInv

LEMMA OwnKeeps ==
  ASSUME PackageInv, NEW name \in OwnName, NEW list \in OwnLists,
         RegisterOwn(name, list)
  PROVE  PackageInv'
<1>1. /\ table' = table /\ loaded' = loaded /\ registered' = registered
      /\ running' = running /\ pqcDone' = pqcDone /\ threw' = threw
      /\ Register(name, OwnValue, list) /\ Loaded
  BY DEF RegisterOwn
<1>2. name \in Name /\ list \in AliasList /\ OwnValue \in Value
  BY PackageAssumption
<1>3. /\ Settled
      /\ \A n : Has(n)' /\ ~Has(n) => Lookup(n)' = OwnValue
  BY <1>1, <1>2, RegisterWhole DEF PackageInv, Typed, Settled
<1>4. TypeOK' /\ AliasesResolve'
  BY TypedStep DEF PackageInv, PackageNext
<1>5. Typed'
  BY <1>1, <1>4 DEF PackageInv, Typed
<1>6. Course' /\ Importing'
  BY <1>1 DEF PackageInv, Course, Importing, Loaded
<1>7. Firsts'
  <2> SUFFICES ASSUME NEW i \in 1..loaded, NEW n \in Spellings(Tables[table][i]),
                      ~Among(n, Tables[table], i - 1)
               PROVE  Has(n)' /\ Lookup(n)' = Tables[table][i].name
    BY <1>1 DEF Firsts, Among
  <2> QED BY <1>1, <1>3, FirstsStay DEF PackageInv
<1>8. Whose'
  BY <1>1, <1>3 DEF PackageInv, Whose, Settled, Among
<1>9. Theirs'
  BY <1>1, <1>3, TheirsStay DEF PackageInv, Theirs
<1>10. Taken'
  BY <1>1, <1>3, TakenStay DEF PackageInv, Taken
<1> QED BY <1>5, <1>6, <1>7, <1>8, <1>9, <1>10 DEF PackageInv

LEMMA CallKeeps ==
  ASSUME PackageInv, CallPqc
  PROVE  PackageInv'
<1>1. /\ values' = values /\ aliases' = aliases /\ table' = table
      /\ loaded' = loaded /\ pqcDone' = pqcDone /\ threw' = threw
      /\ running' = ~registered /\ registered' = TRUE
      /\ Loaded /\ table = "publicKey" /\ ~running
  BY DEF CallPqc
<1>2. Settled /\ \A n : Has(n)' = Has(n) /\ Lookup(n)' = Lookup(n)
  BY <1>1 DEF Settled, Has, Lookup, Key
<1>3. TypeOK' /\ AliasesResolve'
  BY TypedStep DEF PackageInv, PackageNext
<1>4. Typed'
  BY <1>1, <1>3 DEF PackageInv, Typed
<1>5. Len(PqcTable) = 7
  BY DEF PqcTable
<1>6. Course'
  <2>1. Loaded'
    BY <1>1 DEF Loaded
  <2>2. CASE registered
    <3>1. ~running' /\ (~threw => pqcDone = Len(PqcTable))
      BY <1>1, <2>2 DEF PackageInv, Course
    <3> QED BY <1>1, <2>1, <3>1 DEF Course
  <2>3. CASE ~registered
    <3>1. running' /\ ~threw /\ pqcDone = 0
      BY <1>1, <2>3 DEF PackageInv, Course
    <3> QED BY <1>1, <1>5, <2>1, <3>1 DEF Course
  <2> QED BY <2>2, <2>3
<1>7. Importing'
  BY <1>1 DEF Importing, Loaded
<1>8. Firsts' /\ Whose' /\ Theirs' /\ Taken'
  BY <1>1, <1>2 DEF PackageInv, Firsts, Whose, Theirs, Taken, Among
<1> QED BY <1>4, <1>6, <1>7, <1>8 DEF PackageInv

LEMMA PqcKeeps ==
  ASSUME PackageInv, PqcNext
  PROVE  PackageInv'
<1> DEFINE e == PqcTable[pqcDone + 1]
<1>1. /\ pqcDone \in 0..7 /\ pqcDone + 1 \in 1..7 /\ Len(PqcTable) = 7
      /\ DOMAIN PqcTable = 1..7
  BY DEF PackageInv, Typed, PqcNext, PqcTable
<1>2. /\ table' = table /\ loaded' = loaded /\ registered' = registered
      /\ running /\ RegisterEntry(e)
      /\ pqcDone' = IF threw' THEN pqcDone ELSE pqcDone + 1
      /\ running' = (~threw' /\ pqcDone' < 7)
  BY <1>1 DEF PqcNext
<1>3. /\ ~threw /\ registered /\ table = "publicKey" /\ Loaded
      /\ (threw' <=> Throws(e)) /\ threw' \in BOOLEAN /\ running' \in BOOLEAN
      /\ pqcDone' \in 0..7
  <2>1. ~threw /\ registered /\ table = "publicKey" /\ Loaded
    BY <1>2 DEF PackageInv, Course
  <2>2. threw' = (threw \/ Throws(e))
    BY <1>2 DEF RegisterEntry
  <2>3. (threw' <=> Throws(e)) /\ threw' \in BOOLEAN
    <3>1. CASE Throws(e)
      BY <2>2, <3>1
    <3>2. CASE ~Throws(e)
      BY <2>1, <2>2, <3>2
    <3> QED BY <3>1, <3>2
  <2> QED BY <1>1, <1>2, <2>1, <2>3
<1>4. /\ e \in Entries /\ Spellings(e) \subseteq Name
  BY <1>1, PqcSpelt
<1>5. /\ Settled
      /\ \A n : Has(n)' /\ ~Has(n) => n \in Spellings(e) /\ Lookup(n)' = e.name
      /\ ~Throws(e) => \A n \in Spellings(e) : Has(n)'
      /\ Throws(e) => \E n \in Spellings(e) : Has(n)
  BY <1>2, <1>4, EntryWhole DEF PackageInv, Typed, Settled
\* What knows a spelling of the list before its turn is the application's.
<1>6. ASSUME NEW n \in Spellings(e), Has(n)
      PROVE  Lookup(n) = OwnValue
  <2>1. ~Among(n, Tables[table], loaded)
    <3>1. /\ \A j \in 1..Len(Tables.publicKey) : n \notin Spellings(Tables.publicKey[j])
      BY <1>1, <1>6, PqcDistinct
    <3>2. loaded = Len(Tables.publicKey)
      BY <1>3 DEF Loaded
    <3> QED BY <1>3, <3>1, <3>2, Zenon DEF Among
  <2>2. ~Among(n, PqcTable, pqcDone)
    <3>1. \A j \in 1..((pqcDone + 1) - 1) : n \notin Spellings(PqcTable[j])
      BY <1>1, <1>6, PqcDistinct
    <3>2. (pqcDone + 1) - 1 = pqcDone
      BY <1>1
    <3> QED BY <3>1, <3>2, Zenon DEF Among
  <2> QED BY <1>3, <1>4, <1>6, <2>1, <2>2 DEF PackageInv, Whose
<1>7. TypeOK' /\ AliasesResolve'
  BY TypedStep DEF PackageInv, PackageNext
<1>8. \A n : Among(n, PqcTable, pqcDone + 1) <=>
               Among(n, PqcTable, pqcDone) \/ n \in Spellings(e)
  BY <1>1, AmongMore
<1> HIDE DEF e
<1>9. e = PqcTable[pqcDone + 1]
  BY DEF e
<1>10. Typed'
  BY <1>1, <1>2, <1>3, <1>7 DEF PackageInv, Typed
<1>11. Loaded'
  BY <1>2, <1>3 DEF Loaded
<1>12. Course' /\ Importing'
  <2>1. CASE threw'
    <3>1. ~running'
      BY <1>2, <2>1
    <3> QED BY <1>2, <1>3, <1>11, <2>1, <3>1 DEF Course, Importing
  <2>2. CASE ~threw'
    <3>1. running' <=> pqcDone' < 7
      BY <1>2, <2>2
    <3> QED BY <1>1, <1>2, <1>3, <1>11, <2>2, <3>1 DEF Course, Importing
  <2> QED BY <2>1, <2>2
<1>13. Firsts'
  <2> SUFFICES ASSUME NEW i \in 1..loaded, NEW n \in Spellings(Tables[table][i]),
                      ~Among(n, Tables[table], i - 1)
               PROVE  Has(n)' /\ Lookup(n)' = Tables[table][i].name
    BY <1>2 DEF Firsts, Among
  <2> QED BY <1>2, <1>5, FirstsStay DEF PackageInv
<1>14. Whose'
  <2> SUFFICES ASSUME ~threw', NEW n \in Name, Has(n)'
               PROVE  \/ Lookup(n)' = OwnValue
                      \/ Among(n, Tables[table], loaded)
                      \/ Among(n, PqcTable, pqcDone')
    BY <1>2 DEF Whose, Among
  <2>1. pqcDone' = pqcDone + 1
    BY <1>2
  <2>2. CASE Has(n)
    <3>1. \/ Lookup(n) = OwnValue
          \/ Among(n, Tables[table], loaded)
          \/ Among(n, PqcTable, pqcDone)
      BY <1>3, <2>2 DEF PackageInv, Whose
    <3>2. Lookup(n)' = Lookup(n)
      BY <1>5, <2>2 DEF Settled
    <3> QED BY <1>8, <2>1, <3>1, <3>2
  <2>3. CASE ~Has(n)
    <3>1. Among(n, PqcTable, pqcDone + 1)
      BY <1>5, <1>8, <2>3
    <3> QED BY <2>1, <3>1
  <2> QED BY <2>2, <2>3
<1>15. Theirs'
  <2> SUFFICES ASSUME NEW i \in 1..pqcDone', NEW n \in Spellings(PqcTable[i])
               PROVE  Has(n)' /\ Lookup(n)' \in {PqcTable[i].name, OwnValue}
    BY DEF Theirs
  <2>1. CASE i \in 1..pqcDone
    BY <1>5, <2>1, TheirsStay DEF PackageInv
  <2>2. CASE i \notin 1..pqcDone
    <3>1. i = pqcDone + 1 /\ ~threw'
      BY <1>1, <1>2, <2>2
    <3>2. n \in Spellings(e) /\ Has(n)' /\ n \in Name
      BY <1>3, <1>4, <1>5, <1>9, <3>1
    <3>3. CASE Has(n)
      BY <1>5, <1>6, <3>2, <3>3 DEF Settled
    <3>4. CASE ~Has(n)
      BY <1>5, <1>9, <3>1, <3>2, <3>4
    <3> QED BY <3>2, <3>3, <3>4
  <2> QED BY <2>1, <2>2
<1>16. Taken'
  <2> SUFFICES ASSUME threw'
               PROVE  \E i \in 1..Len(PqcTable) : \E n \in Spellings(PqcTable[i]) :
                        Has(n)' /\ Lookup(n)' = OwnValue
    BY DEF Taken
  <2>1. PICK n \in Spellings(e) : Has(n)
    BY <1>3, <1>5
  <2>2. Lookup(n) = OwnValue
    BY <1>6, <2>1
  <2>3. pqcDone + 1 \in 1..Len(PqcTable)
    BY <1>1
  <2> QED BY <1>5, <1>9, <2>1, <2>2, <2>3, TakenStay
<1> QED BY <1>10, <1>12, <1>13, <1>14, <1>15, <1>16 DEF PackageInv

LEMMA PackageKeeps ==
  ASSUME PackageInv, [PackageNext]_pvars
  PROVE  PackageInv'
<1>1. CASE PackageNext
  BY <1>1, LoadKeeps, OwnKeeps, CallKeeps, PqcKeeps DEF PackageNext
<1>2. CASE UNCHANGED pvars
  BY <1>2 DEF pvars, PackageInv, Typed, TypeOK, AliasesResolve, Course, Importing,
              Loaded, Firsts, Whose, Theirs, Taken, Has, Lookup, Key
<1> QED BY <1>1, <1>2

LEMMA PackageStart == PackageInit => PackageInv
<1> SUFFICES ASSUME PackageInit PROVE PackageInv
  OBVIOUS
<1>1. TypeOK /\ AliasesResolve
  BY InitType DEF PackageInit
<1>2. /\ table \in DOMAIN Tables /\ loaded = 0 /\ pqcDone = 0
      /\ ~running /\ ~registered /\ ~threw
      /\ running \in BOOLEAN /\ registered \in BOOLEAN /\ threw \in BOOLEAN
  BY DEF PackageInit
<1>3. Len(Tables[table]) \in Nat /\ Len(PqcTable) = 7
  BY <1>2, TablesApart DEF Apart, PqcTable
<1>4. \A n : ~Has(n)
  BY DEF PackageInit, Init, Has
<1>5. DOMAIN values = {}
  BY DEF PackageInit, Init
<1>6. Typed
  BY <1>1, <1>2, <1>3 DEF Typed
<1>7. Course
  BY <1>2 DEF Course
<1>8. Importing /\ Whose
  BY <1>4, <1>5 DEF Importing, Whose
<1>9. 1..loaded = {} /\ 1..pqcDone = {}
  BY <1>2
<1>10. Firsts /\ Theirs /\ Taken
  BY <1>2, <1>9 DEF Firsts, Theirs, Taken
<1> QED BY <1>6, <1>7, <1>8, <1>10 DEF PackageInv

\* The first entry with a spelling is there to be chosen.
LEMMA FirstChosen ==
  ASSUME Typed, NEW i \in 1..loaded, NEW n \in Spellings(Tables[table][i])
  PROVE  /\ FirstWith(n) \in 1..loaded
         /\ n \in Spellings(Tables[table][FirstWith(n)])
         /\ ~Among(n, Tables[table], FirstWith(n) - 1)
<1> DEFINE T == Tables[table]
           P(k) == /\ n \in Spellings(T[k])
                   /\ \A j \in 1..(k - 1) : n \notin Spellings(T[j])
           S == {k \in 1..loaded : n \in Spellings(T[k])}
<1>1. loaded \in Nat
  BY TablesApart DEF Typed, Apart
<1>2. i \in S /\ S \in SUBSET Nat
  BY <1>1
<1>3. PICK m \in S : \A k \in S : m <= k
  BY <1>2, Least
<1>4. m \in 1..loaded /\ n \in Spellings(T[m])
  BY <1>3
<1>5. \A j \in 1..(m - 1) : n \notin Spellings(T[j])
  <2> SUFFICES ASSUME NEW j \in 1..(m - 1), n \in Spellings(T[j]) PROVE FALSE
    OBVIOUS
  <2>1. j \in 1..loaded /\ j < m
    BY <1>1, <1>4
  <2>2. j \in S
    BY <2>1
  <2> QED BY <1>3, <1>4, <2>1, <2>2
<1>6. \E k \in 1..loaded : P(k)
  BY <1>4, <1>5
<1>7. FirstWith(n) = CHOOSE k \in 1..loaded : P(k)
  BY Zenon DEF FirstWith
<1>8. FirstWith(n) \in 1..loaded /\ P(FirstWith(n))
  <2> HIDE DEF P
  <2> QED BY <1>6, <1>7, Zenon
<1> QED BY <1>8 DEF Among

(***************************************************************************)
(* What importing the package and registerPqcAlgorithms() leave in a       *)
(* registry, whatever an application registers in between: every spelling  *)
(* of the package looks up the first entry that has it, and the            *)
(* post-quantum names fail only over one the application took before       *)
(* (algorithm.ts, feature.ts, pqc.ts:17-21).                               *)
(***************************************************************************)
THEOREM PackageWhole == PackageSpec => []RegistrationsWhole
<1>1. PackageInv => RegistrationsWhole
  <2> SUFFICES ASSUME PackageInv PROVE RegistrationsWhole
    OBVIOUS
  <2>1. ASSUME NEW i \in 1..loaded, NEW n \in Spellings(Tables[table][i])
        PROVE  Lookup(n) = Tables[table][FirstWith(n)].name
    BY FirstChosen DEF PackageInv, Firsts
  <2>2. ASSUME threw
        PROVE  /\ registered /\ ~running
               /\ \E i \in 1..Len(PqcTable) : \E n \in Spellings(PqcTable[i]) :
                    Lookup(n) = OwnValue
    BY <2>2 DEF PackageInv, Course, Taken
  <2>3. \A i \in 1..pqcDone : \A n \in Spellings(PqcTable[i]) :
          Lookup(n) \in {PqcTable[i].name, OwnValue}
    BY DEF PackageInv, Theirs
  <2>4. (registered /\ ~running /\ ~threw) => pqcDone = Len(PqcTable)
    BY DEF PackageInv, Course
  <2> QED BY <2>1, <2>2, <2>3, <2>4 DEF RegistrationsWhole
<1> QED BY <1>1, PackageStart, PackageKeeps, PTL DEF PackageSpec
=============================================================================
