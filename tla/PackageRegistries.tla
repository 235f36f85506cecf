------------------------- MODULE PackageRegistries -------------------------
(***************************************************************************)
(* What is registered where: the tables ts/registry/algorithm.ts and       *)
(* ts/registry/feature.ts register when they are loaded, each into a       *)
(* registry of its own, the post-quantum names of ts/pqc.ts, and the names *)
(* an application adds in between.  The value of a name is the name; the   *)
(* value of what an application adds is OwnValue.                          *)
(***************************************************************************)
EXTENDS NameRegistry

CONSTANTS
  OwnName,     \* names and aliases an application may register
  OwnLists,    \* the alias lists it registers them with
  OwnValue

E(name, list) == [name |-> name, list |-> list]

\* The names in lower case, as register() stores them.
Tables == [
  publicKey   |-> << E("rsa", <<"rsa">>), E("dsa", <<"dsa">>),
                     E("elgamal", <<"eg", "elgamal">>), E("ecdh", <<"ecdh">>),
                     E("ecdsa", <<"ecdsa">>), E("eddsa", <<"ed25519", "eddsa">>),
                     E("ed25519", <<"ed25519-cr">>), E("x25519", <<"cv25519">>),
                     E("sm2", <<"sm2", "gm">>) >>,
  symmetric   |-> << E("aes128", <<"aes128", "aes-128">>),
                     E("aes192", <<"aes192", "aes-192">>),
                     E("aes256", <<"aes256", "aes-256">>),
                     E("camellia128", <<"camellia128", "camellia-128">>),
                     E("camellia192", <<"camellia192", "camellia-192">>),
                     E("camellia256", <<"camellia256", "camellia-256">>),
                     E("twofish", <<"twofish">>), E("blowfish", <<"blowfish">>),
                     E("cast5", <<"cast5">>), E("idea", <<"idea">>),
                     E("tripledes", <<"tripledes", "des-ede3", "3des">>),
                     E("sm4", <<"sm4">>) >>,
  hash        |-> << E("sha1", <<"sha1", "sha-1">>), E("sha224", <<"sha224", "sha-224">>),
                     E("sha256", <<"sha256", "sha-256">>),
                     E("sha384", <<"sha384", "sha-384">>),
                     E("sha512", <<"sha512", "sha-512">>),
                     E("sha3-256", <<"sha3_256">>), E("sha3-512", <<"sha3_512">>),
                     E("md5", <<"md5">>), E("ripemd160", <<"ripemd160", "ripemd-160">>),
                     E("sm3", <<"sm3">>) >>,
  compression |-> << E("uncompressed", <<"none", "uncompressed">>), E("zip", <<"zip">>),
                     E("zlib", <<"zlib">>), E("bzip2", <<"bzip2", "bz2">>) >>,
  aead        |-> << E("none", <<"none">>), E("eax", <<"eax">>), E("ocb", <<"ocb">>) >>,
  curve       |-> << E("nist p-256", <<"secp256r1", "prime256v1", "p-256">>),
                     E("nist p-384", <<"secp384r1", "p-384">>),
                     E("nist p-521", <<"secp521r1", "p-521">>),
                     E("brainpoolp256r1", <<"brainpoolp256">>),
                     E("brainpoolp384r1", <<"brainpoolp384">>),
                     E("brainpoolp512r1", <<"brainpoolp512">>),
                     E("ed25519", <<"ed25519">>),
                     E("curve25519", <<"curve25519", "cv25519", "x25519">>),
                     E("secp256k1", <<"secp256k1">>), E("sm2 p-256", <<"sm2p256v1">>) >>,
  feature     |-> << E("symmetric", <<>>), E("aead", <<>>), E("cipher", <<>>),
                     E("hash", <<>>), E("compression", <<>>), E("asymmetric", <<>>),
                     E("curve", <<>>), E("protection", <<>>), E("s2k", <<>>) >>]

PqcTable == <<
  E("ml-kem-768", <<"kyber768">>), E("ml-kem-1024", <<"kyber1024">>),
  E("ml-dsa-65", <<"dilithium3">>), E("ml-dsa-87", <<"dilithium5">>),
  E("slh-dsa-sha2-128s", <<>>), E("slh-dsa-sha2-128f", <<>>),
  E("slh-dsa-sha2-256s", <<>>) >>

Entries ==
  (UNION {{Tables[t][i] : i \in DOMAIN Tables[t]} : t \in DOMAIN Tables})
    \cup {PqcTable[i] : i \in DOMAIN PqcTable}

ASSUME PackageAssumption ==
  /\ \A e \in Entries : e.name \in Name \cap Value /\ e.list \in AliasList
  /\ OwnName \subseteq Name /\ OwnLists \subseteq AliasList
  /\ OwnValue \in Value /\ OwnValue \notin {e.name : e \in Entries}

VARIABLES
  table,       \* whose registry `values` and `aliases` are
  loaded,      \* the entries of the table registered so far
  running,     \* registerPqcAlgorithms() runs
  pqcDone,     \* the registrations of ts/pqc.ts that did not throw
  registered,  \* the flag of ts/pqc.ts
  threw        \* a registration of the package threw

pvars == <<values, aliases, table, loaded, running, pqcDone, registered, threw>>

PackageInit ==
  /\ Init
  /\ table \in DOMAIN Tables
  /\ loaded = 0
  /\ running = FALSE /\ pqcDone = 0 /\ registered = FALSE
  /\ threw = FALSE

\* register() throws: on a known name at once, on a colliding alias half way.
Throws(e) == e.name \in DOMAIN values \/ Colliding(e.name, e.list) # {}

RegisterEntry(e) ==
  /\ threw' = (threw \/ Throws(e))
  /\ IF e.name \in DOMAIN values THEN UNCHANGED vars
     ELSE Register(e.name, e.name, e.list)

\* The next statement of the module body; an exception fails the import.
LoadNext ==
  /\ loaded + 1 \in DOMAIN Tables[table] /\ ~threw
  /\ RegisterEntry(Tables[table][loaded + 1])
  /\ loaded' = loaded + 1
  /\ UNCHANGED <<table, running, pqcDone, registered>>

Loaded == loaded = Len(Tables[table])

\* An application extends the registry.
RegisterOwn(name, list) ==
  /\ Loaded /\ ~running
  /\ Register(name, OwnValue, list)
  /\ UNCHANGED <<table, loaded, running, pqcDone, registered, threw>>

\* Mutant of CallPqc: every call registers.
CallPqcAgain ==
  /\ Loaded /\ table = "publicKey" /\ ~running
  /\ running' = TRUE /\ registered' = TRUE /\ pqcDone' = 0
  /\ UNCHANGED <<values, aliases, table, loaded, threw>>

\* initRnpPqc() and registerPqcAlgorithms(): the flag comes first, so that a
\* call after one that threw returns and registers nothing.
CallPqc ==
  /\ Loaded /\ table = "publicKey" /\ ~running
  /\ running' = ~registered
  /\ registered' = TRUE
  /\ UNCHANGED <<values, aliases, table, loaded, pqcDone, threw>>

PqcNext ==
  /\ running /\ pqcDone + 1 \in DOMAIN PqcTable
  /\ RegisterEntry(PqcTable[pqcDone + 1])
  /\ pqcDone' = IF threw' THEN pqcDone ELSE pqcDone + 1
  /\ running' = (~threw' /\ pqcDone' < Len(PqcTable))
  /\ UNCHANGED <<table, loaded, registered>>

PackageNext ==
  \/ LoadNext
  \/ \E name \in OwnName, list \in OwnLists : RegisterOwn(name, list)
  \/ CallPqc
  \/ PqcNext

PackageSpec == PackageInit /\ [][PackageNext]_pvars

-----------------------------------------------------------------------------
Spellings(e) == {e.name} \cup {e.list[i] : i \in DOMAIN e.list}

\* The entry of the table that was the first to have this spelling.
FirstWith(n) ==
  CHOOSE i \in 1..loaded :
    /\ n \in Spellings(Tables[table][i])
    /\ \A j \in 1..(i - 1) : n \notin Spellings(Tables[table][j])

(***************************************************************************)
(* Importing the package never throws, and every spelling then looks up    *)
(* the first entry that has it, whatever is registered later.  The         *)
(* registrations of ts/pqc.ts throw only if the application took one of    *)
(* their spellings before; if they do not throw, every spelling is theirs  *)
(* unless an alias of the application hides it (pqc.ts:17-21).             *)
(***************************************************************************)
RegistrationsWhole ==
  /\ \A i \in 1..loaded : \A n \in Spellings(Tables[table][i]) :
       Lookup(n) = Tables[table][FirstWith(n)].name
  /\ threw => /\ registered /\ ~running
              /\ \E i \in 1..Len(PqcTable) : \E n \in Spellings(PqcTable[i]) :
                   Lookup(n) = OwnValue
  /\ \A i \in 1..pqcDone : \A n \in Spellings(PqcTable[i]) :
       Lookup(n) \in {PqcTable[i].name, OwnValue}
  /\ (registered /\ ~running /\ ~threw) => pqcDone = Len(PqcTable)
=============================================================================
