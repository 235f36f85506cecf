------------------------ MODULE MCPackageRegistries ------------------------
(* An application with two post-quantum spellings, a name the package has  *)
(* and one of its own, and every list of at most two of them as aliases.   *)
EXTENDS PackageRegistries

OwnNames == {"kyber768", "ml-dsa-65", "rsa", "mine"}
AppLists == {<<>>} \cup {<<a>> : a \in OwnNames} \cup {<<a, b>> : a, b \in OwnNames}
AppValue == "own"

Lists  == {e.list : e \in Entries} \cup AppLists
Names  == OwnNames \cup UNION {Spellings(e) : e \in Entries}
Values == {e.name : e \in Entries} \cup {AppValue}
=============================================================================
