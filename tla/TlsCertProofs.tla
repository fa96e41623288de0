--------------------------- MODULE TlsCertProofs ---------------------------
(***************************************************************************)
(* Proofs about TlsCert for any directories, search paths and number of    *)
(* pairs.                                                                  *)
(***************************************************************************)
EXTENDS TlsCert, TLAPS

USE DEF Missing, Torn, Own, Store, UserStore, Nothing, NoName, Subject, StoreNames

(***************************************************************************)
(* 1. Types.                                                               *)
(***************************************************************************)
\* The place that is read is a directory, and what is written a pair.
PlaceInv == /\ gpc # "idle" => pair >= 1
            /\ gpc \in Importing => pair \in made
            /\ lpc = "acquire" => readCrt \in made \cup {Own}
            /\ lpc \in {"crt", "key"} => at <= Len(SearchPaths) /\ (at = 0 => cfg # NoDir)
            /\ lpc = "search" => at >= 1

TypeInv == TypeOK /\ PlaceInv

LEMMA ConstantsTyped ==
    /\ MaxPair \in Nat
    /\ Len(SearchPaths) \in Nat
    /\ \A i \in 1 .. Len(SearchPaths) : SearchPaths[i] \in Dirs
    /\ \A i \in DOMAIN CertDirs : CertDirs[i] \in Dirs
    /\ NoDir \notin Dirs
  BY ConstantsAssumption

LEMMA SearchPathsDomain == DOMAIN SearchPaths = 1 .. Len(SearchPaths)
  BY ConstantsAssumption

LEMMA TypeInit == Init => TypeInv
<1> SUFFICES ASSUME Init PROVE TypeInv
  OBVIOUS
<1> USE ConstantsTyped
<1>1. crt \in [Dirs -> 0 .. Torn] /\ key \in [Dirs -> 0 .. Torn]
  BY DEF Init
<1>2. complete \in [Dirs -> 0 .. MaxPair]
  BY DEF Init
<1>3. loaded \in [pair : 0 .. Own, key : 0 .. Own, from : 0 .. Store] /\ denied = {}
  BY DEF Init
<1>4. user \in BOOLEAN /\ named \in BOOLEAN /\ disturbed \in BOOLEAN
  BY Zenon DEF Init
<1>5. /\ pair \in 0 .. MaxPair /\ at \in 0 .. Store /\ readCrt \in 0 .. Own
      /\ container \in 0 .. MaxPair /\ storeName \in StoreNames
  BY DEF Init
<1>6. /\ gpc = "idle" /\ lpc = "idle" /\ gdir = NoDir /\ cfg = NoDir
      /\ made = {} /\ certs = {} /\ bound = {} /\ loaded = Nothing
  BY Zenon DEF Init
<1> HIDE DEF Missing, Torn, Own, Store, UserStore, Nothing, NoName, Subject, StoreNames
<1> QED BY <1>1, <1>2, <1>3, <1>4, <1>5, <1>6 DEF TypeInv, TypeOK, PlaceInv, Writing, Importing

\* The types fall into those of what is written and those of what is read.
FilesTyped ==
    /\ crt \in [Dirs -> 0 .. Torn] /\ key \in [Dirs -> 0 .. Torn]
    /\ complete \in [Dirs -> 0 .. MaxPair]

StoreTyped ==
    /\ bound \subseteq certs /\ certs \subseteq made \cup {Own} /\ Own \notin bound
    /\ container \in 0 .. MaxPair /\ user \in BOOLEAN

GeneratorTyped ==
    /\ gpc \in {"idle"} \cup Writing \cup Importing
    /\ gdir \in Dirs \cup {NoDir}
    /\ gdir = NoDir <=> gpc \notin Writing
    /\ pair \in 0 .. MaxPair /\ made \subseteq 1 .. MaxPair
    /\ named \in BOOLEAN /\ disturbed \in BOOLEAN
    /\ gpc # "idle" => pair >= 1
    /\ gpc \in Importing => pair \in made

ConfigTyped == storeName \in StoreNames /\ cfg \in Dirs \cup {NoDir}

LoaderTyped ==
    /\ lpc \in {"idle", "crt", "key", "machine", "acquire", "user", "search", "loaded",
               "failed"}
    /\ at \in 0 .. Store /\ readCrt \in 0 .. Own
    /\ loaded \in [pair : 0 .. Own, key : 0 .. Own, from : 0 .. Store]
    /\ denied \subseteq 0 .. UserStore
    /\ lpc = "loaded" \/ loaded = Nothing
    /\ lpc = "acquire" => readCrt \in made \cup {Own}
    /\ lpc \in {"crt", "key"} => at <= Len(SearchPaths) /\ (at = 0 => cfg # NoDir)
    /\ lpc = "search" => at >= 1

LEMMA TypeParts ==
    TypeInv <=> FilesTyped /\ StoreTyped /\ GeneratorTyped /\ ConfigTyped /\ LoaderTyped
<1> HIDE DEF Missing, Torn, Own, Store, UserStore, Nothing, NoName, Subject, StoreNames
<1> QED BY DEF TypeInv, TypeOK, PlaceInv, FilesTyped, StoreTyped, GeneratorTyped,
               ConfigTyped, LoaderTyped

LEMMA TypesTogether ==
    ASSUME FilesTyped', StoreTyped', GeneratorTyped', ConfigTyped', LoaderTyped'
    PROVE  TypeInv'
<1> HIDE DEF Missing, Torn, Own, Store, UserStore, Nothing, NoName, Subject, StoreNames
<1> QED BY DEF TypeInv, TypeOK, PlaceInv, FilesTyped, StoreTyped, GeneratorTyped,
               ConfigTyped, LoaderTyped

\* What writes leaves the loader alone, and takes no pair back.
LEMMA LoaderRests ==
    ASSUME TypeInv, UNCHANGED loader, made \subseteq made'
    PROVE  ConfigTyped' /\ LoaderTyped'
<1> HIDE DEF Missing, Torn, Own, Store, UserStore, Nothing, NoName, Subject, StoreNames
<1>1. ConfigTyped /\ LoaderTyped
  BY TypeParts
<1>2. UNCHANGED <<cfg, storeName, lpc, at, readCrt, loaded, denied>>
  BY DEF loader, config, search
<1> QED BY <1>1, <1>2 DEF ConfigTyped, LoaderTyped

\* What reads leaves the files, the store and the generator alone.
LEMMA WriterRests ==
    ASSUME TypeInv, UNCHANGED <<files, store, generator>>, disturbed' \in BOOLEAN
    PROVE  FilesTyped' /\ StoreTyped' /\ GeneratorTyped'
<1> HIDE DEF Missing, Torn, Own, Store, UserStore, Nothing, NoName, Subject, StoreNames
<1>1. FilesTyped /\ StoreTyped /\ GeneratorTyped
  BY TypeParts
<1> QED BY <1>1 DEF FilesTyped, StoreTyped, GeneratorTyped, files, store, generator

LEMMA Updated ==
    \A S, T : \A f \in [S -> T] : \A d, v : v \in T => [f EXCEPT ![d] = v] \in [S -> T]
OBVIOUS

LEMMA GenerateTypes ==
    ASSUME TypeInv, GenerateSelfSigned
    PROVE  TypeInv'
<1> USE ConstantsTyped
<1>1. FilesTyped /\ StoreTyped /\ GeneratorTyped
  BY TypeParts
<1>2. UNCHANGED loader /\ made \subseteq made'
  BY DEF GenerateSelfSigned, Generate, OpenCert, WriteCert, OpenKey, WriteKey, GenerateFails
<1>3. CASE Generate
  <2>1. gdir' \in Dirs /\ pair' \in 1 .. MaxPair /\ gpc' = "openCert"
    BY <1>1, <1>3 DEF Generate, GeneratorTyped
  <2>2. UNCHANGED <<files, store, named, made, disturbed>>
    BY <1>3, Zenon DEF Generate
  <2>3. GeneratorTyped'
    BY <1>1, <2>1, <2>2 DEF GeneratorTyped, Writing, Importing
  <2>4. FilesTyped' /\ StoreTyped'
    BY <1>1, <2>2 DEF FilesTyped, StoreTyped, files, store
  <2> QED BY <1>2, <2>3, <2>4, LoaderRests, TypesTogether
<1>4. CASE OpenCert \/ WriteCert \/ OpenKey
  <2>1. /\ gpc \in Writing /\ gpc' \in Writing /\ disturbed' = TRUE
        /\ UNCHANGED <<store, gdir, pair, named, made>>
    BY <1>4 DEF OpenCert, WriteCert, OpenKey, Writing
  <2>2. gdir \in Dirs /\ Torn \in 0 .. Torn /\ pair \in 0 .. Torn
    BY <1>1, <2>1 DEF GeneratorTyped
  <2>3. FilesTyped'
    <3>1. CASE OpenCert
      <4>1. /\ crt' = [crt EXCEPT ![gdir] = Torn] /\ key' = key
            /\ complete' = [complete EXCEPT ![gdir] = 0]
        BY <3>1 DEF OpenCert
      <4>2. crt \in [Dirs -> 0 .. Torn] /\ complete \in [Dirs -> 0 .. MaxPair]
        BY <1>1 DEF FilesTyped
      <4>3. crt' \in [Dirs -> 0 .. Torn]
        BY <2>2, <4>1, <4>2, Updated
      <4>4. complete' \in [Dirs -> 0 .. MaxPair]
        BY <4>1, <4>2, Updated
      <4> QED BY <1>1, <4>1, <4>3, <4>4 DEF FilesTyped
    <3>2. CASE WriteCert
      <4>1. crt' = [crt EXCEPT ![gdir] = pair] /\ UNCHANGED <<key, complete>>
        BY <3>2 DEF WriteCert
      <4> QED BY <1>1, <2>2, <4>1, Updated DEF FilesTyped
    <3>3. CASE OpenKey
      <4>1. key' = [key EXCEPT ![gdir] = Torn] /\ UNCHANGED <<crt, complete>>
        BY <3>3 DEF OpenKey
      <4> QED BY <1>1, <2>2, <4>1, Updated DEF FilesTyped
    <3> QED BY <1>4, <3>1, <3>2, <3>3
  <2>4. StoreTyped'
    BY <1>1, <2>1 DEF StoreTyped, store
  <2>5. GeneratorTyped'
    BY <1>1, <2>1 DEF GeneratorTyped, Writing, Importing
  <2> QED BY <1>2, <2>3, <2>4, <2>5, LoaderRests, TypesTogether
<1>5. CASE WriteKey
  <2>1. /\ gpc = "writeKey" /\ gpc' \in {"idle", "deleteKey"} /\ gdir' = NoDir
        /\ made' = made \cup {pair} /\ disturbed' = TRUE
        /\ UNCHANGED <<crt, store, pair, named>>
    BY <1>5 DEF WriteKey
  <2>2. pair \in 1 .. MaxPair
    BY <1>1, <2>1 DEF GeneratorTyped
  <2>3. FilesTyped'
    <3>1. /\ key' = [key EXCEPT ![gdir] = pair] /\ crt' = crt
          /\ complete' = [complete EXCEPT ![gdir] = pair]
      BY <1>5 DEF WriteKey
    <3>2. pair \in 0 .. Torn /\ pair \in 0 .. MaxPair
      BY <2>2
    <3> HIDE DEF Torn
    <3> QED BY <1>1, <3>1, <3>2 DEF FilesTyped
  <2>4. StoreTyped'
    BY <1>1, <2>1 DEF StoreTyped, store
  <2>5. GeneratorTyped'
    BY <1>1, <2>1, <2>2 DEF GeneratorTyped, Writing, Importing
  <2> QED BY <1>2, <2>3, <2>4, <2>5, LoaderRests, TypesTogether
<1>6. CASE GenerateFails
  <2>1. /\ gpc' = "idle" /\ gdir' = NoDir
        /\ UNCHANGED <<files, store, pair, named, made, disturbed>>
    BY <1>6 DEF GenerateFails
  <2>2. FilesTyped' /\ StoreTyped'
    BY <1>1, <2>1 DEF FilesTyped, StoreTyped, files, store
  <2>3. GeneratorTyped'
    BY <1>1, <2>1 DEF GeneratorTyped, Writing, Importing
  <2> QED BY <1>2, <2>2, <2>3, LoaderRests, TypesTogether
<1> QED BY <1>3, <1>4, <1>5, <1>6 DEF GenerateSelfSigned

LEMMA ImportTypes ==
    ASSUME TypeInv, ImportToStore \/ ImportOrDelete
    PROVE  TypeInv'
<1> USE ConstantsTyped
<1>1. FilesTyped /\ StoreTyped /\ GeneratorTyped
  BY TypeParts
<1>2. UNCHANGED <<files, loader, made>>
  BY DEF ImportToStore, DeleteKey, ImportKey, FinalizeKey, AddCert, Associate, ImportEnds,
         ImportOrDelete, generator
<1>3. FilesTyped' /\ ConfigTyped' /\ LoaderTyped'
  BY <1>1, <1>2, LoaderRests DEF FilesTyped, files
<1>4. CASE ImportToStore
  <2>1. /\ gpc \in Importing /\ gpc' \in Importing \cup {"idle"}
        /\ named' \in BOOLEAN /\ disturbed' \in BOOLEAN /\ UNCHANGED <<gdir, pair, made>>
    BY <1>1, <1>4 DEF ImportToStore, DeleteKey, ImportKey, FinalizeKey, AddCert, Associate,
                      ImportEnds, Importing, GeneratorTyped
  <2>2. GeneratorTyped'
    BY <1>1, <2>1 DEF GeneratorTyped, Writing, Importing
  <2>3. pair \in made /\ pair \in 0 .. MaxPair
    BY <1>1, <2>1 DEF GeneratorTyped
  <2>4. container' \in {container, 0, pair} /\ user' = user
    BY <1>4 DEF ImportToStore, DeleteKey, ImportKey, FinalizeKey, AddCert, Associate,
                ImportEnds, store
  <2>5. /\ certs' \in {certs, certs \cup {pair}}
        /\ bound' = bound \/ (bound' = bound \cup ({pair} \cap certs) /\ certs' = certs)
    BY <1>4 DEF ImportToStore, DeleteKey, ImportKey, FinalizeKey, AddCert, Associate,
                ImportEnds, store
  <2>6. StoreTyped'
    <3>1. container' \in 0 .. MaxPair /\ user' \in BOOLEAN
      BY <1>1, <2>3, <2>4 DEF StoreTyped
    <3>2. certs' \subseteq made' \cup {Own}
      BY <1>1, <2>1, <2>3, <2>5 DEF StoreTyped
    <3>3. bound' \subseteq certs'
      BY <1>1, <2>5 DEF StoreTyped
    <3>4. Own \notin bound'
      BY <1>1, <2>3, <2>5 DEF StoreTyped
    <3> QED BY <3>1, <3>2, <3>3, <3>4 DEF StoreTyped
  <2> QED BY <1>3, <2>2, <2>6, TypesTogether
<1>5. CASE ImportOrDelete
  <2>1. /\ user' \in BOOLEAN /\ bound' \subseteq certs' /\ certs' \subseteq certs \cup {Own}
        /\ bound' \subseteq bound /\ disturbed' = TRUE /\ UNCHANGED <<container, generator>>
    BY <1>1, <1>5 DEF ImportOrDelete, StoreTyped
  <2>2. StoreTyped'
    BY <1>1, <1>2, <2>1 DEF StoreTyped
  <2>3. GeneratorTyped'
    BY <1>1, <2>1 DEF GeneratorTyped, generator
  <2> QED BY <1>3, <2>2, <2>3, TypesTogether
<1> QED BY <1>4, <1>5

LEMMA LoadTypes ==
    ASSUME TypeInv, LoadCertificate \/ Configure
    PROVE  TypeInv'
<1> USE ConstantsTyped
<1>1. ConfigTyped /\ LoaderTyped /\ FilesTyped /\ StoreTyped /\ GeneratorTyped
  BY TypeParts
<1>2. UNCHANGED <<files, store, generator>>
  BY DEF LoadCertificate, Load, ReadCrt, ReadKey, FindCert, AcquireKey, LoadFromUser,
         PlatformSearch, Done, Configure
<1>3. disturbed' \in BOOLEAN
  BY <1>1 DEF LoadCertificate, Load, ReadCrt, ReadKey, FindCert, AcquireKey, LoadFromUser,
              PlatformSearch, Done, Configure, GeneratorTyped
<1>4. made' = made
  BY <1>2 DEF generator
<1>5. FilesTyped' /\ StoreTyped' /\ GeneratorTyped'
  BY <1>2, <1>3, WriterRests
<1>6. CASE Configure
  <2>1. ConfigTyped' /\ lpc = "idle" /\ UNCHANGED <<lpc, at, readCrt, loaded, denied>>
    BY <1>6 DEF Configure, ConfigTyped, search
  <2>2. LoaderTyped'
    BY <1>1, <2>1, <1>4 DEF LoaderTyped
  <2> QED BY <1>5, <2>1, <2>2, TypesTogether
<1>7. ASSUME LoadCertificate PROVE ConfigTyped' /\ UNCHANGED <<cfg, storeName>>
  BY <1>1, <1>7 DEF LoadCertificate, Load, ReadCrt, ReadKey, FindCert, AcquireKey,
                    LoadFromUser, PlatformSearch, Done, config, ConfigTyped
<1>8. ASSUME LoadCertificate PROVE LoaderTyped'
  <2>0. UNCHANGED <<cfg, made>>
    BY <1>4, <1>7, <1>8
  <2>1. ASSUME NEW place \in 0 .. UserStore, NEW cause, GivesNothing(place, cause)
        PROVE  denied' \subseteq 0 .. UserStore
    BY <1>1, <2>1 DEF GivesNothing, LoaderTyped
  <2>2. CASE Load
    <3>1. /\ lpc' \in {"crt", "machine"} /\ (lpc' = "crt" => cfg # NoDir) /\ lpc = "idle"
          /\ at' \in {0, 1} /\ (lpc' = "crt" => at' = 0)
          /\ UNCHANGED <<readCrt, loaded, denied>>
      BY <2>2 DEF Load, Configured
    <3> QED BY <1>1, <2>0, <3>1 DEF LoaderTyped
  <2>3. CASE ReadCrt \/ ReadKey
    <3>0. lpc \in {"crt", "key"}
      BY <2>3, Zenon DEF ReadCrt, ReadKey
    <3>1. lpc \in {"crt", "key"} /\ Place \in Dirs
      BY <1>1, <3>0 DEF Place, LoaderTyped, ConfigTyped
    <3>2. /\ at \in 0 .. Len(SearchPaths) /\ (at = 0 => cfg # NoDir) /\ loaded = Nothing
          /\ crt[Place] \in 0 .. Torn /\ key[Place] \in 0 .. Torn
      BY <1>1, <3>1 DEF LoaderTyped, FilesTyped
    <3>3. CASE NextFiles /\ denied' \subseteq 0 .. UserStore /\ UNCHANGED <<readCrt, loaded>>
      <4>1. lpc' \in {"failed", "search"} /\ at' \in 0 .. Store /\ (lpc' = "search" => at' >= 1)
        BY <3>2, <3>3 DEF NextFiles
      <4> QED BY <1>1, <2>0, <3>2, <3>3, <4>1 DEF LoaderTyped
    <3>4. CASE lpc' = "key" /\ readCrt' = crt[Place] /\ UNCHANGED <<at, denied, loaded>>
      BY <1>1, <2>0, <3>2, <3>4 DEF LoaderTyped
    <3>5. CASE /\ loaded' = [pair |-> readCrt, key |-> key[Place], from |-> at]
               /\ lpc' = "loaded" /\ UNCHANGED <<at, denied, readCrt>>
      BY <1>1, <3>2, <3>5 DEF LoaderTyped
    <3>6. at \in 0 .. UserStore
      BY <3>2
    <3>7. CASE ReadCrt
      BY <2>1, <3>3, <3>4, <3>6, <3>7 DEF ReadCrt
    <3>8. CASE ReadKey
      BY <2>1, <3>3, <3>5, <3>6, <3>8 DEF ReadKey
    <3> QED BY <2>3, <3>7, <3>8
  <2>4. CASE FindCert
    <3>1. Found \subseteq made \cup {Own}
      BY <1>1 DEF Found, StoreTyped
    <3>2. /\ lpc = "machine" /\ UNCHANGED <<at, loaded>>
          /\ \/ lpc' = "user" /\ readCrt' = readCrt /\ denied' \subseteq 0 .. UserStore
             \/ readCrt' \in made \cup {Own} /\ lpc' = "acquire" /\ denied' = denied
      BY <2>1, <2>4, <3>1 DEF FindCert
    <3>3. \A c \in made \cup {Own} : c \in 0 .. Own
      BY <1>1 DEF GeneratorTyped
    <3> QED BY <1>1, <2>0, <3>2, <3>3 DEF LoaderTyped
  <2>5. CASE AcquireKey
    <3>1. lpc = "acquire" /\ UNCHANGED <<at, readCrt>>
      BY <2>5 DEF AcquireKey
    <3>2. readCrt \in 0 .. Own /\ KeyOf(readCrt) \in 0 .. Own
      BY <1>1, <3>1 DEF LoaderTyped, StoreTyped, KeyOf
    <3>3. CASE /\ loaded' = [pair |-> readCrt, key |-> KeyOf(readCrt), from |-> Store]
               /\ lpc' = "loaded" /\ denied' = denied
      BY <1>1, <2>0, <3>1, <3>2, <3>3 DEF LoaderTyped
    <3>4. CASE lpc' = "user" /\ denied' \subseteq 0 .. UserStore /\ loaded' = loaded
      BY <1>1, <2>0, <3>1, <3>4 DEF LoaderTyped
    <3> QED BY <2>1, <2>5, <3>3, <3>4 DEF AcquireKey
  <2>6. CASE LoadFromUser
    <3>1. lpc = "user" /\ readCrt' = readCrt
      BY <2>6 DEF LoadFromUser
    <3>2. CASE /\ loaded' = [pair |-> Own, key |-> Own, from |-> Store]
               /\ lpc' = "loaded" /\ UNCHANGED <<at, denied>>
      BY <1>1, <2>0, <3>1, <3>2 DEF LoaderTyped
    <3>3. CASE /\ lpc' \in {"machine", "search"} /\ at' = 1 /\ loaded' = loaded
               /\ denied' \subseteq 0 .. UserStore
      BY <1>1, <2>0, <3>1, <3>3 DEF LoaderTyped
    <3> QED BY <2>1, <2>6, <3>2, <3>3 DEF LoadFromUser
  <2>7. CASE PlatformSearch
    <3>1. /\ lpc = "search" /\ UNCHANGED <<readCrt, loaded, denied>>
          /\ \/ lpc' = "failed" /\ at' = at
             \/ at <= Len(SearchPaths) /\ lpc' = "crt" /\ at' = at
             \/ at <= Len(SearchPaths) /\ at' = at + 1 /\ lpc' = lpc
      BY <1>1, <2>7 DEF PlatformSearch, LoaderTyped
    <3>2. at \in 1 .. Store /\ loaded = Nothing
      BY <1>1, <3>1 DEF LoaderTyped
    <3> QED BY <1>1, <2>0, <3>1, <3>2 DEF LoaderTyped
  <2>8. CASE Done
    <3>1. lpc' = "idle" /\ at' = 0 /\ readCrt' = 0 /\ loaded' = Nothing /\ denied' = {}
      BY <2>8 DEF Done
    <3> QED BY <3>1 DEF LoaderTyped
  <2> QED BY <1>8, <2>2, <2>3, <2>4, <2>5, <2>6, <2>7, <2>8 DEF LoadCertificate
<1> QED BY <1>5, <1>6, <1>7, <1>8, TypesTogether

LEMMA TypeStep == TypeInv /\ [Next]_vars => TypeInv'
<1> SUFFICES ASSUME TypeInv, [Next]_vars PROVE TypeInv'
  OBVIOUS
<1>1. CASE UNCHANGED vars
  <2>1. UNCHANGED <<files, store, generator, loader, disturbed, made>>
    BY <1>1 DEF vars, generator
  <2>2. disturbed' \in BOOLEAN
    BY <2>1, TypeParts DEF GeneratorTyped
  <2> QED BY <2>1, <2>2, LoaderRests, WriterRests, TypesTogether
<1> QED BY <1>1, GenerateTypes, ImportTypes, LoadTypes DEF Next

\* Every variable of the generation and of the loading keeps its type.
THEOREM TypeCorrect == Spec => []TypeOK
<1>1. TypeInv => TypeOK
  BY DEF TypeInv
<1> QED BY TypeInit, TypeStep, <1>1, PTL DEF Spec

(***************************************************************************)
(* 2. Only what was written to the end is loaded.                          *)
(***************************************************************************)
\* A key is in its file only when its pair is whole: it is written last.  One
\* is imported after that.  The files that are read have been found.
MadeInv == /\ \A d \in Dirs : key[d] \in made \cup {Missing, Torn}
           /\ container \in made \cup {0}

FoundInv == lpc \in {"crt", "key"} => key[Place] # Missing

LEMMA WrittenOnlyBy ==
    ASSUME TypeInv, [Next]_vars
    PROVE  \/ GenerateSelfSigned \/ ImportToStore \/ ImportOrDelete
           \/ UNCHANGED <<files, store, generator>>
  BY DEF Next, LoadCertificate, Load, ReadCrt, ReadKey, FindCert, AcquireKey, LoadFromUser,
         PlatformSearch, Done, Configure, vars

LEMMA ReadOnlyBy ==
    ASSUME TypeInv, [Next]_vars
    PROVE  LoadCertificate \/ Configure \/ UNCHANGED loader
  BY DEF Next, GenerateSelfSigned, Generate, OpenCert, WriteCert, OpenKey, WriteKey,
         GenerateFails, ImportToStore, DeleteKey, ImportKey, FinalizeKey, AddCert, Associate,
         ImportEnds, ImportOrDelete, vars

\* A pair is not taken back, nor is a file removed.
LEMMA KeysStay ==
    ASSUME TypeInv, [Next]_vars
    PROVE  /\ made \subseteq made'
           /\ \A d \in Dirs : key[d] # Missing => key'[d] # Missing
<1> USE ConstantsTyped DEF TypeInv, TypeOK, PlaceInv, Writing, files, generator
<1>1. CASE OpenKey
  BY <1>1 DEF OpenKey
<1>2. CASE WriteKey
  BY <1>2 DEF WriteKey
<1>3. CASE Generate \/ OpenCert \/ WriteCert \/ GenerateFails
  BY <1>3 DEF Generate, OpenCert, WriteCert, GenerateFails
<1>4. CASE ImportToStore \/ ImportOrDelete
  BY <1>4 DEF ImportToStore, DeleteKey, ImportKey, FinalizeKey, AddCert, Associate, ImportEnds,
              ImportOrDelete
<1>5. CASE UNCHANGED <<files, store, generator>>
  BY <1>5
<1> QED BY <1>1, <1>2, <1>3, <1>4, <1>5, WrittenOnlyBy DEF GenerateSelfSigned

LEMMA MadeStep == TypeInv /\ MadeInv /\ [Next]_vars => MadeInv'
<1> SUFFICES ASSUME TypeInv, MadeInv, [Next]_vars PROVE MadeInv'
  OBVIOUS
<1> USE ConstantsTyped DEF TypeInv, TypeOK, PlaceInv, MadeInv, Writing, Importing, files, store,
        generator
<1>1. CASE OpenKey
  BY <1>1 DEF OpenKey
<1>2. CASE WriteKey
  BY <1>2 DEF WriteKey
<1>3. CASE Generate \/ OpenCert \/ WriteCert \/ GenerateFails
  BY <1>3 DEF Generate, OpenCert, WriteCert, GenerateFails
<1>4. CASE ImportToStore \/ ImportOrDelete
  <2>1. UNCHANGED <<key, made>> /\ container' \in {container, 0, pair}
    BY <1>4 DEF ImportToStore, DeleteKey, ImportKey, FinalizeKey, AddCert, Associate,
                ImportEnds, ImportOrDelete
  <2>2. container' = pair => container' = container \/ pair \in made
    BY <1>4 DEF ImportToStore, DeleteKey, ImportKey, FinalizeKey, AddCert, Associate,
                ImportEnds, ImportOrDelete
  <2> QED BY <2>1, <2>2
<1>5. CASE UNCHANGED <<files, store, generator>>
  BY <1>5
<1> QED BY <1>1, <1>2, <1>3, <1>4, <1>5, WrittenOnlyBy DEF GenerateSelfSigned

LEMMA FoundStep == TypeInv /\ FoundInv /\ [Next]_vars => FoundInv'
<1> SUFFICES ASSUME TypeInv, FoundInv, [Next]_vars, lpc' \in {"crt", "key"}
             PROVE  key'[Place'] # Missing
  BY DEF FoundInv, Place
<1> USE ConstantsTyped DEF TypeInv, TypeOK, PlaceInv, FoundInv, Place, files, config, search,
        loader
<1>1. CASE UNCHANGED loader
  <2>1. Place \in Dirs /\ Place' = Place /\ key[Place] # Missing
    BY <1>1
  <2> QED BY <2>1, KeysStay
<1>2. CASE Load
  BY <1>2 DEF Load, Configured, Exists
<1>3. CASE ReadCrt \/ ReadKey
  BY <1>3 DEF ReadCrt, ReadKey, NextFiles
<1>4. CASE PlatformSearch
  BY <1>4 DEF PlatformSearch, Exists
<1>5. CASE FindCert \/ AcquireKey \/ LoadFromUser \/ Done \/ Configure
  BY <1>5 DEF FindCert, AcquireKey, LoadFromUser, Done, Configure
<1> QED BY <1>1, <1>2, <1>3, <1>4, <1>5, ReadOnlyBy DEF LoadCertificate

LEMMA LoadedStep ==
    TypeInv /\ MadeInv /\ FoundInv /\ LoadedWasMade /\ [Next]_vars => LoadedWasMade'
<1> SUFFICES ASSUME TypeInv, MadeInv, FoundInv, LoadedWasMade, [Next]_vars
             PROVE  LoadedWasMade'
  OBVIOUS
<1>1. CASE loaded' \in {loaded, Nothing}
  BY <1>1, KeysStay DEF LoadedWasMade
<1>2. CASE ReadKey
  <2>1. lpc = "key" /\ at \in 0 .. Len(SearchPaths) /\ Place \in Dirs
    BY <1>2, ConstantsTyped DEF ReadKey, Place, TypeInv, TypeOK, PlaceInv
  <2>2. CASE IsPair /\ loaded' = [pair |-> readCrt, key |-> key[Place], from |-> at]
    <3>1. key[Place] \in made /\ readCrt = key[Place]
      BY <2>1, <2>2 DEF IsPair, MadeInv, FoundInv
    <3> QED BY <2>1, <2>2, <3>1, KeysStay, ConstantsTyped DEF LoadedWasMade
  <2> QED BY <1>1, <1>2, <2>2 DEF ReadKey
<1>3. CASE AcquireKey
  <2>1. readCrt \in made \cup {Own} /\ bound \subseteq made /\ Own \notin made \cup bound
    BY <1>3, ConstantsTyped DEF AcquireKey, TypeInv, TypeOK, PlaceInv
  <2>2. CASE /\ KeyOf(readCrt) # 0
             /\ loaded' = [pair |-> readCrt, key |-> KeyOf(readCrt), from |-> Store]
    <3>1. CASE readCrt = Own
      <4>1. KeyOf(readCrt) = Own
        BY <2>1, <3>1 DEF KeyOf
      <4> QED BY <2>2, <3>1, <4>1 DEF LoadedWasMade
    <3>2. CASE readCrt # Own
      <4>1. KeyOf(readCrt) \in made
        BY <2>1, <2>2, <3>2 DEF KeyOf, MadeInv
      <4> QED BY <2>1, <2>2, <3>2, <4>1, KeysStay DEF LoadedWasMade
    <3> QED BY <3>1, <3>2
  <2> QED BY <1>1, <1>3, <2>2 DEF AcquireKey
<1>4. CASE LoadFromUser
  <2>1. CASE loaded' = [pair |-> Own, key |-> Own, from |-> Store]
    BY <2>1 DEF LoadedWasMade
  <2> QED BY <1>1, <1>4, <2>1 DEF LoadFromUser
<1>5. CASE Load \/ ReadCrt \/ FindCert \/ PlatformSearch \/ Done \/ Configure \/ UNCHANGED loader
  <2>1. loaded' \in {loaded, Nothing}
    BY <1>5 DEF Load, ReadCrt, FindCert, PlatformSearch, Done, Configure, search, loader
  <2> QED BY <1>1, <2>1
<1> QED BY <1>2, <1>3, <1>4, <1>5, ReadOnlyBy DEF LoadCertificate

\* What is loaded was generated to its end, and as one pair when it is read
\* from files, or is the administrator's with its own key.
THEOREM LoadedWasMadeCorrect == Spec => []LoadedWasMade
<1>1. Init => MadeInv /\ FoundInv /\ LoadedWasMade
  BY DEF Init, MadeInv, FoundInv, LoadedWasMade
<1> QED BY <1>1, TypeInit, TypeStep, MadeStep, FoundStep, LoadedStep, PTL DEF Spec

(***************************************************************************)
(* 3. What was generated and configured is loaded.                         *)
(***************************************************************************)
\* A whole pair is in its directory, and the one that is being written is not
\* whole yet.
WholeInv ==
    /\ \A d \in Dirs : complete[d] # 0 => crt[d] = complete[d] /\ key[d] = complete[d]
    /\ gpc \in {"writeCert", "openKey", "writeKey"} => complete[gdir] = 0
    /\ gpc \in {"openKey", "writeKey"} => crt[gdir] = pair

\* While nothing changes and its files can be read, a whole pair in the
\* configured directory is looked at first, and is still what was read of it.
ReadInv ==
    ~disturbed /\ 0 \notin denied /\ cfg # NoDir /\ complete[cfg] # 0 =>
        /\ lpc \notin {"machine", "acquire", "user", "search", "failed"}
        /\ lpc \in {"crt", "key"} => at = 0
        /\ lpc = "key" => readCrt = complete[cfg]
        /\ lpc = "loaded" => loaded = [pair |-> complete[cfg], key |-> complete[cfg],
                                        from |-> 0]

LEMMA WholeStep == TypeInv /\ WholeInv /\ [Next]_vars => WholeInv'
<1> SUFFICES ASSUME TypeInv, WholeInv, [Next]_vars PROVE WholeInv'
  OBVIOUS
<1> USE ConstantsTyped DEF TypeInv, TypeOK, WholeInv, Writing, Importing, files, store,
        generator, config, search, loader
<1>1. CASE Generate
  BY <1>1 DEF Generate
<1>2. CASE OpenCert
  BY <1>2 DEF OpenCert
<1>3. CASE WriteCert
  BY <1>3 DEF WriteCert
<1>4. CASE OpenKey
  BY <1>4 DEF OpenKey
<1>5. CASE WriteKey
  BY <1>5 DEF WriteKey
<1>6. CASE GenerateFails \/ Configure \/ ImportOrDelete
  BY <1>6 DEF GenerateFails, Configure, ImportOrDelete
<1>7. CASE ImportToStore
  BY <1>7 DEF ImportToStore, DeleteKey, ImportKey, FinalizeKey, AddCert, Associate, ImportEnds
<1>8. CASE LoadCertificate
  BY <1>8 DEF LoadCertificate, Load, ReadCrt, ReadKey, FindCert, AcquireKey, LoadFromUser,
              PlatformSearch, Done
<1>9. CASE UNCHANGED vars
  BY <1>9 DEF vars
<1> QED BY <1>1, <1>2, <1>3, <1>4, <1>5, <1>6, <1>7, <1>8, <1>9 DEF Next, GenerateSelfSigned

LEMMA ReadStep == TypeInv /\ WholeInv /\ ReadInv /\ [Next]_vars => ReadInv'
<1> SUFFICES ASSUME TypeInv, WholeInv, ReadInv, [Next]_vars PROVE ReadInv'
  OBVIOUS
<1> USE ConstantsTyped DEF TypeInv, TypeOK, WholeInv, ReadInv, Writing, Importing, files,
        store, generator, config, search, loader
<1>1. CASE Generate \/ GenerateFails
  BY <1>1 DEF Generate, GenerateFails
<1>2. CASE OpenCert \/ WriteCert \/ OpenKey \/ WriteKey \/ ImportOrDelete
  BY <1>2 DEF OpenCert, WriteCert, OpenKey, WriteKey, ImportOrDelete
<1>3. CASE ImportToStore
  BY <1>3 DEF ImportToStore, DeleteKey, ImportKey, FinalizeKey, AddCert, Associate, ImportEnds
<1>4. CASE Configure
  BY <1>4 DEF Configure
<1>5. CASE Load
  BY <1>5 DEF Load, Configured, Exists
<1>6. CASE ReadCrt
  BY <1>6 DEF ReadCrt, Place, GivesNothing, NextFiles
<1>7. CASE ReadKey
  BY <1>7 DEF ReadKey, Place, IsPair, GivesNothing, NextFiles
<1>8. CASE FindCert \/ AcquireKey \/ LoadFromUser \/ PlatformSearch
  BY <1>8 DEF FindCert, AcquireKey, LoadFromUser, PlatformSearch, Exists, GivesNothing
<1>9. CASE Done
  BY <1>9 DEF Done
<1>10. CASE UNCHANGED vars
  BY <1>10 DEF vars
<1> QED BY <1>1, <1>2, <1>3, <1>4, <1>5, <1>6, <1>7, <1>8, <1>9, <1>10
        DEF Next, GenerateSelfSigned, LoadCertificate

\* A whole pair in the configured directory is the one that is loaded, unless
\* something changes meanwhile or one of its files cannot be read.
THEOREM GeneratedIsLoadedCorrect == Spec => []GeneratedIsLoaded
<1>1. Init => WholeInv /\ ReadInv
  BY DEF Init, WholeInv, ReadInv
<1>2. ReadInv => GeneratedIsLoaded
  BY DEF ReadInv, GeneratedIsLoaded
<1> QED BY <1>1, <1>2, TypeInit, TypeStep, WholeStep, ReadStep, PTL DEF Spec

(***************************************************************************)
(* 4. Why loading fails.                                                   *)
(***************************************************************************)
\* What LocalMachine and CurrentUser give nothing for.
MachinePassed == NoMachine \/ Store \in denied
UserPassed    == ~InUserStore \/ UserStore \in denied

\* While nothing changes, the sources that were passed over have no pair, or
\* could not be read.
PassedInv ==
    ~disturbed =>
        /\ lpc \in {"crt", "key"} /\ at = 0 => Configured
        /\ lpc = "key" => readCrt = crt[Place]
        /\ lpc = "acquire" => readCrt \in Found
        /\ lpc = "user" => MachinePassed
        /\ lpc = "search" \/ (lpc \in {"crt", "key"} /\ at # 0) =>
               /\ MachinePassed /\ UserPassed
               /\ \A i \in 1 .. at - 1 : complete[SearchPaths[i]] = 0 \/ i \in denied

\* A source that is passed over stays passed over while nothing changes.
Same == UNCHANGED <<files, store, config, disturbed>>

LEMMA PassedStays ==
    ASSUME Same, denied \subseteq denied'
    PROVE  /\ MachinePassed => MachinePassed'
           /\ UserPassed => UserPassed'
           /\ Found' = Found /\ (Configured' <=> Configured)
           /\ complete' = complete /\ crt' = crt /\ disturbed' = disturbed /\ cfg' = cfg
  BY DEF Same, MachinePassed, UserPassed, NoMachine, InUserStore, Found, KeyOf,
         Configured, Exists, files, store, config

\* Two files that are no whole pair, or that cannot be read.
LEMMA FilesPassed ==
    ASSUME TypeInv, WholeInv, PassedInv, FailsOnlyWithoutPair, Same, denied \subseteq denied',
           lpc \in {"crt", "key"}, NextFiles,
           ~disturbed => complete[Place] = 0 \/ at \in denied'
    PROVE  PassedInv' /\ FailsOnlyWithoutPair'
<1>1. at \in 0 .. Len(SearchPaths)
  BY ConstantsTyped DEF TypeInv, TypeOK, PlaceInv
<1>2. CASE at = 0
  <2>1. lpc' = "failed" /\ at' = 0 /\ Place = cfg
    BY <1>2 DEF NextFiles, Place
  <2>2. ~disturbed => Configured
    BY <1>2 DEF PassedInv
  <2> QED BY <1>2, <2>1, <2>2, PassedStays DEF PassedInv, FailsOnlyWithoutPair
<1>3. CASE at # 0
  <2>1. lpc' = "search" /\ at' = at + 1 /\ Place = SearchPaths[at]
    BY <1>3 DEF NextFiles, Place
  <2>2. ~disturbed => \A i \in 1 .. at' - 1 : complete'[SearchPaths[i]] = 0 \/ i \in denied'
    <3>1. ~disturbed => complete'[SearchPaths[at]] = 0 \/ at \in denied'
      BY <2>1, PassedStays
    <3>2. ~disturbed => \A i \in 1 .. at - 1 : complete'[SearchPaths[i]] = 0 \/ i \in denied'
      BY <1>3, PassedStays DEF PassedInv
    <3> QED BY <1>1, <2>1, <3>1, <3>2
  <2>3. ~disturbed => MachinePassed' /\ UserPassed'
    BY <1>3, PassedStays DEF PassedInv
  <2> QED BY <2>1, <2>2, <2>3, PassedStays DEF PassedInv, FailsOnlyWithoutPair
<1> QED BY <1>2, <1>3

LEMMA PassedStep ==
    TypeInv /\ WholeInv /\ PassedInv /\ FailsOnlyWithoutPair /\ [Next]_vars
        => PassedInv' /\ FailsOnlyWithoutPair'
<1> SUFFICES ASSUME TypeInv, WholeInv, PassedInv, FailsOnlyWithoutPair, [Next]_vars
             PROVE  PassedInv' /\ FailsOnlyWithoutPair'
  OBVIOUS
<1>1. CASE Generate \/ GenerateFails \/ ImportKey \/ ImportEnds \/ UNCHANGED vars
  <2>1. Same /\ UNCHANGED <<lpc, at, readCrt, denied>>
    BY <1>1 DEF Generate, GenerateFails, ImportKey, ImportEnds, vars, Same, loader, search
  <2>2. Place' = Place
    BY <2>1 DEF Same, config, Place
  <2>3. MachinePassed' = MachinePassed /\ UserPassed' = UserPassed
        /\ NoMachine' = NoMachine /\ InUserStore' = InUserStore
    BY <2>1 DEF Same, files, store, config, MachinePassed, UserPassed, NoMachine,
                InUserStore, Found, KeyOf
  <2> QED BY <2>1, <2>2, <2>3, PassedStays DEF PassedInv, FailsOnlyWithoutPair
<1>2. CASE \/ OpenCert \/ WriteCert \/ OpenKey \/ WriteKey \/ ImportOrDelete
           \/ DeleteKey \/ FinalizeKey \/ AddCert \/ Associate
  <2>1. disturbed' = TRUE
    BY <1>2 DEF OpenCert, WriteCert, OpenKey, WriteKey, ImportOrDelete, DeleteKey, FinalizeKey,
                AddCert, Associate
  <2> QED BY <2>1 DEF PassedInv, FailsOnlyWithoutPair
<1>3. CASE Configure \/ Done
  <2>1. lpc' = "idle"
    BY <1>3 DEF Configure, Done, search
  <2> QED BY <2>1 DEF PassedInv, FailsOnlyWithoutPair
<1>4. CASE Load
  <2>1. \/ lpc' = "machine"
        \/ lpc' = "crt" /\ at' = 0 /\ Configured
    BY <1>4 DEF Load
  <2>2. Configured' <=> Configured
    BY <1>4 DEF Load, Configured, Exists, config, files
  <2> QED BY <2>1, <2>2 DEF PassedInv, FailsOnlyWithoutPair
<1>5. ASSUME ReadCrt \/ ReadKey \/ FindCert \/ AcquireKey \/ LoadFromUser \/ PlatformSearch
      PROVE  Same /\ denied \subseteq denied'
  BY <1>5 DEF Same, ReadCrt, ReadKey, FindCert, AcquireKey, LoadFromUser, PlatformSearch,
              GivesNothing
<1>6. CASE ReadCrt
  <2>1. CASE readCrt' = crt[Place] /\ lpc' = "key" /\ UNCHANGED <<at, denied>>
    <3>1. lpc = "crt" /\ Place' = Place
      BY <1>5, <1>6, <2>1 DEF ReadCrt, Place, Same, config
    <3> QED BY <1>5, <1>6, <2>1, <3>1, PassedStays DEF PassedInv, FailsOnlyWithoutPair
  <2>2. CASE NextFiles /\ denied' = denied \cup {at}
    BY <1>5, <1>6, <2>2, FilesPassed DEF ReadCrt
  <2> QED BY <1>6, <2>1, <2>2 DEF ReadCrt, GivesNothing
<1>7. CASE ReadKey
  <2>1. CASE lpc' = "loaded"
    BY <2>1 DEF PassedInv, FailsOnlyWithoutPair
  <2>2. CASE NextFiles /\ GivesNothing(at, ~IsPair)
    <3>1. lpc = "key" /\ Place \in Dirs
      BY <1>7, ConstantsTyped DEF ReadKey, Place, TypeInv, TypeOK, PlaceInv
    <3>2. CASE IsPair
      BY <1>5, <1>7, <2>2, <3>1, <3>2, FilesPassed DEF GivesNothing
    <3>3. CASE ~IsPair
      <4>1. ~disturbed => complete[Place] = 0
        BY <3>1, <3>3, ConstantsTyped DEF IsPair, PassedInv, WholeInv, TypeInv, TypeOK
      <4> QED BY <1>5, <1>7, <2>2, <3>1, <4>1, FilesPassed
    <3> QED BY <3>2, <3>3
  <2> QED BY <1>7, <2>1, <2>2 DEF ReadKey
<1>8. CASE FindCert
  <2>1. CASE readCrt' \in Found /\ lpc' = "acquire"
    BY <1>5, <1>8, <2>1, PassedStays DEF PassedInv, FailsOnlyWithoutPair
  <2>2. CASE lpc' = "user" /\ GivesNothing(Store, Found = {})
    <3>1. MachinePassed \/ Store \in denied'
      BY <2>2 DEF GivesNothing, MachinePassed, NoMachine
    <3>2. MachinePassed'
      BY <1>5, <1>8, <3>1, PassedStays DEF MachinePassed
    <3> QED BY <2>2, <3>2 DEF PassedInv, FailsOnlyWithoutPair
  <2> QED BY <1>8, <2>1, <2>2 DEF FindCert
<1>9. CASE AcquireKey
  <2>1. CASE lpc' = "loaded"
    BY <2>1 DEF PassedInv, FailsOnlyWithoutPair
  <2>2. CASE lpc' = "user" /\ GivesNothing(Store, KeyOf(readCrt) = 0)
    <3>1. ~disturbed => readCrt \in Found
      BY <1>9 DEF AcquireKey, PassedInv
    <3>2. KeyOf(readCrt) = 0 \/ Store \in denied'
      BY <2>2 DEF GivesNothing
    <3>3. ~disturbed => MachinePassed \/ Store \in denied'
      BY <3>1, <3>2 DEF MachinePassed, NoMachine
    <3>4. ~disturbed => MachinePassed'
      BY <1>5, <1>9, <3>3, PassedStays DEF MachinePassed
    <3> QED BY <1>5, <1>9, <2>2, <3>4, PassedStays DEF PassedInv, FailsOnlyWithoutPair
  <2> QED BY <1>9, <2>1, <2>2 DEF AcquireKey
<1>10. CASE LoadFromUser
  <2>1. CASE lpc' = "loaded"
    BY <2>1 DEF PassedInv, FailsOnlyWithoutPair
  <2>2. CASE /\ at' = 1 /\ lpc' \in {"machine", "search"}
             /\ GivesNothing(UserStore, ~InUserStore)
    <3>1. ~disturbed => MachinePassed'
      BY <1>5, <1>10, PassedStays DEF LoadFromUser, PassedInv
    <3>2. UserPassed'
      BY <1>5, <1>10, <2>2, PassedStays DEF GivesNothing, UserPassed
    <3>3. \A i \in 1 .. at' - 1 : FALSE
      BY <2>2
    <3> QED BY <1>5, <1>10, <2>2, <3>1, <3>2, <3>3, PassedStays DEF PassedInv, FailsOnlyWithoutPair
  <2> QED BY <1>10, <2>1, <2>2 DEF LoadFromUser
<1>11. CASE PlatformSearch
  <2>1. lpc = "search" /\ at \in Nat /\ at >= 1 /\ denied' = denied
    BY <1>11 DEF PlatformSearch, TypeInv, TypeOK, PlaceInv
  <2>2. ~disturbed => /\ MachinePassed' /\ UserPassed'
                      /\ \A i \in 1 .. at - 1 : complete'[SearchPaths[i]] = 0 \/ i \in denied'
    BY <1>5, <1>11, <2>1, PassedStays DEF PassedInv
  <2>3. CASE at > Len(SearchPaths) /\ lpc' = "failed"
    <3>1. \A i \in DOMAIN SearchPaths : i \in 1 .. at - 1
      BY <2>1, <2>3, SearchPathsDomain, ConstantsTyped
    <3> QED BY <1>5, <1>11, <2>2, <2>3, <3>1, PassedStays
            DEF PassedInv, FailsOnlyWithoutPair, MachinePassed, UserPassed
  <2>4. CASE lpc' = "crt" /\ at' = at
    BY <1>5, <1>11, <2>1, <2>2, <2>4, PassedStays DEF PassedInv, FailsOnlyWithoutPair
  <2>5. CASE at <= Len(SearchPaths) /\ ~Exists(Place) /\ at' = at + 1 /\ lpc' = "search"
    <3>1. Place \in Dirs /\ Place = SearchPaths[at]
      BY <2>1, <2>5, ConstantsTyped DEF Place
    <3>2. complete[SearchPaths[at]] = 0
      BY <2>5, <3>1 DEF WholeInv, Exists, TypeInv, TypeOK
    <3>3. complete'[SearchPaths[at]] = 0
      BY <1>5, <1>11, <3>2, PassedStays
    <3>4. ~disturbed => \A i \in 1 .. at' - 1 : complete'[SearchPaths[i]] = 0 \/ i \in denied'
      BY <2>1, <2>2, <2>5, <3>3
    <3> QED BY <1>5, <1>11, <2>2, <2>5, <3>4, PassedStays DEF PassedInv, FailsOnlyWithoutPair
  <2> QED BY <1>11, <2>1, <2>3, <2>4, <2>5 DEF PlatformSearch
<1> QED BY <1>1, <1>2, <1>3, <1>4, <1>6, <1>7, <1>8, <1>9, <1>10, <1>11
        DEF Next, GenerateSelfSigned, ImportToStore, LoadCertificate

\* Loading fails only on configured files that are no pair or cannot be read, or
\* when every source has nothing or cannot be read, but for a certificate without
\* a key that may hide another of LocalMachine.
THEOREM FailsOnlyWithoutPairCorrect == Spec => []FailsOnlyWithoutPair
<1>1. Init => WholeInv /\ PassedInv /\ FailsOnlyWithoutPair
  BY DEF Init, WholeInv, PassedInv, FailsOnlyWithoutPair
<1> QED BY <1>1, TypeInit, TypeStep, WholeStep, PassedStep, PTL DEF Spec
=============================================================================
