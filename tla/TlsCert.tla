------------------------------ MODULE TlsCert ------------------------------
(***************************************************************************)
(* internal/tlsutil: GenerateSelfSigned, which writes a certificate and    *)
(* its key into the first directory that can be written, ImportToStore,    *)
(* which may follow it, and LoadCertificate, which looks for a pair in     *)
(* several places, beside them in another process.                         *)
(*                                                                         *)
(* A file, a certificate of the store and the key container hold the       *)
(* number of the key pair they are of.  Outside of Windows the store stays *)
(* empty: ImportToStore fails before its first step.                       *)
(*                                                                         *)
(* Every call by which LoadCertificate reads may fail although what it     *)
(* reads is in order: a key file is made with mode 0600 by whoever         *)
(* generates, the service runs as another user, and os.Stat finds it all   *)
(* the same; the private key of a certificate may be out of its reach; the *)
(* store may not open.                                                     *)
(***************************************************************************)
EXTENDS Naturals, Sequences

CONSTANTS CertDirs,     \* defaultCertDirs and more, in order
          SearchPaths,  \* searchPaths: directories with a server.crt and .key
          NoDir,        \* no cert_file and key_file
          MaxPair       \* bound: pairs generated

Dirs == {CertDirs[i] : i \in DOMAIN CertDirs} \cup
        {SearchPaths[i] : i \in DOMAIN SearchPaths}

ASSUME ConstantsAssumption ==
    /\ CertDirs \in Seq(Dirs) /\ SearchPaths \in Seq(Dirs)
    /\ NoDir \notin Dirs
    /\ MaxPair \in Nat

VARIABLES
    crt, key,  \* crt[d], key[d]: what the files of d hold
    certs,     \* LocalMachine\My: the certificates of the name Limiz
    bound,     \* those that refer to the key container of that name
    container, \* the key container of that name: the key of a pair, or 0
    user,      \* CurrentUser\My has the administrator's certificate of that
               \* name, with a key of its own
    gpc,       \* where GenerateSelfSigned and ImportToStore are
    gdir,      \* its directory
    pair,      \* number of the last pair generated
    named,     \* the imported key has got its name
    cfg,       \* directory of cert_file and key_file, or NoDir
    storeName, \* none, the subject or the thumbprint of a certificate
    lpc,       \* where LoadCertificate is
    at,        \* the place it looks at: 0 before platformSearch
    readCrt,   \* the certificate it has read
    loaded,    \* what it returns: certificate, key and place, or Nothing
    denied,    \* history: the places that it was not able to read
    complete,  \* history: complete[d] is the pair of d when it is whole
    made,      \* history: the pairs that were written to the end
    disturbed  \* history: something has changed since the loading began

files     == <<crt, key, complete>>
store     == <<certs, bound, container, user>>
generator == <<gpc, gdir, pair, named, made>>
config    == <<cfg, storeName>>
search    == <<lpc, at, readCrt, loaded, denied>>
loader    == <<config, search>>
vars == <<files, store, generator, loader, disturbed>>

Missing == 0
Torn == MaxPair + 1     \* made or emptied, and not written to the end
Own == MaxPair + 2      \* the administrator's certificate, and its key
Store == Len(SearchPaths) + 1
UserStore == Store + 1
Nothing == [pair |-> 0, key |-> 0, from |-> 0]
Writing == {"openCert", "writeCert", "openKey", "writeKey"}
Importing == {"deleteKey", "importKey", "finalizeKey", "addCert", "associate", "imported"}
NoName == 0
Subject == MaxPair + 3
StoreNames == {NoName, Own, Subject} \cup 1 .. MaxPair

Init ==
    /\ crt = [d \in Dirs |-> Missing] /\ key = [d \in Dirs |-> Missing]
    /\ certs = {} /\ bound = {} /\ container = 0 /\ user = FALSE
    /\ gpc = "idle" /\ gdir = NoDir /\ pair = 0 /\ named = FALSE
    /\ cfg = NoDir /\ storeName = NoName
    /\ lpc = "idle" /\ at = 0 /\ readCrt = 0 /\ loaded = Nothing /\ denied = {}
    /\ complete = [d \in Dirs |-> 0] /\ made = {} /\ disturbed = FALSE

-----------------------------------------------------------------------------
(* GenerateSelfSigned.                                                     *)

\* The directory at i takes a file, and none before it does.
WritableCertDir(writable, i) ==
    /\ CertDirs[i] \in writable
    /\ \A j \in 1 .. i - 1 : CertDirs[j] \notin writable

\* The directory, the key pair and the certificate, in memory.  What can be
\* written depends on the user who generates.
Generate ==
    /\ gpc = "idle"
    /\ pair < MaxPair
    /\ \E writable \in SUBSET Dirs, i \in DOMAIN CertDirs :
           WritableCertDir(writable, i) /\ gdir' = CertDirs[i]
    /\ pair' = pair + 1
    /\ gpc' = "openCert"
    /\ UNCHANGED <<files, store, named, made, loader, disturbed>>

OpenCert ==
    /\ gpc = "openCert"
    /\ crt' = [crt EXCEPT ![gdir] = Torn]
    /\ complete' = [complete EXCEPT ![gdir] = 0]
    /\ gpc' = "writeCert"
    /\ disturbed' = TRUE
    /\ UNCHANGED <<key, store, gdir, pair, named, made, loader>>

WriteCert ==
    /\ gpc = "writeCert"
    /\ crt' = [crt EXCEPT ![gdir] = pair]
    /\ gpc' = "openKey"
    /\ disturbed' = TRUE
    /\ UNCHANGED <<key, complete, store, gdir, pair, named, made, loader>>

OpenKey ==
    /\ gpc = "openKey"
    /\ key' = [key EXCEPT ![gdir] = Torn]
    /\ gpc' = "writeKey"
    /\ disturbed' = TRUE
    /\ UNCHANGED <<crt, complete, store, gdir, pair, named, made, loader>>

\* The caller has the pair, and may import it.
WriteKey ==
    /\ gpc = "writeKey"
    /\ key' = [key EXCEPT ![gdir] = pair]
    /\ complete' = [complete EXCEPT ![gdir] = pair]
    /\ made' = made \cup {pair}
    /\ gpc' \in {"idle", "deleteKey"}
    /\ gdir' = NoDir
    /\ disturbed' = TRUE
    /\ UNCHANGED <<crt, store, pair, named, loader>>

\* An error, or the end of the process, before any of the steps.
GenerateFails ==
    /\ gpc \in Writing
    /\ gpc' = "idle"
    /\ gdir' = NoDir
    /\ UNCHANGED <<files, store, pair, named, made, loader, disturbed>>

-----------------------------------------------------------------------------
(* ImportToStore.                                                          *)

\* A key of the name is deleted first, and whether it was is not looked at.
DeleteKey ==
    /\ gpc = "deleteKey"
    /\ container' \in {container, 0}
    /\ gpc' = "importKey"
    /\ disturbed' = TRUE
    /\ UNCHANGED <<files, certs, bound, user, gdir, pair, named, made, loader>>

\* Nor is it looked at whether the new key has got its name.
ImportKey ==
    /\ gpc = "importKey"
    /\ named' \in BOOLEAN
    /\ gpc' = "finalizeKey"
    /\ UNCHANGED <<files, store, gdir, pair, made, loader, disturbed>>

FinalizeKey ==
    /\ gpc = "finalizeKey"
    /\ container' = IF named THEN pair ELSE container
    /\ named' = FALSE
    /\ gpc' = "addCert"
    /\ disturbed' = TRUE
    /\ UNCHANGED <<files, certs, bound, user, gdir, pair, made, loader>>

\* Only a certificate of the same serial number is replaced.
AddCert ==
    /\ gpc = "addCert"
    /\ certs' = certs \cup {pair}
    /\ gpc' = "associate"
    /\ disturbed' = TRUE
    /\ UNCHANGED <<files, bound, container, user, gdir, pair, named, made, loader>>

\* The certificate refers to a key by its name.
Associate ==
    /\ gpc = "associate"
    /\ bound' = bound \cup ({pair} \cap certs)
    /\ gpc' = "imported"
    /\ disturbed' = TRUE
    /\ UNCHANGED <<files, certs, container, user, gdir, pair, named, made, loader>>

\* ImportToStore returns nil, or fails before any of its steps.
ImportEnds ==
    /\ gpc \in Importing
    /\ gpc' = "idle"
    /\ named' = FALSE
    /\ UNCHANGED <<files, store, gdir, pair, made, loader, disturbed>>

-----------------------------------------------------------------------------
(* The administrator.                                                      *)

Configure ==
    /\ lpc = "idle"
    /\ cfg' \in Dirs \cup {NoDir}
    /\ storeName' \in StoreNames
    /\ UNCHANGED <<files, store, generator, search, disturbed>>

\* A certificate with its own key is added to either store, or one is deleted.
ImportOrDelete ==
    /\ \/ user' = ~user /\ UNCHANGED <<certs, bound>>
       \/ certs' = certs \cup {Own} /\ UNCHANGED <<bound, user>>
       \/ \E c \in certs : /\ certs' = certs \ {c} /\ bound' = bound \ {c}
                           /\ UNCHANGED user
    /\ disturbed' = TRUE
    /\ UNCHANGED <<files, container, generator, loader>>

-----------------------------------------------------------------------------
(* LoadCertificate.                                                        *)

Exists(d) == crt[d] # Missing /\ key[d] # Missing

Place == IF at = 0 THEN cfg ELSE SearchPaths[at]

Configured == cfg # NoDir /\ Exists(cfg)

\* Mutant: the store comes first.
LoadStoreFirst ==
    /\ lpc = "idle"
    /\ IF Configured /\ ~user
       THEN lpc' = "crt" /\ at' = 0
       ELSE lpc' = "machine" /\ at' = IF storeName = NoName THEN 1 ELSE 0
    /\ disturbed' = FALSE
    /\ UNCHANGED <<files, store, generator, config, readCrt, loaded, denied>>

\* Source 1 is looked at when both files exist, source 2 when it has a name,
\* and then source 3, platformSearch, which on Windows looks into the store as
\* well, for the same name or for the subject.
Load ==
    /\ lpc = "idle"
    /\ IF Configured
       THEN lpc' = "crt" /\ at' = 0
       ELSE lpc' = "machine" /\ at' = IF storeName = NoName THEN 1 ELSE 0
    /\ disturbed' = FALSE
    /\ UNCHANGED <<files, store, generator, config, readCrt, loaded, denied>>

\* A place gives nothing for this cause or, without it, because it could not be
\* read.
GivesNothing(place, cause) == denied' = IF cause THEN denied ELSE denied \cup {place}

\* Two files that do not load: those of cfg end the loading, a search goes on.
NextFiles ==
    /\ lpc' = IF at = 0 THEN "failed" ELSE "search"
    /\ at' = IF at = 0 THEN at ELSE at + 1

\* tls.LoadX509KeyPair reads one file ...
ReadCrt ==
    /\ lpc = "crt"
    /\ \/ /\ readCrt' = crt[Place]
          /\ lpc' = "key"
          /\ UNCHANGED <<at, denied>>
       \/ NextFiles /\ GivesNothing(at, FALSE) /\ UNCHANGED readCrt
    /\ UNCHANGED <<files, store, generator, config, loaded, disturbed>>

IsPair == readCrt = key[Place] /\ readCrt # Torn

\* Mutant: the pair is not checked.
ReadKeyUnmatched ==
    /\ lpc = "key"
    /\ loaded' = [pair |-> readCrt, key |-> key[Place], from |-> at]
    /\ lpc' = "loaded"
    /\ UNCHANGED <<files, store, generator, config, at, readCrt, denied, disturbed>>

\* Mutant: a pair that does not load ends the search.
ReadKeyStops ==
    /\ lpc = "key"
    /\ IF IsPair
       THEN lpc' = "loaded" /\ loaded' = [pair |-> readCrt, key |-> key[Place], from |-> at]
       ELSE lpc' = "failed" /\ UNCHANGED loaded
    /\ UNCHANGED <<files, store, generator, config, at, readCrt, denied, disturbed>>

\* ... and then the other, and both must be whole and of one pair.
ReadKey ==
    /\ lpc = "key"
    /\ \/ /\ IsPair
          /\ loaded' = [pair |-> readCrt, key |-> key[Place], from |-> at]
          /\ lpc' = "loaded"
          /\ UNCHANGED <<at, denied>>
       \/ NextFiles /\ GivesNothing(at, ~IsPair) /\ UNCHANGED loaded
    /\ UNCHANGED <<files, store, generator, config, readCrt, disturbed>>

\* loadFromStoreWithFlag, of LocalMachine\My: the first certificate of the
\* name, whichever that is, ...
Found == CASE storeName \in {NoName, Subject} -> certs
           [] OTHER                          -> certs \cap {storeName}

\* ... unless the store does not open or the certificate does not parse ...
FindCert ==
    /\ lpc = "machine"
    /\ \/ readCrt' \in Found /\ lpc' = "acquire" /\ UNCHANGED denied
       \/ lpc' = "user" /\ GivesNothing(Store, Found = {}) /\ UNCHANGED readCrt
    /\ UNCHANGED <<files, store, generator, config, at, loaded, disturbed>>

KeyOf(c) == CASE c = Own   -> Own
              [] c \in bound -> container
              [] OTHER     -> 0

\* ... and whatever key the container has by then, if the service may use it.
\* No other certificate is tried.
AcquireKey ==
    /\ lpc = "acquire"
    /\ \/ /\ KeyOf(readCrt) # 0
          /\ loaded' = [pair |-> readCrt, key |-> KeyOf(readCrt), from |-> Store]
          /\ lpc' = "loaded"
          /\ UNCHANGED denied
       \/ lpc' = "user" /\ GivesNothing(Store, KeyOf(readCrt) = 0) /\ UNCHANGED loaded
    /\ UNCHANGED <<files, store, generator, config, at, readCrt, disturbed>>

InUserStore == user /\ storeName \in {NoName, Own, Subject}

\* Mutant: what the store has given is not returned.
LoadFromUserGoesOn ==
    /\ lpc = "user"
    /\ loaded' = IF InUserStore THEN [pair |-> Own, key |-> Own, from |-> Store] ELSE loaded
    /\ at' = 1
    /\ lpc' = IF at = 0 THEN "machine" ELSE "search"
    /\ UNCHANGED <<files, store, generator, config, readCrt, denied, disturbed>>

\* CurrentUser\My; then the next source.
LoadFromUser ==
    /\ lpc = "user"
    /\ \/ /\ InUserStore
          /\ loaded' = [pair |-> Own, key |-> Own, from |-> Store]
          /\ lpc' = "loaded"
          /\ UNCHANGED <<at, denied>>
       \/ /\ at' = 1
          /\ lpc' = IF at = 0 THEN "machine" ELSE "search"
          /\ GivesNothing(UserStore, ~InUserStore)
          /\ UNCHANGED loaded
    /\ UNCHANGED <<files, store, generator, config, readCrt, disturbed>>

PlatformSearch ==
    /\ lpc = "search"
    /\ IF at > Len(SearchPaths) THEN lpc' = "failed" /\ UNCHANGED at
       ELSE IF Exists(Place)    THEN lpc' = "crt" /\ UNCHANGED at
                                ELSE at' = at + 1 /\ UNCHANGED lpc
    /\ UNCHANGED <<files, store, generator, config, readCrt, loaded, denied, disturbed>>

\* The caller has the result.
Done ==
    /\ lpc \in {"loaded", "failed"}
    /\ lpc' = "idle"
    /\ at' = 0 /\ readCrt' = 0 /\ loaded' = Nothing /\ denied' = {}
    /\ UNCHANGED <<files, store, generator, config, disturbed>>

-----------------------------------------------------------------------------
GenerateSelfSigned == \/ Generate \/ OpenCert \/ WriteCert \/ OpenKey \/ WriteKey
                      \/ GenerateFails

ImportToStore == \/ DeleteKey \/ ImportKey \/ FinalizeKey \/ AddCert \/ Associate
                 \/ ImportEnds

LoadCertificate == \/ Load \/ ReadCrt \/ ReadKey \/ FindCert \/ AcquireKey
                   \/ LoadFromUser \/ PlatformSearch \/ Done

Next == GenerateSelfSigned \/ ImportToStore \/ LoadCertificate \/ Configure \/ ImportOrDelete

Spec == Init /\ [][Next]_vars

-----------------------------------------------------------------------------
(* Properties.                                                             *)

\* Every variable keeps its type.
TypeOK ==
    /\ crt \in [Dirs -> 0 .. Torn]
    /\ key \in [Dirs -> 0 .. Torn]
    /\ complete \in [Dirs -> 0 .. MaxPair]
    /\ bound \subseteq certs /\ certs \subseteq made \cup {Own} /\ Own \notin bound
    /\ container \in 0 .. MaxPair
    /\ user \in BOOLEAN /\ named \in BOOLEAN /\ disturbed \in BOOLEAN
    /\ gpc \in {"idle"} \cup Writing \cup Importing
    /\ storeName \in StoreNames
    /\ gdir \in Dirs \cup {NoDir}
    /\ cfg \in Dirs \cup {NoDir}
    /\ gdir = NoDir <=> gpc \notin Writing
    /\ pair \in 0 .. MaxPair
    /\ lpc \in {"idle", "crt", "key", "machine", "acquire", "user", "search", "loaded",
               "failed"}
    /\ at \in 0 .. Store
    /\ readCrt \in 0 .. Own
    /\ loaded \in [pair : 0 .. Own, key : 0 .. Own, from : 0 .. Store]
    /\ denied \subseteq 0 .. UserStore
    /\ made \subseteq 1 .. MaxPair
    /\ lpc = "loaded" \/ loaded = Nothing

\* What is loaded was generated to its end, or is the administrator's with its
\* own key.  From files it is a pair, although its two files are written and
\* read one after the other by two processes that know nothing of each other.
\* From the store certificate and key may be of two pairs: they are looked up
\* one after the other while they are replaced.
LoadedWasMade ==
    loaded # Nothing =>
        \/ loaded.pair = Own /\ loaded.key = Own /\ loaded.from = Store
        \/ /\ {loaded.pair, loaded.key} \subseteq made
           /\ loaded.from # Store => loaded.key = loaded.pair

\* A pair that was generated to its end, in the directory whose files are
\* configured, is the one that is loaded, before any other source and whatever
\* was left there by generations that had failed, unless something changes
\* meanwhile or one of the two files cannot be read, as a key of mode 0600 that
\* another user has generated.
GeneratedIsLoaded ==
    lpc \in {"loaded", "failed"} /\ ~disturbed /\ 0 \notin denied
        /\ cfg # NoDir /\ complete[cfg] # 0 =>
            loaded = [pair |-> complete[cfg], key |-> complete[cfg], from |-> 0]

\* LocalMachine\My has nothing to give, or a certificate that may be found
\* first and has no key.
NoMachine == Found = {} \/ \E c \in Found : KeyOf(c) = 0

\* What loading fails for.  Either both configured files exist and are no whole
\* pair or cannot be read, and then no other source is tried; or every source
\* has nothing or could not be read: a broken or unreadable pair in a search
\* path does not hide the next, nor does LocalMachine hide CurrentUser.  Only
\* inside LocalMachine a certificate without a key may hide another.
FailsOnlyWithoutPair ==
    lpc = "failed" /\ ~disturbed =>
        \/ Configured /\ (complete[cfg] = 0 \/ 0 \in denied)
        \/ /\ \A i \in DOMAIN SearchPaths : complete[SearchPaths[i]] = 0 \/ i \in denied
           /\ ~InUserStore \/ UserStore \in denied
           /\ NoMachine \/ Store \in denied

\* When ImportToStore returns nil, the container of the name Limiz has the key
\* of the certificate that it has put into the store, as its comment promises.
ImportedKeyIsNamed == gpc = "imported" => container = pair
=============================================================================
