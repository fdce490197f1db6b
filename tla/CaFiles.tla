-------------------------------- MODULE CaFiles --------------------------------
(* LoadOrCreateCA (internal/proxy/ca.go), run by every start of every replica    *)
(* that shares the two files: two stats, then either a load of both files or a   *)
(* new CA written over both. os.WriteFile truncates before it writes. Processes  *)
(* crash and are restarted anywhere in between, and writes fail.                 *)
EXTENDS Naturals, FiniteSets

CONSTANTS Replica,
          Id,       \* the identities of CAs; one is spent on every creation
          Provided, \* the member of Id that an operator's own pair has
          Absent, Empty, \* a file that does not exist, and one that was truncated
          None

ASSUME ProvidedIsAnId == Provided \in Id
ASSUME MarksAreNoIds == Id \cap {Absent, Empty, None} = {}
ASSUME MarksDiffer == Absent # Empty /\ Absent # None /\ Empty # None

VARIABLES cert, key, \* the files: Absent, Empty or the identity whose half they hold
          exposed,   \* whether the key file is world-readable
          pc,
          sawCert,   \* whether a start's first os.Stat found the file
          made,      \* the identity a start has read from cert, or generated
          ca,        \* the identity a serving process has
          spent,     \* history: the identities made so far
          trusted,   \* history: the first identity served, which clients were told to trust
          harmed     \* history: a creation was cut short, or the files are not what was left

files == <<cert, key, exposed>>
vars == <<files, pc, sawCert, made, ca, spent, trusted, harmed>>

Contents == Id \cup {Absent, Empty}

(* Nothing there, a pair an operator mounted, readable by all or not, or half of *)
(* one.                                                                          *)
Init ==
    /\ \/ cert = Absent /\ key = Absent /\ exposed = FALSE /\ harmed = FALSE
       \/ cert = Provided /\ key = Provided /\ exposed \in BOOLEAN /\ harmed = exposed
       \/ /\ cert \in {Provided, Absent} /\ key \in {Provided, Absent} \ {cert}
          /\ exposed = FALSE /\ harmed = TRUE
    /\ pc = [r \in Replica |-> "down"]
    /\ sawCert = [r \in Replica |-> FALSE]
    /\ made = [r \in Replica |-> None]
    /\ ca = [r \in Replica |-> None]
    /\ spent = {Provided} /\ trusted = None

Step(r, from, to) == pc[r] = from /\ pc' = [pc EXCEPT ![r] = to]

Start(r) ==
    /\ Step(r, "down", "stat cert")
    /\ UNCHANGED <<files, sawCert, made, ca, spent, trusted, harmed>>

StatCert(r) ==
    /\ Step(r, "stat cert", "stat key")
    /\ sawCert' = [sawCert EXCEPT ![r] = cert # Absent]
    /\ UNCHANGED <<files, made, ca, spent, trusted, harmed>>

FaultFresh(hasCert, hasKey) == ~(hasCert /\ hasKey)

Fresh(hasCert, hasKey) == ~hasCert /\ ~hasKey

Usable(hasCert, hasKey) == hasCert /\ hasKey /\ ~exposed

StatKey(r) ==
    /\ LET hasKey == key # Absent
       IN  \/ Fresh(sawCert[r], hasKey) /\ Step(r, "stat key", "create")
           \/ ~Fresh(sawCert[r], hasKey) /\ Usable(sawCert[r], hasKey) /\ Step(r, "stat key", "read cert")
           \/ ~Fresh(sawCert[r], hasKey) /\ ~Usable(sawCert[r], hasKey) /\ Step(r, "stat key", "failed")
    /\ UNCHANGED <<files, sawCert, made, ca, spent, trusted, harmed>>

Create(r) ==
    /\ Step(r, "create", "open cert")
    /\ \E id \in Id \ spent :
         /\ made' = [made EXCEPT ![r] = id]
         /\ spent' = spent \cup {id}
    /\ UNCHANGED <<files, sawCert, ca, trusted, harmed>>

(* os.WriteFile of the certificate, then of the key: open with O_TRUNC, write.   *)
OpenCert(r) ==
    /\ Step(r, "open cert", "fill cert") /\ cert' = Empty
    /\ UNCHANGED <<key, exposed, sawCert, made, ca, spent, trusted, harmed>>

FillCert(r) ==
    /\ Step(r, "fill cert", "open key") /\ cert' = made[r]
    /\ UNCHANGED <<key, exposed, sawCert, made, ca, spent, trusted, harmed>>

FaultModeOf == IF key = Absent THEN TRUE ELSE exposed

\* 0600 for a file that did not exist; the mode of one that did stays.
ModeOf == IF key = Absent THEN FALSE ELSE exposed

OpenKey(r) ==
    /\ Step(r, "open key", "fill key") /\ key' = Empty /\ exposed' = ModeOf
    /\ UNCHANGED <<cert, sawCert, made, ca, spent, trusted, harmed>>

Serve(r, id) ==
    /\ ca' = [ca EXCEPT ![r] = id]
    /\ trusted' = IF trusted = None THEN id ELSE trusted

FillKey(r) ==
    /\ Step(r, "fill key", "serving") /\ key' = made[r]
    /\ Serve(r, made[r])
    /\ made' = [made EXCEPT ![r] = None]
    /\ UNCHANGED <<cert, exposed, sawCert, spent, harmed>>

Writing == {"open cert", "fill cert", "open key", "fill key"}

WriteFails(r) ==
    /\ pc[r] \in Writing
    /\ pc' = [pc EXCEPT ![r] = "failed"] /\ harmed' = TRUE
    /\ made' = [made EXCEPT ![r] = None]
    /\ UNCHANGED <<files, sawCert, ca, spent, trusted>>

(* tls.LoadX509KeyPair reads one file and then the other.                        *)
ReadCert(r) ==
    /\ IF cert = Absent THEN Step(r, "read cert", "failed") ELSE Step(r, "read cert", "read key")
    /\ made' = [made EXCEPT ![r] = IF cert = Absent THEN None ELSE cert]
    /\ UNCHANGED <<files, sawCert, ca, spent, trusted, harmed>>

IsPair(c, k) == c \in Id /\ c = k

ReadKey(r) ==
    /\ made' = [made EXCEPT ![r] = None]
    /\ \/ IsPair(made[r], key) /\ Step(r, "read key", "serving") /\ Serve(r, key)
       \/ ~IsPair(made[r], key) /\ Step(r, "read key", "failed") /\ UNCHANGED <<ca, trusted>>
    /\ UNCHANGED <<files, sawCert, spent, harmed>>

(* A process dies at any moment; one whose start failed exits.                   *)
Crash(r) ==
    /\ pc[r] # "down" /\ pc' = [pc EXCEPT ![r] = "down"]
    /\ harmed' = (harmed \/ pc[r] \in Writing)
    /\ made' = [made EXCEPT ![r] = None]
    /\ ca' = [ca EXCEPT ![r] = None]
    /\ sawCert' = [sawCert EXCEPT ![r] = FALSE]
    /\ UNCHANGED <<files, spent, trusted>>

(* The volume loses one of the files, or the operator repairs the key's mode.    *)
LoseFile ==
    /\ cert # Absent /\ key # Absent
    /\ \/ cert' = Absent /\ UNCHANGED <<key, exposed>>
       \/ key' = Absent /\ exposed' = FALSE /\ UNCHANGED cert
    /\ harmed' = TRUE
    /\ UNCHANGED <<pc, sawCert, made, ca, spent, trusted>>

Chmod ==
    /\ exposed /\ exposed' = FALSE
    /\ UNCHANGED <<cert, key, pc, sawCert, made, ca, spent, trusted, harmed>>

ProcessStep(r) ==
    \/ Start(r) \/ StatCert(r) \/ StatKey(r)
    \/ Create(r) \/ OpenCert(r) \/ FillCert(r) \/ OpenKey(r) \/ FillKey(r) \/ WriteFails(r)
    \/ ReadCert(r) \/ ReadKey(r) \/ Crash(r)

Next == (\E r \in Replica : ProcessStep(r)) \/ LoseFile \/ Chmod

Spec == Init /\ [][Next]_vars

--------------------------------------------------------------------------------
(* The fields have their types; what serves is a whole identity.                 *)
TypeOK ==
    /\ {cert, key} \subseteq Contents /\ {exposed, harmed} \subseteq BOOLEAN
    /\ key = Absent => ~exposed
    /\ spent \subseteq Id /\ trusted \in spent \cup {None}
    /\ \A r \in Replica :
         /\ pc[r] \in Writing \cup {"down", "stat cert", "stat key", "create", "read cert", "read key", "serving", "failed"}
         /\ made[r] \in Id \cup {Empty, None}
         /\ ca[r] \in Id \cup {None} /\ (ca[r] # None) = (pc[r] = "serving")

(* One CA: whatever serves, after any crashes, restarts, failed writes and the   *)
(* loss of one of the files, serves the identity that clients were first told to *)
(* trust. A start that cannot refuses instead.                                   *)
OneCA == \A r \in Replica : pc[r] = "serving" => ca[r] = trusted

(* The files TIP wrote are accepted by every later start, unless a creation was  *)
(* cut short, or someone touched them.                                           *)
OwnFilesAccepted == ~harmed => \A r \in Replica : pc[r] # "failed"
================================================================================
