------------------------------ MODULE Profiles ------------------------------
(***************************************************************************)
(* The profile registry and its use: Registry.Load, run by POST            *)
(* /v1/profiles/reload and at startup, versions the profiles of a          *)
(* directory in the store and swaps them into the replica's memory, from   *)
(* where POST /v1/certificates takes what it issues or previews            *)
(* (internal/profiles/registry.go, internal/api/profiles.go and            *)
(* certificates.go, internal/store/sqlite/profiles.go).  The built-in      *)
(* profiles never change and are left out.                                 *)
(***************************************************************************)
EXTENDS Naturals, FiniteSets

CONSTANTS
  Workers,     \* requests in flight, and starting processes
  Replicas,    \* processes over the same store
  Home,        \* the replica that serves each request
  Names,       \* names of configured profiles
  Contents,    \* what a profile file may say, its name apart
  None,        \* no value
  MaxEdits,    \* bound: edits of the directory
  MaxVersion,  \* bound: versions of one profile
  MaxFaults    \* bound: failed store calls and crashes per behaviour

ASSUME ProfilesAssumption ==
  /\ IsFiniteSet(Workers) /\ Home \in [Workers -> Replicas]
  /\ None \notin Contents \cup Names
  /\ MaxEdits \in Nat
  /\ MaxVersion \in Nat
  /\ MaxFaults \in Nat

VARIABLES
  dir,      \* the directory: the content of each profile's file, if any
  edits,    \* how often the directory was edited
  refused,  \* it also holds a file that Load refuses
  rows,     \* table profiles: the content stored for each name and version
  mem,      \* per replica: the registry's map
  read,     \* history, per replica: the directory its map was loaded from
  up,       \* the replicas that serve
  pc,       \* where each request stands
  load,     \* its local variables, in Load or in handleIssueCertificate
  issued,   \* table certificates: the profile and the content issued from it
  audit,    \* table audit_log, as the set of actions it holds
  overlap,  \* history: a reload began while another was storing versions
  faults    \* how many faults happened

files == <<dir, edits, refused>>
memory == <<mem, read, up>>
vars == <<files, rows, memory, pc, load, issued, audit, overlap, faults>>

Version == 1..MaxVersion

Directory == [Names -> Contents \cup {None}]

Loaded == [version: 0..MaxVersion, content: Contents \cup {None}]

Absent == [version |-> 0, content |-> None]

EmptyDirectory == [n \in Names |-> None]

(* snap: the directory as read; todo: the files still to be read, then the *)
(* names still to be versioned; at, version: the name at hand and its      *)
(* version; out: the map being built or, for a certificate, the profile.   *)
NoLoad == [snap |-> EmptyDirectory, todo |-> {}, at |-> None, version |-> 0,
           out |-> [n \in Names |-> Absent]]

Init ==
  /\ dir \in Directory
  /\ edits = 0
  /\ refused = FALSE
  /\ rows = [n \in Names |-> [v \in Version |-> None]]
  /\ mem = [x \in Replicas |-> [n \in Names |-> Absent]]
  /\ read = [x \in Replicas |-> EmptyDirectory]
  /\ up = {}
  /\ pc = [w \in Workers |-> "idle"]
  /\ load = [w \in Workers |-> NoLoad]
  /\ issued = {}
  /\ audit = {}
  /\ overlap = FALSE
  /\ faults = 0

-----------------------------------------------------------------------------
Goto(w, p) == pc' = [pc EXCEPT ![w] = p]

End(w) ==
  /\ Goto(w, "idle")
  /\ load' = [load EXCEPT ![w] = NoLoad]

(* The newest version of a profile that is stored, 0 if there is none. *)
Latest(n) ==
  IF \A v \in Version : rows[n][v] = None THEN 0
  ELSE CHOOSE v \in Version : /\ rows[n][v] # None
                              /\ \A u \in Version : rows[n][u] # None => u <= v

(* json.Marshal of a profile: its version is part of what is encoded. *)
Encode(version, content) == <<version, content>>

(* The operator edits the directory. *)
Edit(n, c) ==
  /\ dir[n] # c
  /\ edits < MaxEdits
  /\ edits' = edits + 1
  /\ dir' = [dir EXCEPT ![n] = c]
  /\ UNCHANGED <<refused, rows, memory, pc, load, issued, audit, overlap, faults>>

(* A file that does not parse, has the name of a built-in or doubles a name. *)
EditRefused ==
  /\ edits < MaxEdits
  /\ edits' = edits + 1
  /\ refused' = ~refused
  /\ UNCHANGED <<dir, rows, memory, pc, load, issued, audit, overlap, faults>>

(* Bound: every load in flight may add a version to every profile. *)
VersionRoom == \A n \in Names : Latest(n) + Cardinality(Workers) <= MaxVersion

(* A process that starts takes no requests yet: its only load is its own. *)
Accepts(w) ==
  \/ Home[w] \in up
  \/ \A v \in Workers : Home[v] = Home[w] => pc[v] = "idle"

(* Load lists the directory ... *)
Glob(w) ==
  /\ pc[w] = "idle"
  /\ Accepts(w)
  /\ VersionRoom
  /\ Goto(w, "read")
  /\ load' = [load EXCEPT ![w] = [NoLoad EXCEPT !.todo = {n \in Names : dir[n] # None}]]
  /\ UNCHANGED <<files, rows, memory, issued, audit, overlap, faults>>

(* ... reads and validates every file before it stores anything, ending at *)
(* one that is gone by then ...                                            *)
ReadFile(w) ==
  /\ pc[w] = "read"
  /\ \E n \in load[w].todo :
       IF dir[n] = None THEN End(w)
       ELSE /\ load' = [load EXCEPT ![w].todo = @ \ {n}, ![w].snap[n] = dir[n]]
            /\ UNCHANGED pc
  /\ UNCHANGED <<files, rows, memory, issued, audit, overlap, faults>>

(* ... or that it refuses. *)
Validated(w) ==
  /\ pc[w] = "read"
  /\ load[w].todo = {}
  /\ IF refused THEN End(w) /\ UNCHANGED overlap
     ELSE /\ Goto(w, "next")
          /\ load' = [load EXCEPT ![w].todo = {n \in Names : load[w].snap[n] # None}]
          /\ overlap' = (overlap \/ \E v \in Workers : pc[v] \in {"next", "upsert"})
  /\ UNCHANGED <<files, rows, memory, issued, audit, faults>>

(* The row upsertVersioned writes, over what that version holds. *)
Store(w) ==
  [rows EXCEPT ![load[w].at][load[w].version] = load[w].snap[load[w].at]]

(* The row of a certificate: it names its profile and, by what it          *)
(* certifies, the content of that profile.                                 *)
Row(w) == <<load[w].at, load[w].out[load[w].at].content>>

(* A store call that reports an error ends the request, or the process     *)
(* that starts; a write may have taken effect all the same.                *)
Fail(w, ghost) ==
  /\ pc[w] \in {"next", "upsert", "audit", "create"}
  /\ pc[w] = "next" => ~ghost /\ load[w].todo # {}
  /\ faults < MaxFaults
  /\ faults' = faults + 1
  /\ rows' = IF ghost /\ pc[w] = "upsert" THEN Store(w) ELSE rows
  /\ audit' = IF ghost /\ pc[w] = "audit" THEN audit \cup {"profiles-reload"} ELSE audit
  /\ issued' = IF ghost /\ pc[w] = "create" THEN issued \cup {Row(w)} ELSE issued
  /\ End(w)
  /\ UNCHANGED <<files, memory, overlap>>

(* The version upsertVersioned picks for content c of profile n: the last  *)
(* one when its stored bytes equal the encoding of the profile as the file *)
(* gave it, which toProfile always makes version 1.                        *)
NextVersionAlwaysFirst(n, c) == 1

NextVersionSkips(n, c) == Latest(n) + 2

NextVersion(n, c) ==
  IF Latest(n) = 0 THEN 1
  ELSE IF Encode(Latest(n), rows[n][Latest(n)]) = Encode(1, c) THEN Latest(n)
  ELSE Latest(n) + 1

(* upsertVersioned reads the last version (the map is walked in any order) ... *)
GetPrevious(w) ==
  /\ pc[w] = "next"
  /\ \E n \in load[w].todo :
       load' = [load EXCEPT ![w].at = n,
                            ![w].version = NextVersion(n, load[w].snap[n])]
  /\ Goto(w, "upsert")
  /\ UNCHANGED <<files, rows, memory, issued, audit, overlap, faults>>

(* ... and stores the one it picked. *)
UpsertIntoMemory(w) ==
  /\ pc[w] = "upsert"
  /\ LET n == load[w].at
         p == [version |-> load[w].version, content |-> load[w].snap[n]]
     IN /\ rows' = Store(w)
        /\ mem' = [mem EXCEPT ![Home[w]][n] = p]
        /\ load' = [load EXCEPT ![w].todo = @ \ {n}, ![w].out[n] = p,
                                ![w].at = None, ![w].version = 0]
  /\ Goto(w, "next")
  /\ UNCHANGED <<files, read, up, issued, audit, overlap, faults>>

Upsert(w) ==
  /\ pc[w] = "upsert"
  /\ LET n == load[w].at
         p == [version |-> load[w].version, content |-> load[w].snap[n]]
     IN /\ rows' = Store(w)
        /\ load' = [load EXCEPT ![w].todo = @ \ {n}, ![w].out[n] = p,
                                ![w].at = None, ![w].version = 0]
  /\ Goto(w, "next")
  /\ UNCHANGED <<files, memory, issued, audit, overlap, faults>>

(* The swap, under the registry's lock.  A process that started serves     *)
(* from then on.                                                           *)
Swap(w) ==
  /\ pc[w] = "next"
  /\ load[w].todo = {}
  /\ mem' = [mem EXCEPT ![Home[w]] = load[w].out]
  /\ read' = [read EXCEPT ![Home[w]] = load[w].snap]
  /\ up' = up \cup {Home[w]}
  /\ IF Home[w] \in up
     THEN Goto(w, "audit") /\ UNCHANGED load
     ELSE End(w)
  /\ UNCHANGED <<files, rows, issued, audit, overlap, faults>>

(* handleReloadProfiles' audit entry and answer. *)
Audit(w) ==
  /\ pc[w] = "audit"
  /\ audit' = audit \cup {"profiles-reload"}
  /\ End(w)
  /\ UNCHANGED <<files, rows, memory, issued, overlap, faults>>

(* The process ends, with its requests and its registry. *)
Crash(x) ==
  /\ x \in up
  /\ faults < MaxFaults
  /\ faults' = faults + 1
  /\ up' = up \ {x}
  /\ mem' = [mem EXCEPT ![x] = [n \in Names |-> Absent]]
  /\ read' = [read EXCEPT ![x] = EmptyDirectory]
  /\ pc' = [w \in Workers |-> IF Home[w] = x THEN "idle" ELSE pc[w]]
  /\ load' = [w \in Workers |-> IF Home[w] = x THEN NoLoad ELSE load[w]]
  /\ UNCHANGED <<files, rows, issued, audit, overlap>>

-----------------------------------------------------------------------------
(* handleIssueCertificate copies the profile out of the registry once.  A  *)
(* profile that is not there is refused, and a dry run answers with what   *)
(* it found; neither leaves a trace.                                       *)
Lookup(w, n) ==
  /\ pc[w] = "idle"
  /\ Home[w] \in up
  /\ mem[Home[w]][n] # Absent
  /\ load' = [load EXCEPT ![w].at = n, ![w].out[n] = mem[Home[w]][n]]
  /\ Goto(w, "create")
  /\ UNCHANGED <<files, rows, memory, issued, audit, overlap, faults>>

(* The certificate is signed and stored, then audited.  By now the         *)
(* registry may be another.                                                *)
CreateCertificate(w) ==
  /\ pc[w] = "create"
  /\ issued' = issued \cup {Row(w)}
  /\ End(w)
  /\ UNCHANGED <<files, rows, memory, audit, overlap, faults>>

Next ==
  \/ \E n \in Names, c \in Contents \cup {None} : Edit(n, c)
  \/ EditRefused
  \/ \E w \in Workers :
       \/ Glob(w)
       \/ ReadFile(w)
       \/ Validated(w)
       \/ \E ghost \in BOOLEAN : Fail(w, ghost)
       \/ GetPrevious(w)
       \/ Upsert(w)
       \/ Swap(w)
       \/ Audit(w)
       \/ \E n \in Names : Lookup(w, n)
       \/ CreateCertificate(w)
  \/ \E x \in Replicas : Crash(x)

Spec == Init /\ [][Next]_vars

-----------------------------------------------------------------------------
TypeOK ==
  /\ dir \in Directory
  /\ edits \in 0..MaxEdits
  /\ refused \in BOOLEAN
  /\ rows \in [Names -> [Version -> Contents \cup {None}]]
  /\ mem \in [Replicas -> [Names -> Loaded]]
  /\ read \in [Replicas -> Directory]
  /\ up \subseteq Replicas
  /\ pc \in [Workers -> {"idle", "read", "next", "upsert", "audit", "create"}]
  /\ load \in [Workers -> [snap: Directory, todo: SUBSET Names,
                           at: Names \cup {None}, version: 0..MaxVersion,
                           out: [Names -> Loaded]]]
  /\ issued \subseteq Names \X Contents
  /\ audit \subseteq {"profiles-reload"}
  /\ overlap \in BOOLEAN
  /\ faults \in 0..MaxFaults

(* A replica's registry is always one whole directory as some Load read    *)
(* it, never a mixture: not while a load stores its versions one by one,   *)
(* nor after one that failed half way, nor when a profile's file is gone.  *)
OneSnapshot ==
  \A x \in Replicas, n \in Names : mem[x][n].content = read[x][n]

(* The stored versions of a profile are 1, 2, ... without a gap, and every *)
(* version a registry hands out is stored, also when reloads of several    *)
(* replicas pick versions at the same time.                                *)
VersionsStored ==
  /\ \A n \in Names : \A v \in 1..Latest(n) : rows[n][v] # None
  /\ \A x \in Replicas, n \in Names :
       mem[x][n] # Absent => rows[n][mem[x][n].version] # None

(* As long as no two reloads overlapped, a registry's profile is exactly   *)
(* what the store holds under its version ("Version set to whatever was    *)
(* actually stored"), on every replica and after reloads that failed.  Two *)
(* that overlap may pick one version and the second overwrites the first.  *)
MemoryExact ==
  ~overlap =>
    \A x \in Replicas, n \in Names :
      mem[x][n] # Absent => rows[n][mem[x][n].version] = mem[x][n].content

(* "Snapshot for audit/versioning": what a certificate was issued from can *)
(* be found.  Its content is stored as a version of the profile it names,  *)
(* whatever was reloaded between the look-up and the signature and         *)
(* whatever failed, as long as no two loads overlapped.                    *)
IssuedTraceable ==
  ~overlap => \A c \in issued : \E v \in Version : rows[c[1]][v] = c[2]

-----------------------------------------------------------------------------
(* What the comment on upsertVersioned says: "reloading an unchanged file  *)
(* doesn't spin the version number".  A version is only added when its     *)
(* content differs from the version before it.                             *)
NoVersionSpin ==
  \A n \in Names, v \in Version :
    v > 1 /\ rows[n][v] # None => rows[n][v] # rows[n][v - 1]
=============================================================================
