------------------------------- MODULE StoreFetch -------------------------------
(***************************************************************************)
(* How a plugin's code reaches the staging folder (smabar/src/store_http.rs, *)
(* smabar-core's store/fetch.rs, archive.rs, treeoid.rs, the staging half  *)
(* of install.rs, and local.rs for a ZIP file that the user picks).        *)
(*                                                                         *)
(* An archive is streamed into a .part file, renamed, opened, and its      *)
(* entries under the listed folder are checked, written and hashed one by  *)
(* one; the hash is compared with the listed one.  Servers redirect, cut   *)
(* the stream or serve something else; steps fail, what is to be cleaned   *)
(* up stays, and the app crashes and starts again.                         *)
(***************************************************************************)
EXTENDS Integers, Sequences, FiniteSets, SequencesExt

CONSTANTS Archives,      \* what may be served or picked: sequences of entries
          Listed,        \* the listed tree: a set of [at, body, exec]
          RepoRoot,      \* <repo>-<commit>
          PluginPath,    \* the listed folder, as a path in the repository
          Lower,         \* case folding of names
          FoldsCase,     \* the disk ignores case
          UnsafeName,    \* names that is_safe_relative refuses
          ContentHost,   \* DOWNLOAD_HOSTS
          OtherHost,     \* other hosts
          RedirectLimit, MaxBytes,
          MaxFiles, MaxDirectories, MaxDepth, MaxFileBytes, MaxTotalBytes,
          FetchBudgets   \* bounds: how often what may happen

FetchEvents == {"start", "redirect", "fail", "clean", "crash"}
ASSUME FetchAssumption ==
    /\ FetchBudgets \subseteq [FetchEvents -> Nat] /\ FoldsCase \in BOOLEAN
    /\ {RedirectLimit, MaxBytes, MaxFiles, MaxDirectories, MaxDepth, MaxFileBytes, MaxTotalBytes}
           \subseteq Nat
    /\ RepoRoot \in DOMAIN Lower /\ PluginPath \in Seq(DOMAIN Lower)
    /\ \A archive \in Archives :
        /\ archive = [i \in 1..Len(archive) |-> archive[i]] /\ Len(archive) \in Nat
        /\ \A i \in 1..Len(archive) :
            archive[i].path \in Seq(DOMAIN Lower) /\ archive[i].size \in Nat

VARIABLES
    fetch,        \* the install under way: its step, source, archive and place
    staging,      \* the staging folder: the .part and .zip files and the unpacked folder
    unpacked,     \* the extraction: what was seen, hashed and counted
    mishap,       \* history: a step of this install failed
    fetchLeft     \* bounds: the events that may still happen

fetchVars == <<fetch, staging, unpacked, mishap, fetchLeft>>

--------------------------------------------------------------------------------
SpendFetch(event) == fetchLeft[event] > 0 /\ fetchLeft' = [fetchLeft EXCEPT ![event] = @ - 1]

NoBytes == [of |-> <<>>, received |-> -1]
NoFetch == [step |-> "idle", from |-> "store", archive |-> <<>>, host |-> "none", hops |-> 0,
            told |-> FALSE, next |-> 1]
NothingUnpacked == [seen |-> {}, directories |-> {}, files |-> 0, total |-> 0, tree |-> {}]
Size(archive) == Len(archive)   \* one unit for each entry
Whole(bytes) == bytes.received = Size(bytes.of) /\ bytes.received >= 0

FetchInit ==
    /\ fetch = NoFetch /\ staging = [part |-> NoBytes, zip |-> NoBytes, folder |-> {}]
    /\ unpacked = NothingUnpacked /\ mishap = FALSE /\ fetchLeft \in FetchBudgets

FetchAt(step) == fetch.step = step
\* The install ends; what lies in the staging folder is removed, if it can be.
CleanUp(dropped) ==
    \/ staging' = dropped /\ UNCHANGED fetchLeft
    \/ staging # dropped /\ SpendFetch("clean") /\ UNCHANGED staging
FetchEnds(dropped) ==
    /\ fetch' = [fetch EXCEPT !.step = "refused"] /\ unpacked' = NothingUnpacked /\ CleanUp(dropped)
Fails == SpendFetch("fail") /\ mishap' = TRUE

--------------------------------------------------------------------------------
(* ReqwestFetcher::download *)

\* clean_staging removes what an earlier attempt left, but for its .part file.
StartFetch ==
    /\ SpendFetch("start") /\ fetch.step \in {"idle", "staged", "refused"}
    /\ staging' = [staging EXCEPT !.zip = NoBytes, !.folder = {}]
    /\ unpacked' = NothingUnpacked /\ mishap' = FALSE
    /\ \E archive \in Archives :
        \/ \E host \in ContentHost \cup OtherHost :
            fetch' = [NoFetch EXCEPT !.step = "ask", !.archive = archive, !.host = host]
        \* prepare: a file of the user's, read whole.
        \/ /\ Size(archive) <= MaxBytes
           /\ fetch' = [NoFetch EXCEPT !.step = "layout", !.from = "local", !.archive = archive]
\* client_for, and the redirects that a download follows.
AskHost ==
    /\ FetchAt("ask")
    /\ IF fetch.host \notin ContentHost \/ fetch.hops >= RedirectLimit
       THEN FetchEnds(staging) /\ UNCHANGED mishap
       ELSE \/ /\ SpendFetch("redirect") /\ UNCHANGED <<staging, unpacked, mishap>>
               /\ \E host \in ContentHost \cup OtherHost :
                   fetch' = [fetch EXCEPT !.host = host, !.hops = @ + 1]
            \/ /\ fetch' = [fetch EXCEPT !.step = "answer"]
               /\ UNCHANGED <<staging, unpacked, mishap, fetchLeft>>
            \/ Fails /\ fetch' = [fetch EXCEPT !.step = "refused"] /\ UNCHANGED <<staging, unpacked>>
\* The answer tells its length or does not; what is too long is not even begun.
Answer ==
    /\ FetchAt("answer") /\ UNCHANGED <<unpacked, mishap, fetchLeft>>
    /\ \E told \in BOOLEAN :
        IF told /\ Size(fetch.archive) > MaxBytes
        THEN fetch' = [fetch EXCEPT !.step = "refused"] /\ UNCHANGED staging
        ELSE /\ fetch' = [fetch EXCEPT !.step = "stream", !.told = told]
             /\ staging' = [staging EXCEPT !.part = [of |-> fetch.archive, received |-> 0]]
WithoutPart == [staging EXCEPT !.part = NoBytes]
Chunk ==
    /\ FetchAt("stream") /\ staging.part.received < Size(fetch.archive)
    /\ IF staging.part.received + 1 > MaxBytes
       THEN FetchEnds(WithoutPart) /\ UNCHANGED mishap
       ELSE /\ staging' = [staging EXCEPT !.part.received = @ + 1]
            /\ UNCHANGED <<fetch, unpacked, mishap, fetchLeft>>
\* The stream breaks off: an error, unless no length was told.
BreaksOff ==
    /\ FetchAt("stream") /\ staging.part.received < Size(fetch.archive) /\ Fails
    /\ UNCHANGED unpacked
    /\ IF fetch.told
       THEN fetch' = [fetch EXCEPT !.step = "refused"] /\ staging' = WithoutPart
       ELSE fetch' = [fetch EXCEPT !.step = "rename"] /\ UNCHANGED staging
StreamEnds ==
    /\ FetchAt("stream") /\ staging.part.received = Size(fetch.archive)
    /\ fetch' = [fetch EXCEPT !.step = "rename"] /\ UNCHANGED <<staging, unpacked, mishap, fetchLeft>>
\* A rename that fails leaves the .part file.
RenamePart ==
    /\ FetchAt("rename")
    /\ \/ /\ staging' = [staging EXCEPT !.zip = staging.part, !.part = NoBytes]
          /\ fetch' = [fetch EXCEPT !.step = "open"] /\ UNCHANGED <<unpacked, mishap, fetchLeft>>
       \/ Fails /\ fetch' = [fetch EXCEPT !.step = "refused"] /\ UNCHANGED <<staging, unpacked>>

--------------------------------------------------------------------------------
(* extract_plugin, extract_local_plugin and extract_archive *)

Cleaned == [staging EXCEPT !.zip = NoBytes, !.folder = {}]
\* A file that is cut short has no directory of its entries.
OpenZip ==
    /\ FetchAt("open")
    /\ IF Whole(staging.zip)
       THEN fetch' = [fetch EXCEPT !.step = "entries"] /\ UNCHANGED <<staging, unpacked, mishap, fetchLeft>>
       ELSE FetchEnds(Cleaned) /\ UNCHANGED mishap

\* A local ZIP holds one manifest, at its root or inside one folder.
Manifests(archive) ==
    {i \in DOMAIN archive : archive[i].path # <<>> /\ Last(archive[i].path) = "smabar.json"}
FirstManifest(archive) == CHOOSE i \in Manifests(archive) : TRUE
Prefix ==
    IF fetch.from = "store" THEN <<RepoRoot>> \o PluginPath
    ELSE Front(fetch.archive[FirstManifest(fetch.archive)].path)
LocalLayout ==
    /\ FetchAt("layout")
    /\ IF /\ Len(fetch.archive) <= MaxFiles + MaxDirectories
          /\ Cardinality(Manifests(fetch.archive)) = 1
          /\ \A i \in Manifests(fetch.archive) : Len(fetch.archive[i].path) <= 2
       THEN fetch' = [fetch EXCEPT !.step = "entries"] /\ UNCHANGED <<staging, unpacked, mishap, fetchLeft>>
       ELSE FetchEnds(Cleaned) /\ UNCHANGED mishap

FoldPath(path) == [i \in DOMAIN path |-> Lower[path[i]]]
Parents(path) == {SubSeq(path, 1, n) : n \in 1..(Len(path) - 1)}
\* is_safe_relative
SafePath(path) == path # <<>> /\ ToSet(path) \cap UnsafeName = {}
InRoot(entry) == fetch.from = "store" => Head(entry.path) = RepoRoot
Wanted(entry) == entry.kind = "file" /\ IsStrictPrefix(Prefix, entry.path)
Relative(entry) == SubSeq(entry.path, Len(Prefix) + 1, Len(entry.path))
FileOf(entry) == [at |-> Relative(entry), body |-> entry.body, exec |-> entry.exec]
Refused(entry) == ~InRoot(entry) \/ ~SafePath(entry.path) \/ entry.kind = "link"
\* Names that differ in case alone are the same file; directories may still.
\* MUTANT: case is not folded.
Collides_Cased(path) == path \in unpacked.seen
Collides(path) == FoldPath(path) \in unpacked.seen
TooMuch(entry, path, directories) ==
    \/ Len(path) > MaxDepth \/ unpacked.files + 1 > MaxFiles
    \/ Cardinality(directories) > MaxDirectories
    \/ entry.size > MaxFileBytes \/ unpacked.total + entry.size > MaxTotalBytes

\* What the disk takes for the same name.
SameOnDisk(p, q) == IF FoldsCase THEN FoldPath(p) = FoldPath(q) ELSE p = q
\* write_file cannot put a file where a folder is, nor a folder where a file is.
InTheWay(path) ==
    \E f \in staging.folder :
        \/ \E up \in Parents(path) : SameOnDisk(up, f.at)
        \/ \E up \in Parents(f.at) : SameOnDisk(up, path)
OnDisk(path) ==
    LET There(i) == {f.at[i] : f \in {g \in staging.folder :
                         Len(g.at) >= i /\ SameOnDisk(SubSeq(g.at, 1, i), SubSeq(path, 1, i))}}
    IN [i \in DOMAIN path |-> IF There(i) = {} THEN path[i] ELSE CHOOSE name \in There(i) : TRUE]
Written(file) ==
    {f \in staging.folder : ~SameOnDisk(f.at, file.at)} \cup {[file EXCEPT !.at = OnDisk(@)]}
TakeEntry ==
    LET entry == fetch.archive[fetch.next]
        path == Relative(entry)
        directories == unpacked.directories \cup Parents(path)
        file == FileOf(entry)
    IN /\ FetchAt("entries") /\ fetch.next <= Len(fetch.archive) /\ UNCHANGED mishap
       /\ IF Refused(entry) THEN FetchEnds(Cleaned)
          ELSE IF ~Wanted(entry)
          THEN fetch' = [fetch EXCEPT !.next = @ + 1] /\ UNCHANGED <<staging, unpacked, fetchLeft>>
          ELSE IF Collides(path) \/ TooMuch(entry, path, directories) \/ ~entry.honest \/ InTheWay(path)
          THEN FetchEnds(Cleaned)
          ELSE /\ fetch' = [fetch EXCEPT !.next = @ + 1]
               /\ staging' = [staging EXCEPT !.folder = Written(file)]
               /\ unpacked' = [seen |-> unpacked.seen \cup {FoldPath(path)},
                               directories |-> directories, files |-> unpacked.files + 1,
                               total |-> unpacked.total + entry.size,
                               tree |-> unpacked.tree \cup {file}]
               /\ UNCHANGED fetchLeft
EntryFails == FetchAt("entries") /\ Fails /\ fetch' = [fetch EXCEPT !.step = "refused"]
              /\ staging' = Cleaned /\ unpacked' = NothingUnpacked

\* TreeBuilder::finish, and stage's comparison with the listing.  A tree's id stands for the
\* set of its files with their names, contents and modes.
Prove ==
    /\ FetchAt("entries") /\ fetch.next > Len(fetch.archive) /\ UNCHANGED mishap
    /\ IF /\ \E f \in unpacked.tree : f.at = <<"smabar.json">>
          /\ fetch.from = "store" => unpacked.tree = Listed
       THEN /\ fetch' = [fetch EXCEPT !.step = "staged"] /\ UNCHANGED unpacked
            /\ CleanUp([staging EXCEPT !.zip = NoBytes])
       ELSE FetchEnds(Cleaned)

\* The next start clears the staging folder, if it can.
CrashFetch ==
    /\ fetch.step \notin {"idle", "refused"} /\ SpendFetch("crash")
    /\ fetch' = NoFetch /\ unpacked' = NothingUnpacked /\ mishap' = FALSE
    /\ staging' \in {staging, [part |-> NoBytes, zip |-> NoBytes, folder |-> {}]}

--------------------------------------------------------------------------------
FetchNext ==
    \/ StartFetch \/ AskHost \/ Answer \/ Chunk \/ BreaksOff \/ StreamEnds \/ RenamePart
    \/ OpenZip \/ LocalLayout \/ TakeEntry \/ EntryFails \/ Prove \/ CrashFetch

FetchSpec == FetchInit /\ [][FetchNext]_fetchVars

--------------------------------------------------------------------------------
FetchTypeOK ==
    /\ fetch.step \in {"idle", "ask", "answer", "stream", "rename", "open", "layout", "entries",
                       "staged", "refused"}
    /\ fetch.hops \in Nat /\ unpacked.files \in Nat /\ unpacked.total \in Nat /\ mishap \in BOOLEAN

\* What the archive holds below the listed or enclosing folder.
Inside == {i \in DOMAIN fetch.archive : Wanted(fetch.archive[i])}
Content == {FileOf(fetch.archive[i]) : i \in Inside}
\* What the entries add up to, one after another.
Adds(sums) ==
    /\ sums[0] = 0
    /\ \A i \in DOMAIN fetch.archive :
        sums[i] = sums[i - 1] + IF i \in Inside THEN fetch.archive[i].size ELSE 0
StayApart ==
    \A i, j \in Inside :
        LET p == Relative(fetch.archive[i])
            q == Relative(fetch.archive[j])
        IN (FoldPath(p) = FoldPath(q) => i = j) /\ \A up \in Parents(p) : ~SameOnDisk(up, q)
WithinLimits ==
    /\ \A i \in Inside :
        LET entry == fetch.archive[i]
        IN Len(Relative(entry)) <= MaxDepth /\ entry.size <= MaxFileBytes
    /\ Cardinality(Inside) <= MaxFiles
    /\ Cardinality(UNION {Parents(Relative(fetch.archive[i])) : i \in Inside}) <= MaxDirectories
    /\ \E sums \in [0..Len(fetch.archive) -> 0..MaxTotalBytes] : Adds(sums)
\* An archive that can be taken: safe names that stay apart, a manifest, within the limits.
Sound ==
    /\ \A i \in DOMAIN fetch.archive : ~Refused(fetch.archive[i])
    /\ \A i \in Inside : fetch.archive[i].honest
    /\ \E i \in Inside : Relative(fetch.archive[i]) = <<"smabar.json">>
    /\ StayApart /\ WithinLimits

\* The proof is one of what is on the disk: a staged folder holds exactly the listed tree, or
\* what the picked ZIP holds, names, contents and modes, and nothing that an earlier attempt,
\* a cut stream or a crash left; and a sound archive of the listed tree is refused for no order
\* of its entries, nor at a limit, unless some step failed.
ProofIsOfTheDisk ==
    /\ FetchAt("staged") => staging.folder = IF fetch.from = "store" THEN Listed ELSE Content
    /\ (FetchAt("refused") /\ ~mishap /\ fetch.from = "store" /\ fetch.host \in ContentHost
          /\ fetch.hops < RedirectLimit /\ Size(fetch.archive) <= MaxBytes)
         => ~(Sound /\ Content = Listed)
================================================================================
