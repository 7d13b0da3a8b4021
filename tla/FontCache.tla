-------------------------------- MODULE FontCache --------------------------------
(***************************************************************************)
(* Google fonts that are kept on the disk (smabar/src/fonts.rs with        *)
(* fonts/cache.rs and fonts/css.rs; smabar-core/src/fonts/mod.rs): a page  *)
(* asks for a family, and unless its cache is whole the stylesheet is      *)
(* fetched, then each file it names, then a manifest is written that says  *)
(* what must be there.                                                     *)
(*                                                                         *)
(* One install runs at a time.  The network fails, the app crashes, files  *)
(* are deleted at any time and damaged between installs, and Google        *)
(* releases a family anew, with other files under other addresses.         *)
(***************************************************************************)
EXTENDS Integers, Sequences, FiniteSets

CONSTANTS Asker,         \* pages that ask for the family
          Weights,       \* weights the catalog lists: [upright |-> ..., italic |-> ...]
          MaxFontFiles,  \* MAX_FONT_FILES
          FontBudgets    \* bounds: how often what may happen

FontEvents == {"ask", "release", "fail", "crash", "delete", "damage"}
ASSUME FontAssumption ==
    /\ Weights.upright \subseteq Nat /\ Weights.italic \subseteq Nat
    /\ MaxFontFiles \in Nat /\ FontBudgets \subseteq [FontEvents -> Nat]

VARIABLES
    release,       \* what Google serves now
    askers,        \* what each page waits for
    installer,     \* INSTALL_LOCK: the page whose request is served, its step and stylesheet
    fontFiles,     \* files in the family's folder: [name, release, face, good]
    fontManifest,  \* manifest.json, or none: what each file must be, and the release
    handed,        \* history: what pages were handed
    fontLeft       \* bounds: the events that may still happen

fontVars == <<release, askers, installer, fontFiles, fontManifest, handed, fontLeft>>

--------------------------------------------------------------------------------
SpendFont(event) == fontLeft[event] > 0 /\ fontLeft' = [fontLeft EXCEPT ![event] = @ - 1]

\* preferred_weights: for each weight wanted the nearest there is, the lighter of two.
Distance(a, b) == IF a < b THEN b - a ELSE a - b
Nearest(available, target) ==
    CHOOSE w \in available : \A v \in available :
        Distance(w, target) < Distance(v, target) \/
        (Distance(w, target) = Distance(v, target) /\ w <= v)
Preferred(available, targets) ==
    IF available = {} THEN {} ELSE {Nearest(available, t) : t \in targets}
\* css2_family_spec, and the faces that a stylesheet for it has.
Asked ==
    {[style |-> "normal", weight |-> w] : w \in Preferred(Weights.upright, {400, 500, 600, 700})}
    \cup {[style |-> "italic", weight |-> w] : w \in Preferred(Weights.italic, {400})}
\* The names that the faces' files get, in the order of their first appearance.
Orders(faces) ==
    {order \in [1..Cardinality(faces) -> faces] : \A i, j \in DOMAIN order :
        order[i] = order[j] => i = j}

NoManifest == [release |-> 0, files |-> {}]
NoInstall == [asker |-> "none", step |-> "free", release |-> 0, faces |-> <<>>, next |-> 1]
FontInit ==
    /\ release = 1 /\ askers = [a \in Asker |-> "idle"] /\ installer = NoInstall
    /\ fontFiles = {} /\ fontManifest = NoManifest /\ handed = {} /\ fontLeft \in FontBudgets

--------------------------------------------------------------------------------
(* Google, the disk, and the app's end. *)

NewRelease ==
    /\ SpendFont("release") /\ release' = release + 1
    /\ UNCHANGED <<askers, installer, fontFiles, fontManifest, handed>>
FileDeleted ==
    /\ SpendFont("delete")
    /\ \/ \E f \in fontFiles : fontFiles' = fontFiles \ {f} /\ UNCHANGED fontManifest
       \/ /\ fontManifest # NoManifest /\ fontManifest' = NoManifest /\ UNCHANGED fontFiles
    /\ UNCHANGED <<release, askers, installer, handed>>
FileDamaged ==
    /\ SpendFont("damage") /\ installer.step = "free"
    /\ \E f \in {g \in fontFiles : g.good} :
        fontFiles' = (fontFiles \ {f}) \cup {[f EXCEPT !.good = FALSE]}
    /\ UNCHANGED <<release, askers, installer, fontManifest, handed>>
FontCrash ==
    /\ SpendFont("crash") /\ installer.step # "free"
    /\ installer' = NoInstall /\ askers' = [a \in Asker |-> "idle"]
    /\ UNCHANGED <<release, fontFiles, fontManifest, handed>>

--------------------------------------------------------------------------------
(* ensure_google_font *)

Ask(a) ==
    /\ SpendFont("ask") /\ askers[a] = "idle" /\ askers' = [askers EXCEPT ![a] = "waiting"]
    /\ UNCHANGED <<release, installer, fontFiles, fontManifest, handed>>

\* load_cached: every file of the manifest is there, with its hash.
Intact(file) == \E f \in fontFiles : f.good /\ [name |-> f.name, release |-> f.release, face |-> f.face] = file
\* MUTANT: files only have to be there.
CacheHolds_Names == fontManifest.files # {} /\ \A file \in fontManifest.files : \E f \in fontFiles : f.name = file.name
CacheHolds == fontManifest.files # {} /\ \A file \in fontManifest.files : Intact(file)
\* What a page is handed, with the truth about it.
Hand(files) ==
    handed' = handed \cup {[whole |-> \A file \in files : Intact(file),
                            releases |-> {file.release : file \in files},
                            faces |-> {file.face : file \in files}]}
Release(a, outcome) == askers' = [askers EXCEPT ![a] = outcome] /\ installer' = NoInstall
\* The lock is taken; a cache that does not hold is removed whole.
FontsFree == installer.step = "free"
EnsureAt(a) ==
    /\ askers[a] = "waiting" /\ FontsFree
    /\ \/ /\ CacheHolds /\ Hand(fontManifest.files) /\ Release(a, "idle")
          /\ UNCHANGED <<fontFiles, fontManifest, fontLeft>>
       \/ /\ ~CacheHolds /\ fontFiles' = {} /\ fontManifest' = NoManifest
          /\ installer' = [NoInstall EXCEPT !.asker = a, !.step = "css"]
          /\ askers' = [askers EXCEPT ![a] = "served"] /\ UNCHANGED <<handed, fontLeft>>
       \/ /\ ~CacheHolds /\ SpendFont("fail") /\ Release(a, "idle")
          /\ UNCHANGED <<fontFiles, fontManifest, handed>>
    /\ UNCHANGED release
InstallFails ==
    /\ installer.step \in {"css", "files"} /\ SpendFont("fail")
    /\ Release(installer.asker, "idle") /\ UNCHANGED <<release, fontFiles, fontManifest, handed>>
\* The stylesheet and parse_css_faces: at least one face, and not too many files.
Stylesheet ==
    /\ installer.step = "css"
    /\ IF Asked = {} \/ Cardinality(Asked) > MaxFontFiles
       THEN Release(installer.asker, "idle")
       ELSE /\ \E order \in Orders(Asked) :
                 installer' = [installer EXCEPT !.step = "files", !.release = release, !.faces = order]
            /\ UNCHANGED askers
    /\ UNCHANGED <<release, fontFiles, fontManifest, handed, fontLeft>>
\* One file after the other, each written whole or not at all.
Named(i) == [name |-> i, release |-> installer.release, face |-> installer.faces[i]]
WriteFile ==
    LET i == installer.next
    IN /\ installer.step = "files" /\ i <= Len(installer.faces)
       /\ fontFiles' = {f \in fontFiles : f.name # i} \cup
              {[name |-> i, release |-> installer.release, face |-> installer.faces[i], good |-> TRUE]}
       /\ installer' = [installer EXCEPT !.next = @ + 1]
       /\ UNCHANGED <<release, askers, fontManifest, handed, fontLeft>>
\* The manifest comes last; into_installed looks once more for each file.
Missing(files) == \E file \in files : \A f \in fontFiles : f.name # file.name
WriteManifest ==
    LET files == {Named(i) : i \in DOMAIN installer.faces}
    IN /\ installer.step = "files" /\ installer.next > Len(installer.faces)
       /\ fontManifest' = [release |-> installer.release, files |-> files]
       /\ Release(installer.asker, "idle")
       /\ IF Missing(files) THEN UNCHANGED handed ELSE Hand(files)
       /\ UNCHANGED <<release, fontFiles, fontLeft>>

--------------------------------------------------------------------------------
FontNext ==
    \/ NewRelease \/ FileDeleted \/ FileDamaged \/ FontCrash \/ InstallFails \/ Stylesheet
    \/ WriteFile \/ WriteManifest
    \/ \E a \in Asker : Ask(a) \/ EnsureAt(a)

FontSpec == FontInit /\ [][FontNext]_fontVars

--------------------------------------------------------------------------------
FontTypeOK ==
    /\ release \in Nat \ {0} /\ askers \in [Asker -> {"idle", "waiting", "served"}]
    /\ installer.step \in {"free", "css", "files"} /\ installer.next \in Nat

\* What a page is handed can be shown: each file is there, undamaged, all of one release and
\* all the faces that were asked for, whatever crashed, failed, was deleted, damaged or
\* released meanwhile.
HandedFontsAreWhole ==
    \A h \in handed : h.whole /\ Cardinality(h.releases) = 1 /\ h.faces = Asked

\* FontOption.cached: font_options looks for the manifest alone.
Cached == fontManifest # NoManifest
\* A family that is listed as cached can be had without the network.
CachedCanBeHad == (Cached /\ FontsFree) => CacheHolds
================================================================================
