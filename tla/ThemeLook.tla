-------------------------------- MODULE ThemeLook --------------------------------
(***************************************************************************)
(* What a theme looks like, here and where it is shared (smabar-core's     *)
(* themes/ and config/update.rs; commands/themes.rs, commands/files.rs).   *)
(*                                                                         *)
(* A page paints the bundled theme, the drop-in file over it and the       *)
(* user's overrides over both; activating a theme applies its settings     *)
(* once.  A look is saved as a drop-in, a theme is exported as a file, and *)
(* another installation, of another version, imports the file.             *)
(***************************************************************************)
EXTENDS Naturals, FiniteSets

CONSTANTS Peer,          \* installations of the app
          Bundles,       \* what each ships: its themes, each with tokens and settings
          LocalTheme,    \* names of the user's own themes
          Overrides,     \* overrides that users choose: partial functions of tokens
          SettingValue,  \* values of a setting
          Handmade,      \* what users write into theme files by hand
          LookBudgets    \* bounds: how often what may happen

LookToken == {"text", "surface", "source", "sans"}
SettingPath == {"position", "magnify"}    \* ALLOWED_PATHS
LookEvents == {"activate", "override", "set", "save", "export", "import", "edit", "write",
               "delete"}
BundledTheme == {"default", "paper"}
ASSUME LookAssumption ==
    /\ LookBudgets \subseteq [LookEvents -> Nat]
    /\ LocalTheme \cap BundledTheme = {} /\ "bad" \notin SettingValue
    /\ \A p \in Peer : \A n \in BundledTheme :
        /\ Bundles[p][n].tokens = [k \in LookToken |-> Bundles[p][n].tokens[k]]
        /\ Bundles[p][n].settings = [k \in SettingPath |-> Bundles[p][n].settings[k]]

VARIABLES
    peerConfig,   \* each installation's theme, overrides and settings
    dropins,      \* its theme files
    shared,       \* files that were given away: [name, copy, doc], and the look they stand for
    arrived,      \* history: the look that a theme file stands for, or none
    fresh,        \* history: nothing was changed since the theme was activated
    lookLeft      \* bounds: the events that may still happen

lookVars == <<peerConfig, dropins, shared, arrived, fresh, lookLeft>>

--------------------------------------------------------------------------------
SpendLook(event) == lookLeft[event] > 0 /\ lookLeft' = [lookLeft EXCEPT ![event] = @ - 1]

ThemeName == BundledTheme \cup LocalTheme
With(base, top) ==
    [k \in DOMAIN base \cup DOMAIN top |-> IF k \in DOMAIN top THEN top[k] ELSE base[k]]
Empty == [k \in {} |-> "none"]
NoFile == [json |-> FALSE, tokens |-> Empty, settings |-> Empty, meta |-> "none"]
NoLook == [tokens |-> Empty, settings |-> Empty]

ValidValue(value) == value # "bad"    \* is_valid_token_value
\* validate_token, and apply_settings for one setting.
ValidToken(doc, key) == key \in LookToken /\ ValidValue(doc.tokens[key])
ValidSetting(doc, path) == path \in SettingPath /\ doc.settings[path] \in SettingValue
ValidMeta(doc) == doc.meta # "odd"    \* parse_meta_value
\* parse_document takes what is valid; parse_document_strict all or nothing.
Tolerant(doc) ==
    [doc EXCEPT !.tokens = [k \in {t \in DOMAIN doc.tokens : ValidToken(doc, t)} |-> doc.tokens[k]]]
StrictTokens(doc) == \A t \in DOMAIN doc.tokens : ValidToken(doc, t)
Strict(doc) ==
    /\ doc.json /\ ValidMeta(doc) /\ StrictTokens(doc)
    /\ \A s \in DOMAIN doc.settings : ValidSetting(doc, s)

\* canonicalize_theme_fonts
Canonical(tokens) ==
    IF "source" \in DOMAIN tokens /\ tokens["source"] = "google"
    THEN With(tokens, [k \in {"sans"} |-> "inter"]) ELSE tokens
Base(p, name) == Bundles[p][IF name \in BundledTheme THEN name ELSE "default"]
Resolve(p, name) == Canonical(With(Base(p, name).tokens, Tolerant(dropins[p][name]).tokens))
SettingsBlock(p, name) ==
    With(IF name \in BundledTheme THEN Base(p, name).settings ELSE Empty,
         dropins[p][name].settings)
ApplySettings(settings, block) ==
    [s \in SettingPath |->
        IF s \in DOMAIN block /\ block[s] \in SettingValue THEN block[s] ELSE settings[s]]

\* What a page paints (theme/apply.ts): text that cannot be read is repaired, unless the user
\* chose it.
Repaired(tokens, chosen) ==
    IF tokens["text"] = tokens["surface"] /\ ~chosen
    THEN [tokens EXCEPT !["text"] = IF @ = "light" THEN "dark" ELSE "light"] ELSE tokens
Look(tokens, overrides, settings) ==
    [tokens |-> Repaired(Canonical(With(tokens, overrides)), "text" \in DOMAIN overrides),
     settings |-> settings]
Painted(p) ==
    Look(Resolve(p, peerConfig[p].theme), peerConfig[p].overrides, peerConfig[p].settings)
\* What the theme would look like over these settings.
Preview(p, name, settings) ==
    Look(Resolve(p, name), Empty, ApplySettings(settings, SettingsBlock(p, name)))
\* What it looks like to someone who just installed the app.
LookOf(p, name) == Preview(p, name, Bundles[p]["default"].settings)

LookInit ==
    /\ peerConfig = [p \in Peer |-> [theme |-> "default", overrides |-> Empty,
                                     settings |-> Bundles[p]["default"].settings]]
    /\ dropins = [p \in Peer |-> [n \in ThemeName |-> NoFile]]
    /\ shared = {} /\ arrived = [p \in Peer |-> [n \in ThemeName |-> NoLook]]
    /\ fresh = [p \in Peer |-> FALSE] /\ lookLeft \in LookBudgets

--------------------------------------------------------------------------------
(* The configuration: set_config_path_activating. *)

Available(p, name) == name \in BundledTheme \/ dropins[p][name] # NoFile
\* MUTANT: a theme switch keeps the overrides of the theme before.
Activated_Keeps(p, name, files) ==
    [peerConfig[p] EXCEPT !.theme = name,
         !.settings = ApplySettings(@, With(IF name \in BundledTheme THEN Base(p, name).settings
                                            ELSE Empty, files[name].settings))]
Activated(p, name, files) ==
    [theme |-> name, overrides |-> Empty,
     settings |-> ApplySettings(peerConfig[p].settings,
                                With(IF name \in BundledTheme THEN Base(p, name).settings ELSE Empty,
                                     files[name].settings))]
Activate(p, name) ==
    /\ SpendLook("activate") /\ Available(p, name)
    /\ peerConfig' = [peerConfig EXCEPT ![p] = Activated(p, name, dropins[p])]
    /\ fresh' = [fresh EXCEPT ![p] = TRUE]
    /\ UNCHANGED <<dropins, shared, arrived>>
Usable(overrides) == \A t \in DOMAIN overrides : ValidValue(overrides[t])    \* validate_tokens
Override(p) ==
    /\ SpendLook("override") /\ fresh' = [fresh EXCEPT ![p] = FALSE]
    /\ \E o \in Overrides :
        /\ Usable(o)
        /\ peerConfig' = [peerConfig EXCEPT ![p].overrides = Canonical(o)]
    /\ UNCHANGED <<dropins, shared, arrived>>
SetAt(config, path, value) == [config EXCEPT !.settings[path] = value]    \* set_at_path
SetSetting(p) ==
    /\ SpendLook("set") /\ fresh' = [fresh EXCEPT ![p] = FALSE]
    /\ \E s \in SettingPath, v \in SettingValue :
        peerConfig' = [peerConfig EXCEPT ![p] = SetAt(@, s, v)]
    /\ UNCHANGED <<dropins, shared, arrived>>

--------------------------------------------------------------------------------
(* Theme files. *)

\* The name that a shared file is imported under: slugify_theme_name of its stem.
Imported(file) == IF file.copy = 1 THEN file.name ELSE file.alias
\* stage_theme_write
MayWrite(p, name, overwrite) ==
    name \in LocalTheme /\ (overwrite \/ dropins[p][name] = NoFile)
Snapshot(config) == config.settings    \* snapshot_settings
CurrentLook(p) ==
    [json |-> TRUE, meta |-> "none", settings |-> Snapshot(peerConfig[p]),
     tokens |-> Canonical(With(Resolve(p, peerConfig[p].theme), peerConfig[p].overrides))]
Writable(doc) == Strict(doc)    \* document_to_json
\* save_theme_copy: perhaps a file to give away, or that cannot be written.
Copied(name, doc, look) ==
    {shared, shared \cup {[name |-> name, copy |-> 1, alias |-> name, doc |-> doc, look |-> look]}}
\* save_current_theme: the look becomes a theme, which is activated.
SaveLook(p, name, overwrite) ==
    LET doc == CurrentLook(p)
        files == [dropins[p] EXCEPT ![name] = doc]
    IN /\ SpendLook("save") /\ MayWrite(p, name, overwrite) /\ Writable(doc)
       /\ dropins' = [dropins EXCEPT ![p] = files]
       /\ peerConfig' = [peerConfig EXCEPT ![p] = Activated(p, name, files)]
       /\ arrived' = [arrived EXCEPT ![p][name] = Painted(p)]
       /\ fresh' = [fresh EXCEPT ![p] = TRUE]
       /\ shared' \in Copied(name, doc, Painted(p))

\* export_document_unlocked
ExportDoc(p, name) ==
    [json |-> TRUE, meta |-> dropins[p][name].meta, tokens |-> Resolve(p, name),
     settings |-> With(Bundles[p]["default"].settings, SettingsBlock(p, name))]
\* export_to_dir: another name if the file is there.
Taken(name) == {f \in shared : f.name = name}
Export(p, name) ==
    /\ SpendLook("export") /\ Available(p, name)
    /\ dropins[p][name] # NoFile => Strict(dropins[p][name])
    /\ \E alias \in LocalTheme :
        shared' = shared \cup {[name |-> name, copy |-> Cardinality(Taken(name)) + 1, alias |-> alias,
                                doc |-> ExportDoc(p, name), look |-> LookOf(p, name)]}
    /\ UNCHANGED <<peerConfig, dropins, arrived, fresh>>
\* import_theme_file: not activated, but painted if it is the active theme.
Import(p, file, overwrite) ==
    LET name == Imported(file)
    IN /\ SpendLook("import") /\ MayWrite(p, name, overwrite)
       /\ Strict(file.doc) /\ DOMAIN file.doc.tokens \cup DOMAIN file.doc.settings # {}
       /\ dropins' = [dropins EXCEPT ![p][name] = file.doc]
       /\ arrived' = [arrived EXCEPT ![p][name] = file.look]
       /\ fresh' = [fresh EXCEPT ![p] = @ /\ peerConfig[p].theme # name]
       /\ UNCHANGED <<peerConfig, shared>>
\* theme_write: a tool's document, over what was there; the active theme is not applied again.
WriteTheme(p, name) ==
    /\ SpendLook("write") /\ MayWrite(p, name, TRUE)
    /\ \E doc \in Handmade : Writable(doc) /\ dropins' = [dropins EXCEPT ![p][name] = doc]
    /\ arrived' = [arrived EXCEPT ![p][name] = NoLook]
    /\ UNCHANGED <<peerConfig, shared, fresh>>
\* A drop-in is written by hand; one of a bundled theme's name patches it.
HandEdit(p, name) ==
    /\ SpendLook("edit")
    /\ \E doc \in Handmade : dropins' = [dropins EXCEPT ![p][name] = doc]
    /\ arrived' = [arrived EXCEPT ![p][name] = NoLook]
    /\ UNCHANGED <<peerConfig, shared, fresh>>
DeleteTheme(p, name) ==
    /\ SpendLook("delete") /\ name \in LocalTheme /\ dropins[p][name] # NoFile
    /\ dropins' = [dropins EXCEPT ![p][name] = NoFile]
    /\ arrived' = [arrived EXCEPT ![p][name] = NoLook]
    /\ IF peerConfig[p].theme = name
       THEN /\ peerConfig' = [peerConfig EXCEPT ![p] = Activated(p, "default", dropins[p])]
            /\ fresh' = [fresh EXCEPT ![p] = TRUE]
       ELSE UNCHANGED <<peerConfig, fresh>>
    /\ UNCHANGED shared

--------------------------------------------------------------------------------
LookNext ==
    \E p \in Peer :
        \/ Override(p) \/ SetSetting(p)
        \/ \E name \in ThemeName : Activate(p, name) \/ Export(p, name) \/ HandEdit(p, name)
                                   \/ WriteTheme(p, name) \/ DeleteTheme(p, name)
        \/ \E overwrite \in BOOLEAN :
            \/ \E name \in LocalTheme : SaveLook(p, name, overwrite)
            \/ \E file \in shared : Import(p, file, overwrite)

LookSpec == LookInit /\ [][LookNext]_lookVars

--------------------------------------------------------------------------------
LookTypeOK ==
    /\ \A p \in Peer :
        /\ peerConfig[p].theme \in ThemeName /\ DOMAIN peerConfig[p].overrides \subseteq LookToken
        /\ peerConfig[p].settings \in [SettingPath -> SettingValue]
    /\ fresh \in [Peer -> BOOLEAN]

\* An exported theme is self-contained: on any installation of any version, whatever was set
\* there before, activating the imported file shows what its author saw, tokens, fonts and
\* settings; and a look that was saved as a theme shows the same afterwards.
SharedLooksTheSame ==
    \A p \in Peer :
        LET theme == peerConfig[p].theme
        IN (fresh[p] /\ arrived[p][theme] # NoLook) => Painted(p) = arrived[p][theme]

\* What is shown can be given away: a theme that can be activated can be exported.
ShownCanBeExported ==
    \A p \in Peer, n \in ThemeName :
        (Available(p, n) /\ dropins[p][n] # NoFile) => Strict(dropins[p][n])
================================================================================
