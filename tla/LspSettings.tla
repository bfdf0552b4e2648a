----------------------------- MODULE LspSettings -----------------------------
(***************************************************************************)
(* The settings of a language server session: the air.toml files, the      *)
(* server's resolver of workspaces (lsp/workspaces.rs) kept up to date by   *)
(* the handlers of lsp/handlers_state.rs, and the extension that keeps the  *)
(* indentation of its editors in line with it (sync-file-settings.ts).      *)
(*                                                                         *)
(* A handler runs to its end before the next message is taken, so a        *)
(* message is handled in one step: what a handler asks of the client or    *)
(* reads from the disk it asks and reads then.                             *)
(***************************************************************************)
EXTENDS Paths

CONSTANTS
  Folders,      \* the directories that may be workspace folders or hold an air.toml
  Files,        \* the paths of documents
  Untitled,     \* a document that was never saved
  Contents,     \* what a sound air.toml says
  Absent,       \* there is no air.toml
  Broken,       \* the air.toml cannot be parsed
  Fallback,     \* the default settings, to which those of the client are added
  MaxChanges,   \* bound: how often the user does something
  MaxQueue      \* bound: the messages on their way to the server

ASSUME FoldersAssumption ==
  Folders \subseteq Path /\ IsFiniteSet(Folders) /\ Files \subseteq Path
ASSUME ContentsAssumption == Absent # Broken /\ {Absent, Broken} \cap Contents = {}

Documents == Files \cup {Untitled}

VARIABLES
  toml,           \* the air.toml of each directory
  clientFolders,  \* the workspace folders of the client
  clientSync,     \* whether the client wants its editors synchronised
  editors,        \* the open editors: the air.toml each took its indentation from
  active,         \* the active editor, if any
  fileSettings,   \* FileSettingsState.settings
  toServer, toClient,
  documents,      \* the documents the server has open
  workspaces,     \* path_to_settings_resolver: a resolver for each folder
  syncOn,         \* settings.sync_file_settings_with_client
  moved,          \* whether folders have changed since the settings were last sent
  changes

clientVars == <<clientFolders, clientSync, editors, active, fileSettings>>
serverVars == <<documents, workspaces, syncOn, moved>>
settingsVars == <<toml, clientVars, toServer, toClient, serverVars, changes>>

-----------------------------------------------------------------------------
(* Workspaces *)

\* The directories that hold an air.toml, from the path upwards.
Tomls(path) == {d \in Folders : StartsWith(path, d) /\ toml[d] # Absent}

NearestToml(path) == CHOOSE d \in Tomls(path) : \A e \in Tomls(path) : Len(e) <= Len(d)

\* discover_settings succeeds: there is no air.toml, or it can be parsed.
Discoverable(path) == Tomls(path) = {} \/ toml[NearestToml(path)] # Broken

\* discover_settings of a folder, in a resolver.
Discovered(path) ==
  IF Tomls(path) = {} THEN <<>>
  ELSE Added(<<>>, NearestToml(path), toml[NearestToml(path)])

\* open_workspace_folder: a folder whose air.toml is broken is not added.
Opened(items, folder) ==
  IF Discoverable(folder) THEN Added(items, folder, Discovered(folder)) ELSE items

OpenedAll(items, folders) == FoldSet(LAMBDA d, acc : Opened(acc, d), items, folders)

\* close_workspace_folder
ClosedAll(items, folders) == FoldSet(LAMBDA d, acc : Removed(acc, d), items, folders)

\* settings_for_path: the settings of the closest folder, and of no other.
SettingsForPath(items, path) ==
  Resolved(Resolved(items, path, <<>>), path, Fallback)

\* settings_for_url
SettingsForUrl(items, file) ==
  IF file # Untitled THEN SettingsForPath(items, file)
  ELSE IF Len(items) = 1 THEN SettingsForPath(items, Append(items[1].path, 0))
  ELSE Fallback

\* The folders that a changed air.toml is inside of.
Reloaded(directories) ==
  {i \in DOMAIN workspaces :
     \E d \in directories : i \in Matches(workspaces, Append(d, 0))}

\* Mutant: a resolver keeps its settings until there are others.
ReloadKept(directories) ==
  [i \in DOMAIN workspaces |->
     IF i \in Reloaded(directories) /\ Discoverable(workspaces[i].path)
     THEN Item(workspaces[i].path, Discovered(workspaces[i].path))
     ELSE workspaces[i]]

\* reload_workspaces_matched_by_url: what a resolver held is cleared whether or
\* not there is something to put in its place.
Reload(directories) ==
  [i \in DOMAIN workspaces |->
     IF i \notin Reloaded(directories) THEN workspaces[i]
     ELSE Item(workspaces[i].path,
               IF Discoverable(workspaces[i].path)
               THEN Discovered(workspaces[i].path) ELSE <<>>)]

\* Mutant: the settings have changed when something was discovered in every folder.
ReloadChangedAll(directories) ==
  \A i \in Reloaded(directories) :
    Discoverable(workspaces[i].path) /\ Tomls(workspaces[i].path) # {}

\* The settings have changed when something was discovered in one of the folders.
ReloadChanged(directories) ==
  \E i \in Reloaded(directories) :
    Discoverable(workspaces[i].path) /\ Tomls(workspaces[i].path) # {}

-----------------------------------------------------------------------------
(* The server's handlers *)

\* sync_file_settings: the settings of those files that have an air.toml.
FileSettings(items, files) ==
  LET known == {f \in files : SettingsForUrl(items, f) # Fallback}
  IN  [f \in known |-> SettingsForUrl(items, f)]

\* The notifications that a handler sends: each has all the client will know.
Synced(fileSets) == toClient \o [i \in DOMAIN fileSets |-> FileSettings(workspaces, fileSets[i])]

Message == Head(toServer)

Receive(kind) ==
  /\ toServer # <<>>
  /\ Message.kind = kind
  /\ toServer' = Tail(toServer)
  /\ UNCHANGED <<toml, clientVars, changes>>

\* update_config: if the client has enabled the synchronisation just now, the
\* settings of all files are sent.
ConfigSyncs(files) == IF ~syncOn /\ clientSync THEN <<files>> ELSE <<>>

\* did_open: the configuration is pulled, and the settings of the file are sent.
DidOpen ==
  /\ Receive("open")
  /\ documents' = documents \cup {Message.file}
  /\ syncOn' = clientSync
  /\ toClient' = Synced(ConfigSyncs(documents') \o IF clientSync THEN <<{Message.file}>> ELSE <<>>)
  /\ moved' = (moved /\ ~clientSync)
  /\ UNCHANGED workspaces

DidClose ==
  /\ Receive("close")
  /\ documents' = documents \ {Message.file}
  /\ UNCHANGED <<toClient, workspaces, syncOn, moved>>

DidChangeConfiguration ==
  /\ Receive("configuration")
  /\ syncOn' = clientSync
  /\ toClient' = Synced(ConfigSyncs(documents))
  /\ moved' = (moved /\ ConfigSyncs(documents) = <<>>)
  /\ UNCHANGED <<documents, workspaces>>

\* did_change_workspace_folders: folders are opened, then folders are closed.
DidChangeWorkspaceFolders ==
  /\ Receive("folders")
  /\ workspaces' = ClosedAll(OpenedAll(workspaces, Message.added), Message.removed)
  /\ moved' = TRUE
  /\ UNCHANGED <<toClient, documents, syncOn>>

\* did_change_watched_files: all files are sent once, after the last reload.
DidChangeWatchedFiles ==
  /\ Receive("watched")
  /\ workspaces' = Reload(Message.directories)
  /\ IF ReloadChanged(Message.directories) /\ syncOn
     THEN /\ toClient' = Append(toClient, FileSettings(workspaces', documents))
          /\ moved' = FALSE
     ELSE UNCHANGED <<toClient, moved>>
  /\ UNCHANGED <<documents, syncOn>>

-----------------------------------------------------------------------------
(* The client: the user, the files, and the extension *)

\* FileSettingsState.apply
Applied(settings, file) ==
  IF file \in DOMAIN settings
  THEN [editors EXCEPT ![file] = settings[file]] ELSE editors

Send(message) == toServer' = Append(toServer, message)

UserDoes ==
  /\ changes < MaxChanges
  /\ changes' = changes + 1
  /\ UNCHANGED <<toClient, serverVars>>

Asks == UserDoes /\ Len(toServer) < MaxQueue

\* A new editor is the active one.
OpenEditor(f) ==
  /\ Asks
  /\ f \notin DOMAIN editors
  /\ editors' = [g \in DOMAIN editors \cup {f} |->
                   IF g # f THEN editors[g]
                   ELSE IF f \in DOMAIN fileSettings THEN fileSettings[f] ELSE Fallback]
  /\ active' = {f}
  /\ Send([kind |-> "open", file |-> f])
  /\ UNCHANGED <<toml, clientFolders, clientSync, fileSettings>>

CloseEditor(f) ==
  /\ Asks
  /\ f \in DOMAIN editors
  /\ editors' = Restrict(editors, DOMAIN editors \ {f})
  /\ active' = active \ {f}
  /\ Send([kind |-> "close", file |-> f])
  /\ UNCHANGED <<toml, clientFolders, clientSync, fileSettings>>

\* onDidChangeActiveTextEditor
ActivateEditor(f) ==
  /\ UserDoes
  /\ f \in DOMAIN editors \ active
  /\ active' = {f}
  /\ editors' = Applied(fileSettings, f)
  /\ UNCHANGED <<toml, clientFolders, clientSync, fileSettings, toServer>>

\* The client watches the files inside its folders, and may tell of several
\* changes at once.
EditToml(d, c) ==
  /\ Asks
  /\ toml[d] # c
  /\ toml' = [toml EXCEPT ![d] = c]
  /\ IF \A folder \in clientFolders : ~StartsWith(d, folder)
     THEN UNCHANGED toServer
     ELSE \/ Send([kind |-> "watched", directories |-> {d}])
          \/ /\ toServer # <<>>
             /\ Last(toServer).kind = "watched"
             /\ toServer' = [toServer EXCEPT ![Len(toServer)].directories = @ \cup {d}]
  /\ UNCHANGED clientVars

ChangeFolders(folders) ==
  /\ Asks
  /\ folders # clientFolders
  /\ clientFolders' = folders
  /\ Send([kind |-> "folders", added |-> folders \ clientFolders,
           removed |-> clientFolders \ folders])
  /\ UNCHANGED <<toml, clientSync, editors, active, fileSettings>>

ToggleSync ==
  /\ Asks
  /\ clientSync' = ~clientSync
  /\ Send([kind |-> "configuration"])
  /\ UNCHANGED <<toml, clientFolders, editors, active, fileSettings>>

\* handleSettingsNotification: the map is replaced, and the active editor follows.
SettingsNotification ==
  /\ toClient # <<>>
  /\ fileSettings' = Head(toClient)
  /\ toClient' = Tail(toClient)
  /\ editors' = IF active = {} THEN editors
                ELSE Applied(fileSettings', CHOOSE f \in active : TRUE)
  /\ UNCHANGED <<toml, clientFolders, clientSync, active, toServer, serverVars, changes>>

-----------------------------------------------------------------------------

\* initialize: the server reads the folders of the client.
SettingsInit ==
  /\ toml \in [Folders -> Contents \cup {Absent, Broken}]
  /\ clientFolders \in SUBSET Folders
  /\ clientSync \in BOOLEAN
  /\ workspaces = OpenedAll(<<>>, clientFolders)
  /\ editors = <<>> /\ active = {} /\ fileSettings = <<>>
  /\ toServer = <<>> /\ toClient = <<>>
  /\ documents = {} /\ syncOn = FALSE /\ moved = FALSE
  /\ changes = 0

UserNext ==
  \/ \E f \in Documents : OpenEditor(f) \/ CloseEditor(f) \/ ActivateEditor(f)
  \/ \E d \in Folders, c \in Contents \cup {Absent, Broken} : EditToml(d, c)
  \/ \E folders \in SUBSET Folders : ChangeFolders(folders)
  \/ ToggleSync

HandlerNext ==
  \/ DidOpen \/ DidClose \/ DidChangeConfiguration
  \/ DidChangeWorkspaceFolders \/ DidChangeWatchedFiles

SettingsNext == UserNext \/ HandlerNext \/ SettingsNotification

SettingsSpec == SettingsInit /\ [][SettingsNext]_settingsVars

-----------------------------------------------------------------------------
(* Properties *)

\* Once the server has handled all it was told, a workspace that is open follows
\* the air.toml of its folder: it has the settings of a sound one, no settings
\* when that file is broken, and those of a directory above, or none, when there
\* is no file.  Whatever was edited, opened and closed while messages waited.
WorkspacesFollowTheirToml ==
  toServer = <<>> =>
    \A i \in DOMAIN workspaces :
      LET folder == workspaces[i].path
          items  == workspaces[i].value
      IN  CASE toml[folder] \in Contents -> items = <<Item(folder, toml[folder])>>
            [] toml[folder] = Broken     -> items = <<>>
            [] toml[folder] = Absent     -> folder \notin Keys(items)

\* While the editors are synchronised, what the client knows, or is about to,
\* agrees with the server wherever the server has settings: only changed folders
\* leave it behind, until the next notification.
ClientFollowsServer ==
  LET latest == IF toClient = <<>> THEN fileSettings ELSE Last(toClient)
  IN  syncOn /\ ~moved => \A f \in DOMAIN latest :
        SettingsForUrl(workspaces, f) \in {latest[f], Fallback}

\* sync-file-settings.ts: an editor that becomes active `always has up-to-date
\* settings'.
ActiveEditorIsUpToDate ==
  toServer = <<>> /\ toClient = <<>> /\ syncOn /\ clientSync /\ ~moved =>
    \A f \in active : SettingsForUrl(workspaces, f) \in {editors[f], Fallback}

=============================================================================
