------------------------------ MODULE FilePickers ------------------------------
(***************************************************************************)
(* Choosing the file a job runs: the path field with its suggestions and its *)
(* browser of the repository (RepositoryPathPicker.tsx), and the browser of  *)
(* release JARs beside it (ReleaseJarPicker.tsx), over the path, the runtime *)
(* and the pinned JAR of the form that holds them (ScriptForm.tsx).          *)
(*                                                                          *)
(* A path is its folders and a text: the name of a file, or a part of one    *)
(* that is still being typed.  Every query is of one office.  Its answer is  *)
(* that of the moment it arrives, and any query asked once may be read again *)
(* (the window is focused, the connection comes back).                       *)
(***************************************************************************)
EXTENDS Naturals, Sequences, FiniteSets, SequencesExt, Browser

CONSTANTS
  Trees,        \* the repository's files at several times: sets of [dir, text]
  Texts,        \* texts that are typed, "" among them
  Begins, Holds, \* for each text, the names that begin with it and hold it
  RuntimeBy,    \* for each text, the runtime its extension names, or None
  Releases,     \* releases, the newest first
  Drafts,       \* those of them that are drafts
  AssetsOf,     \* for each release, its assets in order, JARs or not
  PerPage, JarsPerPage, \* 20 and 100 in the code
  FirstReleases, \* releases there are when the form is opened
  MaxPicks, MaxPickErrors \* bounds: what the user does, requests that fail

Runtimes == {"python", "java", "shell"}

JarsFolder == <<"release-jars">>

ASSUME FilePickersAssumption ==
  /\ {Begins, Holds} \subseteq [Texts -> SUBSET STRING] /\ \A t \in Texts : Begins[t] \subseteq Holds[t]
  /\ RuntimeBy \in [Texts -> Runtimes \cup {None}]
  /\ {PerPage, JarsPerPage} \subseteq Nat \ {0} /\ FirstReleases \in 1..Len(Releases)
  /\ "" \in Texts /\ RuntimeBy[""] = None /\ Texts \subseteq STRING /\ JarsFolder \in Seq(STRING)
  /\ \A files \in Trees : files \subseteq [dir: Seq(STRING), text: Texts]
  /\ AssetsOf \in Seq(Seq(Texts)) /\ Releases \in Seq(DOMAIN AssetsOf)
  /\ {MaxPicks, MaxPickErrors} \subseteq Nat

VARIABLES
  fileForm,    \* [path, runtime, jar]
  byHand,      \* history: the runtime was chosen by its own control since the path was
  tree,        \* the files of the repository
  catalog,     \* the query for them: [paths (None: not read), unavailable]
  browsed,     \* history: what catalog had when the browser last moved
  picker,      \* the path field and its browser
  published,   \* releases there are
  jars,        \* the browser of release JARs: [open, page, release, assetPage]
  lists,       \* queries for releases and JARs asked for: from key to rows, or None
  picks, pickErrors \* counters

pickerVars == <<fileForm, byHand, tree, catalog, browsed, picker, published, jars, lists, picks, pickErrors>>

NoText == [dir |-> <<>>, text |-> ""]
NewPicker(r) == [open |-> FALSE, suggest |-> FALSE, active |-> 0, directory |-> <<>>, filter |-> r,
                 search |-> "", selected |-> None]
NewJars    == [open |-> FALSE, page |-> 1, release |-> None, assetPage |-> 1]

\* The form of a new script, or of one whose file is saved
FilePickersInit ==
  /\ \E t \in {u \in Texts : u = "" \/ RuntimeBy[u] /= None} :
       fileForm = [path |-> [NoText EXCEPT !.text = t], runtime |-> IF t = "" THEN "python" ELSE RuntimeBy[t], jar |-> None]
  /\ byHand = FALSE
  /\ tree \in Trees /\ catalog = [paths |-> None, unavailable |-> FALSE] /\ browsed = {}
  /\ picker = NewPicker(fileForm.runtime) /\ published = FirstReleases /\ jars = NewJars
  /\ lists = << >> /\ picks = 0 /\ pickErrors = 0

(***************************************************************************)
(* What a folder holds                                                       *)
(***************************************************************************)
Known == IF catalog.paths = None THEN {} ELSE catalog.paths

Under(dir) == {f \in Known : IsPrefix(dir, f.dir)}

\* The extension of a filter is the runtime it stands for.
Passes(text, filter) == filter = "all" \/ RuntimeBy[text] = filter

\* contents: the folders, then the files that pass the filter, each by name
Contents(dir, filter) ==
  LET inside  == Under(dir)
      folders == {f.dir[Len(dir) + 1] : f \in {g \in inside : Len(g.dir) > Len(dir)}}
      files   == {f.text : f \in {g \in inside : g.dir = dir /\ Passes(g.text, filter)}}
  IN {[name |-> n, folder |-> TRUE] : n \in folders} \cup {[name |-> n, folder |-> FALSE] : n \in files}

Suggestions == {e \in Contents(fileForm.path.dir, fileForm.runtime) : e.name \in Begins[fileForm.path.text]}

Entries == {e \in Contents(picker.directory, picker.filter) : e.name \in Holds[picker.search]}

PathOf(dir, e) == IF e.folder THEN [dir |-> Append(dir, e.name), text |-> ""] ELSE [dir |-> dir, text |-> e.name]

(***************************************************************************)
(* The form                                                                 *)
(***************************************************************************)
\* The form keeps a JAR that its runtime does not run (mutant).
ChangeFormKeepingJar(next) == fileForm' = next

\* changeForm: a JAR stays pinned only while it is what runs.
ChangeForm(next) == fileForm' = IF next.runtime /= "java" THEN [next EXCEPT !.jar = None] ELSE next

\* The runtime is left as it is (mutant).
ChangePathOnly(path, state) ==
  /\ ChangeForm([fileForm EXCEPT !.path = path]) /\ byHand' = FALSE /\ picker' = state /\ jars' = jars

\* onChange of the path: its extension chooses the runtime.  The field of another runtime
\* is another field, and begins anew.
ChangePath(path, state) ==
  LET named == RuntimeBy[path.text]
  IN /\ ChangeForm([fileForm EXCEPT !.path = path, !.runtime = IF named = None THEN @ ELSE named])
     /\ byHand' = (byHand /\ named = None)
     /\ IF named \in {None, fileForm.runtime} THEN picker' = state /\ jars' = jars
        ELSE picker' = NewPicker(named) /\ jars' = NewJars

Pick == picks < MaxPicks /\ picks' = picks + 1

ChooseRuntime ==
  /\ Pick /\ ~picker.open
  /\ \E r \in Runtimes \ {fileForm.runtime} :
       /\ ChangeForm([fileForm EXCEPT !.runtime = r]) /\ byHand' = TRUE
       /\ picker' = NewPicker(r) /\ jars' = NewJars
  /\ UNCHANGED <<tree, catalog, browsed, published, lists, pickErrors>>

\* The path field is there while no JAR is pinned.
FieldShown == fileForm.jar = None

(***************************************************************************)
(* The path field                                                           *)
(***************************************************************************)
Field == Pick /\ FieldShown /\ ~picker.open

FieldOnly == UNCHANGED <<tree, catalog, browsed, published, lists, pickErrors>>

FormKept == UNCHANGED <<fileForm, byHand, jars>>

TypePath ==
  /\ Field
  /\ \E dir \in {fileForm.path.dir} \cup {f.dir : f \in tree}, t \in Texts :
       ChangePath([dir |-> dir, text |-> t], [picker EXCEPT !.suggest = TRUE, !.active = 0])
  /\ FieldOnly

\* Focus, and blur or Escape
FocusPath == Field /\ picker' = [picker EXCEPT !.suggest = TRUE] /\ FormKept /\ FieldOnly
LeavePath == Field /\ picker' = [picker EXCEPT !.suggest = FALSE, !.active = 0] /\ FormKept /\ FieldOnly

\* The arrows move within the suggestions there are now.
Arrow ==
  /\ Field /\ Suggestions /= {}
  /\ \E to \in {picker.active - 1, picker.active + 1} :
       LET most == Cardinality(Suggestions)
           at   == IF to > most THEN most ELSE IF to < 1 THEN 1 ELSE to
       IN picker' = [picker EXCEPT !.suggest = TRUE, !.active = at]
  /\ FormKept /\ FieldOnly

\* By a click on one that is shown, or by Enter on the active one
ChooseSuggestion ==
  /\ Field /\ picker.suggest
  /\ fileForm.path /= NoText \/ picker.active \in 1..Cardinality(Suggestions)
  /\ \E e \in Suggestions :
       ChangePath(PathOf(fileForm.path.dir, e), [picker EXCEPT !.active = 0, !.suggest = e.folder])
  /\ FieldOnly

(***************************************************************************)
(* The browser of the repository                                            *)
(***************************************************************************)
Navigated(p, dir) == [p EXCEPT !.directory = dir, !.search = "", !.selected = None]

Moved(p) == picker' = p /\ browsed' = Known /\ UNCHANGED <<fileForm, byHand, tree, catalog, published, jars, lists, pickErrors>>

\* The browser opens where the typed path points, whatever is there (mutant).
BrowseAnywhere ==
  /\ Field /\ ~catalog.unavailable
  /\ Moved([Navigated(picker, fileForm.path.dir) EXCEPT !.filter = fileForm.runtime, !.suggest = FALSE, !.active = 0, !.open = TRUE])

Browse ==
  /\ Field /\ ~catalog.unavailable
  /\ Moved([Navigated(picker, IF Under(fileForm.path.dir) /= {} THEN fileForm.path.dir ELSE <<>>)
              EXCEPT !.filter = fileForm.runtime, !.suggest = FALSE, !.active = 0, !.open = TRUE])

InBrowser == Pick /\ FieldShown /\ picker.open
FilesListed    == InBrowser /\ catalog.paths /= None /\ ~catalog.unavailable

\* Up one folder, or one of the folders above it
NavigateUp ==
  /\ InBrowser /\ picker.directory /= <<>>
  /\ \E n \in 0..Len(picker.directory) :
       /\ picker' = Navigated(picker, SubSeq(picker.directory, 1, n))
       /\ UNCHANGED <<fileForm, byHand, tree, catalog, browsed, published, jars, lists, pickErrors>>

OpenFolder ==
  /\ FilesListed
  /\ \E e \in {x \in Entries : x.folder} : Moved(Navigated(picker, Append(picker.directory, e.name)))

SelectFile ==
  /\ FilesListed
  /\ \E e \in {x \in Entries : ~x.folder} : picker' = [picker EXCEPT !.selected = PathOf(picker.directory, e)]
  /\ FormKept /\ FieldOnly

SearchFolder ==
  /\ InBrowser /\ \E t \in Texts \ {picker.search} : picker' = [picker EXCEPT !.search = t]
  /\ FormKept /\ FieldOnly

\* The file selected before stays (mutant).
FilterKeeping ==
  /\ InBrowser /\ \E f \in (Runtimes \cup {"all"}) \ {picker.filter} : picker' = [picker EXCEPT !.filter = f]
  /\ FormKept /\ FieldOnly

FilterFiles ==
  /\ InBrowser
  /\ \E f \in (Runtimes \cup {"all"}) \ {picker.filter} : picker' = [picker EXCEPT !.filter = f, !.selected = None]
  /\ FormKept /\ FieldOnly

UseSelected ==
  /\ InBrowser /\ picker.selected /= None
  /\ ChangePath(picker.selected, [picker EXCEPT !.suggest = FALSE, !.open = FALSE])
  /\ FieldOnly

CancelBrowse == InBrowser /\ picker' = [picker EXCEPT !.open = FALSE] /\ FormKept /\ FieldOnly

(***************************************************************************)
(* Release JARs                                                             *)
(***************************************************************************)
JarsShown == Pick /\ ~picker.open /\ fileForm.runtime = "java"
JarsOnly  == UNCHANGED <<byHand, tree, catalog, browsed, published, pickErrors>>

\* The JARs of one release are kept for all of them (mutant).
JarsKeyOfPage(r, page) == <<"jars", page, 1>>

JarsKey(r, page) == <<"jars", r, page>>

\* The queries that this page observes
Observed(j) ==
  IF ~j.open THEN {}
  ELSE {<<"releases", 0, j.page>>} \cup (IF j.release = None THEN {} ELSE {JarsKey(j.release, j.assetPage)})

List(k) == IF k \in DOMAIN lists THEN lists[k] ELSE None

ShowJars(j) ==
  /\ jars' = j
  /\ lists' = [k \in DOMAIN lists \cup Observed(j) |-> List(k)]

ReleasesShown == List(<<"releases", 0, jars.page>>)
JarsListed    == IF jars.release = None THEN None ELSE List(JarsKey(jars.release, jars.assetPage))

\* The server passes on the releases that are no drafts and the assets that are JARs,
\* and offers another page when this one was full before.
Full(rows, most) == Len(rows) = most

BrowseJars == JarsShown /\ ShowJars([jars EXCEPT !.open = ~@]) /\ UNCHANGED <<fileForm, picker>> /\ JarsOnly

\* The page of the release before is kept (mutant).
ChooseReleaseOnly ==
  /\ JarsShown /\ jars.open /\ ReleasesShown /= None
  /\ \E r \in ToSet(ReleasesShown) \cup {None} :
       r \notin Drafts /\ r /= jars.release /\ ShowJars([jars EXCEPT !.release = r])
  /\ UNCHANGED <<fileForm, picker>> /\ JarsOnly

ChooseRelease ==
  /\ JarsShown /\ jars.open /\ ReleasesShown /= None
  /\ \E r \in ToSet(ReleasesShown) \cup {None} :
       r \notin Drafts /\ r /= jars.release /\ ShowJars([jars EXCEPT !.release = r, !.assetPage = 1])
  /\ UNCHANGED <<fileForm, picker>> /\ JarsOnly

TurnReleases ==
  /\ JarsShown /\ jars.open /\ ReleasesShown /= None
  /\ \/ jars.page > 1 /\ ShowJars([jars EXCEPT !.page = @ - 1, !.release = None])
     \/ Full(ReleasesShown, PerPage) /\ ShowJars([jars EXCEPT !.page = @ + 1, !.release = None])
  /\ UNCHANGED <<fileForm, picker>> /\ JarsOnly

TurnJars ==
  /\ JarsShown /\ jars.open /\ JarsListed /= None
  /\ \/ jars.assetPage > 1 /\ ShowJars([jars EXCEPT !.assetPage = @ - 1])
     \/ Full(JarsListed, JarsPerPage) /\ ShowJars([jars EXCEPT !.assetPage = @ + 1])
  /\ UNCHANGED <<fileForm, picker>> /\ JarsOnly

ChooseJar ==
  /\ JarsShown /\ jars.open /\ JarsListed /= None
  /\ \E jar \in {t \in ToSet(JarsListed) : RuntimeBy[t] = "java"} :
       ChangeForm([fileForm EXCEPT !.jar = jar, !.path = [dir |-> JarsFolder, text |-> jar]])
  /\ ShowJars([jars EXCEPT !.open = FALSE]) /\ picker' = NewPicker("java") /\ byHand' = FALSE
  /\ UNCHANGED <<tree, catalog, browsed, published, pickErrors>>

\* Use repository file instead
UnpinJar ==
  /\ JarsShown /\ fileForm.jar /= None /\ ChangeForm([fileForm EXCEPT !.jar = None, !.path = NoText])
  /\ picker' = NewPicker("java") /\ UNCHANGED <<jars, lists>> /\ JarsOnly

(***************************************************************************)
(* The repository, and answers                                              *)
(***************************************************************************)
Pushed == tree' \in Trees \ {tree} /\ UNCHANGED <<fileForm, byHand, catalog, browsed, picker, published, jars, lists, picks, pickErrors>>

Published ==
  /\ published < Len(Releases) /\ published' = published + 1
  /\ UNCHANGED <<fileForm, byHand, tree, catalog, browsed, picker, jars, lists, picks, pickErrors>>

CatalogArrives ==
  /\ catalog' = [paths |-> tree, unavailable |-> FALSE]
  /\ UNCHANGED <<fileForm, byHand, tree, browsed, picker, published, jars, lists, picks, pickErrors>>

\* The request fails, or the server answers with a warning and no files.
CatalogFails ==
  /\ pickErrors < MaxPickErrors /\ pickErrors' = pickErrors + 1
  /\ \E left \in {catalog.paths, {}} : catalog' = [paths |-> left, unavailable |-> TRUE]
  /\ UNCHANGED <<fileForm, byHand, tree, browsed, picker, published, jars, lists, picks>>

PageIn(rows, page, size) == SubSeq(rows, (page - 1) * size + 1, IF page * size < Len(rows) THEN page * size ELSE Len(rows))

\* The newest release is the first of those published.
ListArrives ==
  /\ \E k \in DOMAIN lists :
       lists' = [lists EXCEPT ![k] =
                   IF k[1] = "releases" THEN PageIn(SubSeq(Releases, Len(Releases) - published + 1, Len(Releases)), k[3], PerPage)
                   ELSE PageIn(AssetsOf[k[2]], k[3], JarsPerPage)]
  /\ UNCHANGED <<fileForm, byHand, tree, catalog, browsed, picker, published, jars, picks, pickErrors>>

FilePickersNext ==
  \/ ChooseRuntime \/ TypePath \/ FocusPath \/ LeavePath \/ Arrow \/ ChooseSuggestion
  \/ Browse \/ NavigateUp \/ OpenFolder \/ SelectFile \/ SearchFolder \/ FilterFiles \/ UseSelected \/ CancelBrowse
  \/ BrowseJars \/ ChooseRelease \/ TurnReleases \/ TurnJars \/ ChooseJar \/ UnpinJar
  \/ Pushed \/ Published \/ CatalogArrives \/ CatalogFails \/ ListArrives

FilePickersSpec == FilePickersInit /\ [][FilePickersNext]_pickerVars

(***************************************************************************)
(* Properties                                                               *)
(***************************************************************************)
\* Shape of the state; a pinned JAR is the path of the form and is run by Java (changeForm).
PickersTypeOK ==
  /\ fileForm.runtime \in Runtimes /\ picker.filter \in Runtimes \cup {"all"} /\ picker.search \in Texts
  /\ picker.active > 0 => picker.suggest
  /\ fileForm.jar /= None => fileForm.runtime = "java" /\ fileForm.path = [dir |-> JarsFolder, text |-> fileForm.jar]

\* The file that would be used is one of the folder on show and of the type chosen for it,
\* through any walk, search and change of type (navigate and setFilter).
SelectedInFolder ==
  picker.selected /= None => picker.selected.dir = picker.directory /\ Passes(picker.selected.text, picker.filter)

\* The folder on show is one of the repository as it was when the browser came there,
\* whatever path had been typed (Browse).
BrowsedFolderExists ==
  picker.open /\ picker.directory /= <<>> => \E f \in browsed : IsPrefix(picker.directory, f.dir)

\* A file is run by the runtime its extension names, however its path was given: typed,
\* suggested, or browsed for among files of another type; unless the user then chose
\* another runtime (runtimeForPath).
RuntimeOfPath == RuntimeBy[fileForm.path.text] /= None /\ ~byHand => fileForm.runtime = RuntimeBy[fileForm.path.text]

\* The JARs to choose from are those of the release that is chosen, whichever were read before.
JarsOfRelease == JarsListed /= None => JarsListed = PageIn(AssetsOf[jars.release], jars.assetPage, JarsPerPage)

\* A release is never shown at a page of its assets behind its last one, but for the page that follows a
\* last one that is full (setAssetPage).
NoJarPageBeyond == jars.release /= None => (jars.assetPage - 1) * JarsPerPage <= Len(AssetsOf[jars.release])

\* What is picked is what the pickers show, from a place that exists, and fits the form.
PickedIsShown == PickersTypeOK /\ SelectedInFolder /\ BrowsedFolderExists /\ RuntimeOfPath /\ JarsOfRelease /\ NoJarPageBeyond
=============================================================================
