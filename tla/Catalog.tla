------------------------------- MODULE Catalog -------------------------------
(***************************************************************************)
(* The pages behind the key page: home, cosmetics, and the list of skins,  *)
(* which is generated page by page from the asset registry and the names   *)
(* of a web catalogue, searched, and clicked.  Every callback runs on the  *)
(* one thread of the user interface; what can vary is their order, and     *)
(* whether one comes before the page's own onload.                         *)
(***************************************************************************)
EXTENDS Session, Sequences

CONSTANTS
  Registry,  \* AssetRegistryState's buffers: records with id, skin and path
  NameOf,    \* by id: its name in the catalogue, or "Unknown"
  Filters,   \* what may be typed into the search box
  Matches,   \* by filter: the ids whose name, letters only, contains it
  PageSize   \* 254

Assets == {Registry[i] : i \in DOMAIN Registry}
Ids == {asset.id : asset \in Assets}
NoId == "none"

ASSUME CatalogAssumption ==
  /\ PageSize \in Nat \ {0}
  /\ Registry \in Seq(Assets)
  /\ \A asset \in Assets : asset.skin \in BOOLEAN
  /\ Ids \subseteq DOMAIN NameOf /\ NoId \notin Ids
  /\ DOMAIN Matches = Filters /\ "page" \notin Filters /\ "" \notin Filters

VARIABLES
  page,            \* the document that is open
  loaded,          \* its onload has run
  Tab,             \* FContext::Tab
  ItemsToDisplay,  \* FBaseGenerator::ItemsToDisplay
  container,       \* ids of the cards on the page
  modals,          \* the dialogs that are open
  currentId,       \* of itemManager
  hiding,          \* the dialog addLoadoutItem will hide when OnAddItem returns
  catalogue,       \* static answer of the catalogue request
  source,          \* history: what was displayed last: "page", or a filter
  early            \* history: a callback generated items before onload

document == <<page, loaded, container, modals, currentId, hiding>>
catalogVars == <<document, Tab, ItemsToDisplay, catalogue, source, early>>

CatalogTypeOK ==
  /\ page \in {"none", "home", "cosmetics", "items"}
  /\ loaded \in BOOLEAN /\ early \in BOOLEAN
  /\ Tab \in 0 .. Len(Registry)
  /\ ItemsToDisplay \in Seq(Ids) /\ container \in Seq(Ids)
  /\ modals \subseteq {"apply", "revert"} /\ hiding \in {"none", "apply", "revert"}
  /\ currentId \in Ids \cup {NoId}
  /\ catalogue \in {"none", "answered", "failed"}
  /\ source \in {"page"} \cup Filters

CatalogInit ==
  /\ page = "none" /\ loaded = FALSE /\ early = FALSE
  /\ Tab = 0 /\ ItemsToDisplay = <<>> /\ container = <<>>
  /\ modals = {} /\ hiding = "none" /\ currentId = NoId
  /\ catalogue = "none" /\ source = "page"

CatalogReset ==
  /\ page' = "none" /\ loaded' = FALSE /\ early' = FALSE
  /\ Tab' = 0 /\ ItemsToDisplay' = <<>> /\ container' = <<>>
  /\ modals' = {} /\ hiding' = "none" /\ currentId' = NoId
  /\ catalogue' = "none" /\ source' = "page"

-----------------------------------------------------------------------------
(***************************************************************************)
(* FSkinGenerator.  Skipping counts every asset of the class, a page holds *)
(* only named ones, so consecutive pages may overlap.  Nothing has a name  *)
(* when the catalogue could not be fetched.                                *)
(***************************************************************************)
\* The place of asset i among those of a set, and the ids of a set in its order.
Rank(assets, i) == Cardinality({j \in assets : j <= i})

IdsOf(assets) ==
  [n \in 1 .. Cardinality(assets) |-> Registry[CHOOSE i \in assets : Rank(assets, i) = n].id]

Skins == {i \in DOMAIN Registry : Registry[i].skin}

\* Those left when skipNum has been counted down.
SkinsFrom(tab) == {i \in Skins : Rank(Skins, i) > tab * PageSize}

HasName(i, answer) == answer = "answered" /\ NameOf[Registry[i].id] \notin {"Unknown", "null"}

Named(assets, answer) == {i \in assets : HasName(i, answer)}

FirstOf(assets, n) == {i \in assets : Rank(assets, i) <= n}

\* Wrong: the item that would have been the last is dropped at the break.
GetItemsShort(tab, answer) == IdsOf(FirstOf(Named(SkinsFrom(tab), answer), PageSize - 1))

GetItems(tab, answer) == IdsOf(FirstOf(Named(SkinsFrom(tab), answer), PageSize))

Searched(filter, answer) ==
  IdsOf({i \in Named(Skins, answer) : Registry[i].id \in Matches[filter]})

FilterItems(filter, tab) ==
  IF filter = "" THEN GetItems(tab, catalogue) ELSE Searched(filter, catalogue)

\* The first of that id: a name belongs to the id, so either all of them have one or
\* none, and a card has one.
GetItemById(id) ==
  LET Hits == {i \in Skins : Registry[i].id = id}
  IN  Registry[CHOOSE i \in Hits : \A j \in Hits : i <= j]

-----------------------------------------------------------------------------
(***************************************************************************)
(* Navigation.                                                             *)
(***************************************************************************)
Idle == stage = "Home" /\ hiding = "none"
Clickable(p) == Idle /\ page = p /\ modals = {}

SendToURL(url) ==
  /\ page' = url
  /\ loaded' = FALSE /\ container' = <<>> /\ modals' = {} /\ currentId' = NoId
  /\ UNCHANGED hiding

ShowHome ==
  /\ Idle /\ page \in {"none", "cosmetics"}
  /\ SendToURL("home")
  /\ UNCHANGED <<Tab, ItemsToDisplay, catalogue, source, early, sessionVars>>

ShowCosmetics ==
  /\ Clickable("home")
  /\ SendToURL("cosmetics")
  /\ UNCHANGED <<Tab, ItemsToDisplay, catalogue, source, early, sessionVars>>

\* OnResetTab, then the cosmetics page.
SendToHome ==
  /\ Clickable("items")
  /\ Tab' = 0
  /\ SendToURL("cosmetics")
  /\ UNCHANGED <<ItemsToDisplay, catalogue, source, early, sessionVars>>

\* The catalogue is asked for by the first GetItems of the process.
OnGenerateSkins(tab) ==
  /\ IF catalogue = "none" THEN catalogue' \in {"answered", "failed"}
                           ELSE UNCHANGED catalogue
  /\ ItemsToDisplay' = GetItems(tab, catalogue')

SendToSkins ==
  /\ Clickable("cosmetics")
  /\ OnGenerateSkins(Tab)
  /\ SendToURL("items")
  /\ source' = "page" /\ early' = FALSE
  /\ UNCHANGED <<Tab, sessionVars>>

-----------------------------------------------------------------------------
(***************************************************************************)
(* The list.  Displaying empties ItemsToDisplay.                           *)
(***************************************************************************)
\* Without a key the page shows one card that says so.
NoKeyCard == <<"No key found">>

\* Wrong: the card is shown when there is nothing else to show.
OnDisplayItemsOrCard(items) ==
  /\ container' = IF RuntimeKey = NoKey \/ items = <<>> THEN NoKeyCard ELSE items
  /\ ItemsToDisplay' = <<>>

OnDisplayItems(items) ==
  /\ container' = IF RuntimeKey = NoKey THEN NoKeyCard ELSE items
  /\ ItemsToDisplay' = <<>>

OnLoad ==
  /\ Idle /\ page = "items" /\ ~loaded
  /\ OnDisplayItems(ItemsToDisplay)
  /\ loaded' = TRUE
  /\ UNCHANGED <<page, modals, currentId, hiding, Tab, catalogue, source, early, sessionVars>>

Display(items, from) ==
  /\ OnDisplayItems(items)
  /\ source' = from
  /\ early' = ~loaded
  /\ UNCHANGED <<page, loaded, modals, currentId, hiding, catalogue, sessionVars>>

OnNextPage ==
  /\ Clickable("items")
  /\ LET items == GetItems(Tab + 1, catalogue) IN
       \/ /\ items # <<>>
          /\ Tab' = Tab + 1
          /\ Display(items, "page")
       \/ /\ items = <<>>
          /\ ItemsToDisplay' = <<>>
          /\ early' = (early \/ ~loaded)
          /\ UNCHANGED <<document, Tab, catalogue, source, sessionVars>>

\* Wrong: the page is turned back and the old items stay.
OnPreviousPageUndisplayed ==
  /\ Clickable("items")
  /\ Tab > 0
  /\ Tab' = Tab - 1
  /\ ItemsToDisplay' = GetItems(Tab - 1, catalogue)
  /\ UNCHANGED <<document, catalogue, source, early, sessionVars>>

OnPreviousPage ==
  /\ Clickable("items")
  /\ Tab > 0
  /\ Tab' = Tab - 1
  /\ Display(GetItems(Tab - 1, catalogue), "page")

OnSearch(filter) ==
  /\ Clickable("items")
  /\ Display(FilterItems(filter, Tab), IF filter = "" THEN "page" ELSE filter)
  /\ UNCHANGED Tab

-----------------------------------------------------------------------------
(***************************************************************************)
(* A card: the dialog asks for what the flag says a click will do.         *)
(***************************************************************************)
OnClick(id) ==
  /\ Clickable("items")
  /\ id \in {container[i] : i \in DOMAIN container}
  /\ currentId' = id
  /\ modals' = {IF FConfig.bHasSwappedSkin THEN "revert" ELSE "apply"}
  /\ UNCHANGED <<page, loaded, container, hiding, Tab, ItemsToDisplay, catalogue, source,
                 early, sessionVars>>

Cancel ==
  /\ Idle /\ modals # {}
  /\ modals' = {}
  /\ UNCHANGED <<page, loaded, container, currentId, hiding, Tab, ItemsToDisplay,
                 catalogue, source, early, sessionVars>>

\* Wrong: asked when OnAddItem has returned.
HideModalAsksAgain ==
  /\ stage = "Home" /\ hiding # "none"
  /\ modals' = modals \ {IF FConfig.bHasSwappedSkin THEN "revert" ELSE "apply"}
  /\ hiding' = "none"
  /\ UNCHANGED <<page, loaded, container, currentId, Tab, ItemsToDisplay, catalogue,
                 source, early, sessionVars>>

\* addLoadoutItem goes on when OnAddItem has returned.
HideModal ==
  /\ stage = "Home" /\ hiding # "none"
  /\ modals' = modals \ {hiding}
  /\ hiding' = "none"
  /\ UNCHANGED <<page, loaded, container, currentId, Tab, ItemsToDisplay, catalogue,
                 source, early, sessionVars>>

CatalogStep ==
  \/ ShowHome \/ ShowCosmetics \/ SendToHome \/ SendToSkins \/ OnLoad
  \/ OnNextPage \/ OnPreviousPage
  \/ \E filter \in Filters \cup {""} : OnSearch(filter)
  \/ \E id \in Ids : OnClick(id)
  \/ Cancel \/ HideModal

-----------------------------------------------------------------------------
(***************************************************************************)
(* Properties.                                                             *)
(***************************************************************************)

Pages == [tab \in 0 .. Len(Registry) |-> GetItems(tab, "answered")]

\* Going forward from the first page until nothing changes shows every named skin
\* (SkinGenerator.cpp:31-70, OnNextPage.ixx:12-44), although unnamed ones are
\* skipped with the page and not counted into it.
EverySkinListed ==
  catalogue = "answered" =>
    \A i \in Named(Skins, "answered") :
      \E tab \in DOMAIN Pages :
        /\ \E j \in DOMAIN Pages[tab] : Pages[tab][j] = Registry[i].id
        /\ \A before \in 0 .. tab : Pages[before] # <<>>

\* The cards belong to the page number that Next and Previous count from, or to the
\* last search, in whatever order pages were turned, searched and left; a page
\* number above zero has cards.  Not so when a callback came before onload, which
\* then displays what is left of ItemsToDisplay: nothing.
ContainerIsCurrent ==
  (page = "items" /\ loaded /\ ~early) =>
    /\ container = IF source = "page" THEN GetItems(Tab, catalogue) ELSE FilterItems(source, Tab)
    /\ Tab > 0 => GetItems(Tab, catalogue) # <<>>

\* An open dialog says what its button will do (itemManager.js:14-33,
\* OnIsItemConverted.ixx, PatchFortnite's own look at the flag).
DialogTellsTruth ==
  (stage = "Home" /\ hiding = "none" /\ modals # {}) =>
    modals = {IF FConfig.bHasSwappedSkin THEN "revert" ELSE "apply"}

=============================================================================
