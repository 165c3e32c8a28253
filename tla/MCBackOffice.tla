------------------------------ MODULE MCBackOffice ------------------------------
(***************************************************************************)
(* The parts of the shop beside the orders, over tables or memory of their *)
(* own: the address book of a user, the accounts, the import of products,  *)
(* the categories, the listing of products, the overview of the            *)
(* administrators and the login through a provider.  They share no state;  *)
(* a behaviour is about one of them, its focus, while the others stand     *)
(* still.  Only the counters of the bounds and of the changes are common.  *)
(***************************************************************************)
EXTENDS AddressBook, Sequences, TLC

CONSTANTS
  Emails, RootEmail, MaxUsers, MaxTokens, MaxSessions,                \* Accounts
  Files, Names, Codes, Imports, MaxEdits,                             \* ProductImport, Categories
  Groups, GroupOf, Scoped, OwnSlugs, Starts, MaxRows,                 \* Categories
  Kinds, ParentOf, MaxShelf, MaxChanges,                              \* ProductList, Dashboard
  Windows, Chosen, Subjects, Short, StateTTL, DefaultTTL, SessionTTL, \* Gatekeeper
  LongestTTL, Lifetimes, MaxSeconds, MaxReloads,
  MethodOf, Zone, MaxHalfDays, Days, SparkDays                                 \* Dashboard

VARIABLES
  focus, edits, stirred,
  users, tokens, sessions, call, shaky,
  file, shop, run, strange, renamed, recoded, removed,
  table, rows, start, calm,
  shelf, filters, walk,
  config, seconds, states, logins, window, fresh,
  orders, halfDay, overview, out

-----------------------------------------------------------------------------
(* The data of the instances. *)

\* Files with a name used twice, the same code twice, articles of no name, of no
\* code and of neither, a cell met twice and a value the table refuses.
Line(name, cell) == [code |-> << >>, name |-> name, line |-> TRUE, cell |-> cell, ok |-> TRUE]
Sku(c) == [code |-> <<c>>, name |-> << >>, line |-> FALSE, cell |-> 0, ok |-> TRUE]
Blank == [code |-> << >>, name |-> << >>, line |-> FALSE, cell |-> 0, ok |-> TRUE]
Title == [Blank EXCEPT !.code = <<"Code article">>]
MCFiles == {
  <<Title, Sku("a"), Line(<<"chemise">>, 1), Line(<<"chemise">>, 2), Blank, Sku("b"), Line(<<"chemise">>, 1)>>,
  <<Title, Line(<<"chemise">>, 1), Sku("b"), Line(<<"chemise">>, 1)>>,
  <<Title, Sku("b"), Line(<<"chemise">>, 1), Sku("b"), Line(<<"chemise">>, 2)>>,
  <<Title, Sku("c"), Sku("a"), Line(<<"*">>, 1), Blank, Line(<<"*">>, 1)>>,
  <<Title, Sku("*"), Line(<<"*">>, 1), Sku("a"), [Line(<< >>, 1) EXCEPT !.ok = FALSE]>>}
MCNames == {<<"chemise">>, <<"chemise", "b">>}
MCCodes == {<< >>, <<"b">>}

MCGroupOf == [robes |-> "vetements", jeans |-> "vetements"]

Plain == [category |-> "none", active |-> TRUE, new |-> TRUE, sale |-> FALSE, hit |-> FALSE, featured |-> TRUE,
          price |-> 1]
MCKinds == {
  Plain,
  [Plain EXCEPT !.active = FALSE],
  [Plain EXCEPT !.category = "robes", !.hit = TRUE, !.featured = FALSE],
  [Plain EXCEPT !.category = "vetements", !.new = FALSE, !.sale = TRUE, !.hit = TRUE, !.price = 2]}
MCParentOf == [robes |-> "vetements"]

MCMethodOf == <<"cod", "card">>

\* No requests differ, of the address book and the accounts, and no windows.
MCSymmetry == Permutations(Requests) \union Permutations(Windows)

-----------------------------------------------------------------------------
Account == INSTANCE AccountsProofs
Import == INSTANCE ProductImport
Taxonomy == INSTANCE Categories WITH born <- rows
Listing == INSTANCE ProductList WITH MaxEdits <- MaxChanges
Login == INSTANCE GatekeeperProofs WITH MaxClock <- MaxSeconds, clock <- seconds, sessions <- logins
Stats == INSTANCE Dashboard WITH MaxClock <- MaxHalfDays, clock <- halfDay, MaxEdits <- MaxChanges

\* What the theorems assume of the constants of these parts.
ASSUME BackOfficeAssumption ==
  /\ Account!AccountsAssumption /\ Login!GatekeeperAssumption
  /\ Taxonomy!CategoriesAssumption /\ Import!ImportAssumption /\ Listing!ProductListAssumption
  /\ Stats!DashboardAssumption

bookVars == <<book, born, request, lapsed>>
accountVars == <<users, tokens, sessions, call, shaky>>
importVars == <<file, shop, run, strange, renamed, recoded, removed>>
taxonomyVars == <<table, rows, start, calm>>
listingVars == <<shelf, filters, walk>>
loginVars == <<config, seconds, states, logins, window, fresh>>
statsVars == <<orders, halfDay, overview, out>>
officeVars == <<focus, faults, edits, stirred, bookVars, accountVars, importVars, taxonomyVars,
                listingVars, loginVars, statsVars>>

\* A part that is not in focus has one initial state.
OfficeInit ==
  /\ focus \in {"listing", "stats", "account", "import", "book", "taxonomy", "login"}
  /\ Listing!Init /\ (focus # "listing" => shelf = << >> /\ filters = CHOOSE f \in Listing!Filters : TRUE)
  /\ Stats!Init /\ (focus # "stats" => orders[1] = [at |-> 0, status |-> "cancelled"])
  /\ Account!Init /\ (focus # "account" => Account!IssuedTokens = {})
  /\ Import!Init /\ (focus # "import" => file = Import!Parse(CHOOSE f \in Files : TRUE))
  /\ Init /\ (focus # "book" => born = 0)
  /\ Taxonomy!Init
  /\ Login!Init

OfficeNext ==
  /\ UNCHANGED focus
  /\ \/ /\ focus = "book" /\ Next
        /\ UNCHANGED <<edits, stirred, accountVars, importVars, taxonomyVars, listingVars, loginVars, statsVars>>
     \/ /\ focus = "account" /\ Account!Next
        /\ UNCHANGED <<edits, stirred, bookVars, importVars, taxonomyVars, listingVars, loginVars, statsVars>>
     \/ /\ focus = "import" /\ Import!Next
        /\ UNCHANGED <<stirred, bookVars, accountVars, taxonomyVars, listingVars, loginVars, statsVars>>
     \/ /\ focus = "taxonomy" /\ Taxonomy!Next
        /\ UNCHANGED <<stirred, bookVars, accountVars, importVars, listingVars, loginVars, statsVars>>
     \/ /\ focus = "listing" /\ Listing!Next
        /\ UNCHANGED <<faults, bookVars, accountVars, importVars, taxonomyVars, loginVars, statsVars>>
     \/ /\ focus = "login" /\ Login!Next
        /\ UNCHANGED <<faults, edits, stirred, bookVars, accountVars, importVars, taxonomyVars, listingVars,
                       statsVars>>
     \/ /\ focus = "stats" /\ Stats!Next
        /\ UNCHANGED <<bookVars, accountVars, importVars, taxonomyVars, listingVars, loginVars>>

OfficeSpec == OfficeInit /\ [][OfficeNext]_officeVars

-----------------------------------------------------------------------------
(* Every variable has the type its module gives it. *)
OfficeTypeOK ==
  CASE focus = "book" -> TypeOK
    [] focus = "account" -> Account!TypeOK
    [] focus = "import" -> Import!TypeOK
    [] focus = "taxonomy" -> Taxonomy!TypeOK
    [] focus = "listing" -> Listing!TypeOK
    [] focus = "login" -> Login!TypeOK
    [] focus = "stats" -> Stats!TypeOK

(* An account joined to an OAuth provider stays joined (Accounts!LinkKept). *)
LinkKept == Account!LinkKept

(* A mailed token is used once (Accounts!TokenSpentOnce). *)
TokenSpentOnce == Account!TokenSpentOnce

(* A session claims nothing its account does not have (Accounts!ClaimsCovered). *)
ClaimsCovered == Account!ClaimsCovered

(* Only a sign-up leaves an account nobody can log in to (Accounts!HalfMadeIsExplained). *)
HalfMadeIsExplained == Account!HalfMadeIsExplained

(* An import without failure left every article in the shop (ProductImport!CleanImportComplete). *)
CleanImportComplete == Import!CleanImportComplete

(* An article is in the shop once (ProductImport!NoTwin). *)
NoTwin == Import!NoTwin

(* A start that seeded left the default taxonomy there (Categories!TaxonomyThere). *)
TaxonomyThere == Taxonomy!TaxonomyThere

(* The pages show every product that matches (ProductList!WalkSeesAll). *)
WalkSeesAll == Listing!WalkSeesAll

(* A session answers its own login, once (Gatekeeper!OwnLogin). *)
OwnLogin == Login!OwnLogin

(* No request is let in when its cookie is older than the life of a session (Gatekeeper!WithinTTL). *)
WithinTTL == Login!WithinTTL

(* The sections of an overview agree (Dashboard!SectionsAgree). *)
SectionsAgree == Stats!SectionsAgree

===============================================================================
