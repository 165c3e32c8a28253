---------------------------- MODULE ProductImport ----------------------------
(***************************************************************************)
(* The products of a CSV file and the table they go to: service/           *)
(* product_import.go, run by the command cmd/importproducts or by POST     *)
(* /products/import, beside the administrator who creates, changes and     *)
(* deletes products (service/product_service.go, store/postgres/           *)
(* product_store.go), over the unique columns of migrations 004 and 010.   *)
(* An import makes its products one after the other, each in a transaction *)
(* of its own; it may fail on one, be killed on the way and be run again.  *)
(*                                                                         *)
(* A name, a code (SKU) and a slug are sequences of words: Slugify joins   *)
(* the words of its argument, so it is the identity on them; a name made   *)
(* of signs only has none.  Of a row of the file the model keeps the code, *)
(* the name, whether it is a line of an article, its size and color as one *)
(* cell and whether the table takes its stock, price and gender.           *)
(*                                                                         *)
(* NameOnly and NoIndex are used by no action: each is what a slip in the  *)
(* code would make of the definition that follows it.                      *)
(***************************************************************************)
EXTENDS Integers, Sequences, SequencesExt

CONSTANTS
  Files,     \* the files an administrator has, sequences of rows
  Imports,   \* runs of the import, each used once
  Names,     \* the names the administrator gives to products
  Codes,     \* the codes he gives them, << >> for NULL
  MaxEdits,  \* bound on what he does
  MaxFaults  \* bound on failing statements

VARIABLES
  file,    \* the articles parsed from the file that is imported
  shop,    \* the table products: a set of rows
  run,     \* local state of each import
  edits,   \* what the administrator has done so far
  faults,  \* statements failed so far
  strange, \* history: slugs that a product other than the file's had
  renamed, \* history: articles given another slug in the shop
  recoded, \* history: articles given another code, or none, in the shop
  removed  \* history: articles deleted from the shop

vars == <<file, shop, run, edits, faults, strange, renamed, recoded, removed>>

-----------------------------------------------------------------------------
(* parseProductsCSV: rows into articles. *)

Title == [code |-> <<"Code article">>, name |-> << >>, line |-> FALSE, cell |-> 0, ok |-> TRUE]

NewArticle(code) == [sku |-> code, name |-> << >>, cells |-> << >>, ok |-> TRUE]

\* The first name stands; every line adds its cell.
WithLine(article, row) ==
  [article EXCEPT !.name = IF @ = << >> THEN row.name ELSE @,
                  !.cells = Append(@, row.cell), !.ok = @ /\ row.ok]

ReadRow(articles, row) ==
  CASE row.code = Title.code -> articles
    [] row.line /\ articles = << >> -> <<WithLine(NewArticle(<< >>), row)>>
    [] row.line /\ articles # << >> -> ReplaceAt(articles, Len(articles), WithLine(Last(articles), row))
    [] ~row.line /\ row.code # << >> /\ row.code # Title.code -> Append(articles, NewArticle(row.code))
    [] OTHER -> articles

HasLines(article) == article.cells # << >>
Parse(rows) == SelectSeq(FoldLeft(ReadRow, << >>, rows), HasLines)

-----------------------------------------------------------------------------
(* uniqueSlug: a slug that this import has not used, whatever becomes of the article. *)

ProductName(article) == IF article.name = << >> THEN <<"produit", "homme">> ELSE article.name
Slugify(words) == SelectSeq(words, LAMBDA w : w # "*")
Base(article) ==
  LET candidates == <<Slugify(ProductName(article)), Slugify(article.sku), <<"produit">>>>
  IN  SelectSeq(candidates, LAMBDA words : words # << >>)[1]

NameOnly(article, used) == Base(article)
UniqueSlug(article, used) ==
  LET base == Base(article)
      withSku == base \o Slugify(article.sku)
      numbered == {i \in 2..(Len(used) + 2) : ~Contains(used, Append(base, ToString(i)))}
  IN  CASE ~Contains(used, base) -> base
        [] Contains(used, base) /\ ~Contains(used, withSku) -> withSku
        [] OTHER -> Append(base, ToString(CHOOSE i \in numbered : \A j \in numbered : i <= j))

\* What the rows above come to, as far as the theorems need it: a file is a sequence of
\* articles, a slug one of words, and different numbers are written differently.  The
\* module that has an instance of this one assumes it.
Words == Seq(STRING)
Article == [sku : Words, name : Words, cells : Seq(Nat), ok : BOOLEAN]
ImportAssumption ==
  /\ MaxEdits \in Nat /\ MaxFaults \in Nat
  /\ \A name \in Names : Slugify(name) \in Words
  /\ Codes \subseteq Words
  /\ \A rows \in Files :
       /\ Parse(rows) \in Seq(Article)
       /\ \A k \in 1..Len(Parse(rows)) : /\ Base(Parse(rows)[k]) \in Words
                                        /\ Slugify(Parse(rows)[k].sku) \in Words
       /\ \A i, j \in 2..(Len(Parse(rows)) + 2) :
            ToString(i) \in STRING /\ (ToString(i) = ToString(j) => i = j)

-----------------------------------------------------------------------------
(* The table: slug and code are unique, and so is a cell of a product. *)

Articles == 1..Len(file)

\* The slug an import has given to the k-th article; the same in every import.
SlugsOf(k) == {run[i].used[k] : i \in {j \in Imports : k \in 1..Len(run[j].used)}}
GetBySlug(slug) == {p \in shop : p.slug = slug}
NoIndex(sku, own) == FALSE
SkuTaken(sku, own) == sku # << >> /\ \E p \in shop \ own : p.sku = sku

\* A row may have this slug and this code beside all but its own.
Takes(slug, sku, own) == GetBySlug(slug) \subseteq own /\ ~SkuTaken(sku, own)

\* buildProduct hands every line to the transaction; a cell met twice or a value
\* that a CHECK refuses rolls the article back as a whole.
BuildProduct(k, slug) == [slug |-> slug, sku |-> file[k].sku, of |-> k]
Insertable(k, slug) == Takes(slug, file[k].sku, {}) /\ file[k].ok /\ IsInjective(file[k].cells)

Fault == faults < MaxFaults /\ faults' = faults + 1

-----------------------------------------------------------------------------
(* An import. *)

Refuse(i) == run' = [run EXCEPT ![i].at = "refused"]

\* The file is read and the categories are loaded, or the import ends here.
CategorySlugIndexFails(i) == Refuse(i) /\ Fault
ImportFromCSV(i) ==
  \/ run' = [run EXCEPT ![i].at = IF file = << >> THEN "done" ELSE "look"] /\ UNCHANGED faults
  \/ CategorySlugIndexFails(i)

\* POST /products/import refuses a form without a .csv.
ImportProducts(i) ==
  /\ run[i].at = "new"
  /\ (Refuse(i) /\ UNCHANGED faults) \/ ImportFromCSV(i)
  /\ UNCHANGED <<file, shop, edits, strange, renamed, recoded, removed>>

\* The command opens a file, which may not be there.
ImportFromFile(i) == (Refuse(i) /\ UNCHANGED faults) \/ ImportFromCSV(i)
Command(i) ==
  /\ run[i].at = "new"
  /\ ImportFromFile(i)
  /\ UNCHANGED <<file, shop, edits, strange, renamed, recoded, removed>>

\* The article is counted, and the next one looked up.
Count(i, field, used) ==
  LET k == run[i].k
  IN  run' = [run EXCEPT ![i][field] = @ + 1, ![i].k = @ + 1, ![i].used = used,
                         ![i].at = IF k = Len(file) THEN "done" ELSE "look"]

Look(i) ==
  LET k == run[i].k
      slug == UniqueSlug(file[k], run[i].used)
      used == Append(run[i].used, slug)
  IN  /\ run[i].at = "look"
      /\ \/ GetBySlug(slug) # {} /\ Count(i, "skipped", used) /\ UNCHANGED faults
         \/ GetBySlug(slug) = {} /\ run' = [run EXCEPT ![i].at = "create", ![i].used = used] /\ UNCHANGED faults
         \/ Count(i, "failed", used) /\ Fault
      /\ UNCHANGED <<file, shop, edits, strange, renamed, recoded, removed>>

\* The transaction commits and the product is read back: a failure of that last
\* statement counts the product as failed though it is there.
Create(i) ==
  LET k == run[i].k
      used == run[i].used
  IN  /\ run[i].at = "create"
      /\ \/ /\ Insertable(k, used[k])
            /\ shop' = shop \union {BuildProduct(k, used[k])}
            /\ \/ Count(i, "created", used) /\ UNCHANGED faults
               \/ Count(i, "failed", used) /\ Fault
         \/ ~Insertable(k, used[k]) /\ Count(i, "failed", used) /\ UNCHANGED <<shop, faults>>
         \/ Count(i, "failed", used) /\ Fault /\ UNCHANGED shop
      /\ UNCHANGED <<file, edits, strange, renamed, recoded, removed>>

\* The command is killed; of a request that its client left the statements fail.
Interrupt(i) ==
  /\ run[i].at \in {"look", "create"}
  /\ run' = [run EXCEPT ![i].at = "killed"]
  /\ UNCHANGED <<file, shop, edits, faults, strange, renamed, recoded, removed>>

-----------------------------------------------------------------------------
(* The administrator. *)

Edit == edits < MaxEdits /\ edits' = edits + 1

\* A slug that is not the file's for this product is strange from now on.
Settle(p) == IF p.slug \in SlugsOf(p.of) THEN strange ELSE strange \union {p.slug}

CreateProduct(name, sku) ==
  LET p == [slug |-> Slugify(name), sku |-> sku, of |-> 0]
  IN  /\ Edit
      /\ Takes(p.slug, p.sku, {})
      /\ shop' = shop \union {p}
      /\ strange' = Settle(p)
      /\ UNCHANGED <<file, run, faults, renamed, recoded, removed>>

\* Update writes the slug of the name it is given and, in the same statement, the code.
Rename(p, name, sku) ==
  LET q == [p EXCEPT !.slug = Slugify(name), !.sku = sku]
  IN  /\ Edit
      /\ Takes(q.slug, q.sku, {p})
      /\ shop' = (shop \ {p}) \union {q}
      /\ strange' = Settle(q)
      /\ renamed' = IF q.slug = p.slug THEN renamed ELSE renamed \union {p.of}
      /\ recoded' = IF q.sku = p.sku THEN recoded ELSE recoded \union {p.of}
      /\ UNCHANGED <<file, run, faults, removed>>

\* deleted_at is no gorm.DeletedAt: the row goes, and its slug and code are free.
Delete(p) ==
  /\ Edit
  /\ shop' = shop \ {p}
  /\ removed' = removed \union {p.of}
  /\ UNCHANGED <<file, run, faults, strange, renamed, recoded>>

-----------------------------------------------------------------------------
Idle == [at |-> "new", k |-> 1, used |-> << >>, created |-> 0, skipped |-> 0, failed |-> 0]

Init ==
  /\ \E rows \in Files : file = Parse(rows)
  /\ shop = {}
  /\ run = [i \in Imports |-> Idle]
  /\ edits = 0
  /\ faults = 0
  /\ strange = {}
  /\ renamed = {}
  /\ recoded = {}
  /\ removed = {}

Next ==
  \/ \E i \in Imports : ImportProducts(i) \/ Command(i) \/ Look(i) \/ Create(i) \/ Interrupt(i)
  \/ \E name \in Names, sku \in Codes :
       CreateProduct(name, sku) \/ \E p \in shop : Rename(p, name, sku)
  \/ \E p \in shop : Delete(p)

Spec == Init /\ [][Next]_vars

-----------------------------------------------------------------------------
\* Each variable has its type; what an import counted is what it went through.
TypeOK ==
  /\ \A p \in shop : p.of \in 0..Len(file)
  /\ \A p, q \in shop : p.slug = q.slug => p = q
  /\ edits \in 0..MaxEdits /\ faults \in 0..MaxFaults
  /\ renamed \subseteq 0..Len(file) /\ recoded \subseteq 0..Len(file) /\ removed \subseteq 0..Len(file)
  /\ \A i \in Imports :
       /\ run[i].at \in {"new", "refused", "look", "create", "killed", "done"}
       /\ run[i].created + run[i].skipped + run[i].failed = run[i].k - 1

\* An import that ends and counts no failure has left every article of the file
\* in the shop, whatever earlier runs failed on or were killed in, unless the
\* slug of the article was another product's or the article was deleted
\* (product_import.go:162-206: "idempotent", a slug that is there is skipped).
CleanImportComplete ==
  \A i \in Imports : run[i].at = "done" /\ run[i].failed = 0 =>
    \A k \in Articles :
      (\E p \in shop : p.of = k) \/ k \in removed \/ run[i].used[k] \in strange

\* However often and beside whom the file is imported, an article is in the shop
\* once, unless it was given another name there and has no code to be told by: the
\* file gives it none, or the form that renamed it or another one changed the code too.
NoTwin ==
  \A p, q \in shop : p.of = q.of /\ p.of # 0 /\ p # q =>
    p.of \in renamed /\ (file[p.of].sku = << >> \/ p.of \in recoded)
=============================================================================
