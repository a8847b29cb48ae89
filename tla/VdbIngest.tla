----------------------------- MODULE VdbIngest ------------------------------
(***************************************************************************)
(* The vulnerability database: from feeds to a signed bundle file          *)
(* (avmp/ingest.py, avmp/vdb.py) and from the file into the vdb table      *)
(* (avmp/store.py).  Processes import side by side with each other, with   *)
(* a courier who puts bundles in place of the file, and with whoever reads *)
(* the table.  Signatures are taken to be unforgeable.                     *)
(***************************************************************************)
EXTENDS Scoring

CONSTANTS
  Importers,      \* processes that import
  CveOrder,       \* the CVE ids, sorted
  Releases,       \* the releases of the feeds, in the order they came out
  Installed,      \* the release the table was imported from at first, or 0
  Delivered,      \* the bundles the courier may bring: [release, form, created]
  StrangeEntries, \* what a bundle may say of a CVE that nobody signed
  StrangeDates,   \*   and the dates it may put beside that
  MaxOperations   \* bound on the imports, deliveries and other calls begun

Cves == {CveOrder[i] : i \in DOMAIN CveOrder}

(* Nothing asks whether a number is in scale.                              *)
Numbers == Int \ {NoScore}
VdbEntry == [cvss : Numbers, epss : Numbers, kev : BOOLEAN]

(* A CVE id (or "") and a number (or NoScore for what float() refuses).    *)
Line == [cve : Cves \cup {""}, number : Int]

(* kev, epss, cvss: the lines of the feeds.  date: last_updated of the     *)
(* entries, created: created_at of the manifest (0 for none, and for the   *)
(* default 1970).  odd: a CVE whose entry has a field VdbEntry does not    *)
(* know, or "none".                                                        *)
ASSUME ReleasesAssumption ==
  /\ CveOrder \in Seq(Cves)
  /\ Releases \in Seq([kev : Seq(Cves \cup {""}), epss : Seq(Line), cvss : Seq(Line),
                       date : Nat, created : Nat, odd : Cves \cup {"none"}])
  /\ Releases # <<>>
  /\ StrangeEntries \subseteq VdbEntry
  /\ StrangeDates \subseteq Nat
  /\ MaxOperations \in Nat

VARIABLES
  file,        \* the bundle file: whose release, in what form, and since
               \*   when, as its manifest says
  rows,        \* rows[c]: the vdb row of CVE c, or NoRow
  import,      \* import[i]: the call of process i
  last,        \* history: the release imported whole with no row written
               \*   by others since its import began to write, or 0
  swapped,     \* history: a file changed between the two reads of a call
  operations   \* how many calls were begun, for the bound

vdbVars == <<file, rows, import, last, swapped, operations>>

-----------------------------------------------------------------------------
(* From the feeds to the payload of a bundle.                              *)

(* Slip: what float() refuses is taken for a number.                       *)
ParseScoresUnchecked(feed) ==
  LET lastOf(c) == Max({i \in DOMAIN feed : feed[i].cve = c})
  IN [c \in {feed[i].cve : i \in DOMAIN feed} \ {""} |-> feed[lastOf(c)].number]

(* parse_epss, parse_cvss: the last readable line of a CVE.                *)
ParseScores(feed) ==
  LET good == {i \in DOMAIN feed : feed[i].cve # "" /\ feed[i].number # NoScore}
      lastOf(c) == Max({i \in good : feed[i].cve = c})
  IN [c \in {feed[i].cve : i \in good} |-> feed[lastOf(c)].number]

ParseKev(feed) == {feed[i] : i \in DOMAIN feed} \ {""}

(* build_entries: a CVE of any feed, with zeros for the other feeds.       *)
BuildEntry(c, kev, epss, cvss) ==
  [cvss |-> IF c \in DOMAIN cvss THEN cvss[c] ELSE 0,
   epss |-> IF c \in DOMAIN epss THEN epss[c] ELSE 0,
   kev  |-> c \in kev]

Entries ==
  [n \in DOMAIN Releases |->
   LET kev == ParseKev(Releases[n].kev)
       epss == ParseScores(Releases[n].epss)
       cvss == ParseScores(Releases[n].cvss)
   IN [c \in kev \cup DOMAIN epss \cup DOMAIN cvss |-> BuildEntry(c, kev, epss, cvss)]]

(* The payload's items, by their places in the order they are imported.    *)
Payload ==
  [n \in DOMAIN Releases |-> {k \in DOMAIN CveOrder : CveOrder[k] \in DOMAIN Entries[n]}]

(* The payload of a "whole" bundle is a release, signed with our key;      *)
(* "foreign" is signed with another, "altered" does not match its hash,    *)
(* "cut" is a file someone is still writing.  Neither hash nor signature   *)
(* covers the manifest, so created may differ from the release's in any.   *)
Forms == {"whole", "foreign", "altered", "cut"}
Bundle == [release : DOMAIN Releases, form : Forms, created : Nat]

Exported(n, form) == [release |-> n, form |-> form, created |-> Releases[n].created]

(* The odd entry is one of the release's, and a release that says nothing  *)
(* has no date.                                                            *)
ASSUME BundlesAssumption ==
  /\ \A n \in DOMAIN Releases :
       /\ Releases[n].odd \in DOMAIN Entries[n] \cup {"none"}
       /\ DOMAIN Entries[n] = {} => Releases[n].date = 0
  /\ Installed \in {0} \cup {n \in DOMAIN Releases : Releases[n].odd = "none"}
  /\ Delivered \subseteq Bundle

NoRow == [entry |-> NoEntry, date |-> 0, from |-> "nothing"]

(* The entries a reader of the table finds.                                *)
Ingested == [c \in Cves |-> rows[c].entry]

(* Store.vdb_latest_update; None is 0.                                     *)
LatestUpdate == Max({0} \cup {rows[c].date : c \in Cves})

-----------------------------------------------------------------------------
(* An import, statement by statement.                                      *)

(* bundle: the file as it was read to be loaded, or <<>>.  left: the       *)
(* places of the items of a whole bundle still to come.  alone: history,   *)
(* nobody else has written a row since this import began to.               *)
Idle == [pc |-> "idle", release |-> 0, bundle |-> <<>>, left |-> {}, verified |-> <<>>, alone |-> TRUE]

(* entry.last_updated or created_at of the manifest at hand.               *)
DateOf(n, created) == IF Releases[n].date # 0 THEN Releases[n].date ELSE created

Row(b, c) == [entry |-> Entries[b.release][c], date |-> DateOf(b.release, b.created), from |-> b.form]

(* A database that has nothing but one release, or nothing at all.         *)
VdbInit ==
  /\ file = Exported(1, "whole")
  /\ last = Installed
  /\ rows = [c \in Cves |->
       IF last # 0 /\ c \in DOMAIN Entries[last] THEN Row(Exported(last, "whole"), c) ELSE NoRow]
  /\ import = [i \in Importers |-> Idle]
  /\ swapped = FALSE
  /\ operations = 0

Goto(i, pc) == import' = [import EXCEPT ![i].pc = pc]
Leave(i) == import' = [import EXCEPT ![i] = Idle]

Begin == operations < MaxOperations /\ operations' = operations + 1

(* ingest_offline on the file that is there, or ingest_feeds on release n. *)
BeginImport(i) ==
  /\ import[i].pc = "idle"
  /\ Begin
  /\ \/ Goto(i, "verify")
     \/ \E n \in DOMAIN Releases :
          /\ Releases[n].odd = "none"
          /\ import' = [import EXCEPT ![i].pc = "export", ![i].release = n]
  /\ UNCHANGED <<file, rows, last, swapped>>

(* export_bundle: write_text truncates the file and then writes it.        *)
OpenBundle(i) ==
  /\ import[i].pc = "export"
  /\ file' = Exported(import[i].release, "cut")
  /\ Goto(i, "write")
  /\ UNCHANGED <<rows, last, swapped, operations>>

WriteBundle(i) ==
  /\ import[i].pc = "write"
  /\ file' = Exported(import[i].release, "whole")
  /\ Goto(i, "verify")
  /\ UNCHANGED <<rows, last, swapped, operations>>

(* Slip: the hash is compared, the signature is not.                       *)
VerifyBundleHash(i) ==
  /\ import[i].pc = "verify"
  /\ IF file.form \in {"whole", "foreign"}
     THEN import' = [import EXCEPT ![i].pc = "load", ![i].verified = <<file>>]
     ELSE Leave(i)
  /\ UNCHANGED <<file, rows, last, swapped, operations>>

(* verify_bundle raises unless the payload is one we signed; it does not   *)
(* ask who wrote the manifest.                                             *)
VerifyBundle(i) ==
  /\ import[i].pc = "verify"
  /\ IF file.form = "whole"
     THEN import' = [import EXCEPT ![i].pc = "load", ![i].verified = <<file>>]
     ELSE Leave(i)
  /\ UNCHANGED <<file, rows, last, swapped, operations>>

(* The file is read again; it need not be the one that was verified.       *)
LoadBundle(i) ==
  /\ import[i].pc = "load"
  /\ IF file.form = "cut" THEN Leave(i)
     ELSE import' = [import EXCEPT ![i] =
            [pc |-> "rows", release |-> file.release, bundle |-> <<file>>,
             left |-> IF file.form = "whole" THEN Payload[file.release] ELSE {},
             verified |-> <<>>, alone |-> TRUE]]
  /\ swapped' = (swapped \/ <<file>> # import[i].verified)
  /\ UNCHANGED <<file, rows, last, operations>>

Loaded(i) == import[i].bundle[1]
Item(i) == CveOrder[Min(import[i].left)]
HasItem(i) == import[i].pc = "rows" /\ import[i].left # {}

(* A bundle that was not the one verified may hold anything.               *)
Strange(i) == import[i].pc = "rows" /\ Loaded(i).form # "whole"

(* After a write of i no other import can be said to stand alone.          *)
Written(i, left) ==
  /\ import' = [j \in Importers |->
       IF j = i THEN [import[j] EXCEPT !.left = left] ELSE [import[j] EXCEPT !.alone = FALSE]]
  /\ last' = 0
  /\ UNCHANGED <<file, swapped, operations>>

PutRow(i, row) ==
  /\ HasItem(i)
  /\ Releases[import[i].release].odd # Item(i)
  /\ rows' = [rows EXCEPT ![Item(i)] = row]
  /\ Written(i, import[i].left \ {Min(import[i].left)})

(* Slip: on conflict the entry is updated and its date is not.             *)
UpsertRowKeepingDate(i) ==
  PutRow(i, LET row == Row(Loaded(i), Item(i))
            IN IF rows[Item(i)] = NoRow THEN row ELSE [row EXCEPT !.date = rows[Item(i)].date])

(* Store.upsert_vdb_entry, committed row by row.                           *)
UpsertRow(i) == PutRow(i, Row(Loaded(i), Item(i)))

(* The same for an item of a strange bundle: any CVE, entry and date.      *)
UpsertStrangeRow(i) ==
  /\ Strange(i)
  /\ \E c \in Cves, entry \in StrangeEntries, date \in StrangeDates :
       rows' = [rows EXCEPT ![c] = [entry |-> entry, date |-> date, from |-> Loaded(i).form]]
  /\ Written(i, {})

(* Slip: an entry that does not parse is passed over.                      *)
RefuseRowQuietly(i) ==
  /\ HasItem(i)
  /\ Releases[import[i].release].odd = Item(i)
  /\ import' = [import EXCEPT ![i].left = @ \ {Min(@)}]
  /\ UNCHANGED <<file, rows, last, swapped, operations>>

(* The constructor of VdbEntry raises; the rows before it stay.            *)
RefuseRow(i) ==
  /\ Strange(i) \/ (HasItem(i) /\ Releases[import[i].release].odd = Item(i))
  /\ Leave(i)
  /\ UNCHANGED <<file, rows, last, swapped, operations>>

(* ingest_offline returns the count.                                       *)
EndImport(i) ==
  /\ import[i].pc = "rows" /\ ~HasItem(i)
  /\ last' = IF import[i].alone /\ ~Strange(i) THEN import[i].release ELSE last
  /\ Leave(i)
  /\ UNCHANGED <<file, rows, swapped, operations>>

(* The process dies: what it wrote stays.                                  *)
DieImporting(i) ==
  /\ import[i].pc # "idle"
  /\ Leave(i)
  /\ UNCHANGED <<file, rows, last, swapped, operations>>

(* Another bundle is put in place, sound or not.                           *)
Deliver ==
  /\ Begin
  /\ file' \in Delivered
  /\ UNCHANGED <<rows, import, last, swapped>>

ImportStep(i) ==
  \/ OpenBundle(i) \/ WriteBundle(i) \/ VerifyBundle(i) \/ LoadBundle(i)
  \/ UpsertRow(i) \/ UpsertStrangeRow(i) \/ RefuseRow(i) \/ EndImport(i)

VdbNext ==
  \/ \E i \in Importers : BeginImport(i) \/ ImportStep(i) \/ DieImporting(i)
  \/ Deliver

VdbSpec == VdbInit /\ [][VdbNext]_vdbVars

-----------------------------------------------------------------------------
(* Properties of the database on its own.                                  *)

VdbTypeOK ==
  /\ file \in Bundle
  /\ \A c \in Cves : rows[c] # NoRow => rows[c].entry \in VdbEntry /\ rows[c].date \in Nat
  /\ \A i \in Importers : import[i].pc \in {"idle", "export", "write", "verify", "load", "rows"}
  /\ last \in {0} \cup DOMAIN Releases

(* "Fails closed on bad signature/hash" (ingest.py:121): no row comes from *)
(* an altered or foreign bundle.  Only as long as no file is replaced      *)
(* between being verified and being loaded.                                *)
ImportFailsClosed == ~swapped => \A c \in Cves : rows[c].from \in {"nothing", "whole"}

(* An import that returned, alone, left every entry of its bundle in the   *)
(* table; one that raised or died half way is never taken for whole.       *)
ReturnedImportIsWhole ==
  last # 0 =>
    /\ Releases[last].odd = "none"
    /\ \A c \in DOMAIN Entries[last] : rows[c].entry = Entries[last][c]

(* The dates a row of release n may have: the release's own, or where it   *)
(* has none what a manifest around its bundle says.                        *)
DatesOf(n) ==
  IF Releases[n].date # 0 THEN {Releases[n].date}
  ELSE {Releases[n].created} \cup {b.created : b \in {d \in Delivered : d.release = n /\ d.form = "whole"}}

(* Every row of a signed payload is the entry of a release, with that      *)
(* release's date beside it, however imports overlap, fail, are handed     *)
(* other bundles or go back to an older release.  The date the executive   *)
(* summary shows (reporting.py:118) is never older than the release last   *)
(* imported whole, and is that release's when it says something of every   *)
(* CVE in the table.                                                       *)
ProvenanceIsTrue ==
  /\ \A c \in Cves : rows[c].from = "whole" =>
       \E n \in DOMAIN Releases :
         /\ c \in DOMAIN Entries[n]
         /\ rows[c].entry = Entries[n][c] /\ rows[c].date \in DatesOf(n)
  /\ last # 0 =>
       /\ LatestUpdate >= Releases[last].date
       /\ {c \in Cves : rows[c] # NoRow} \subseteq DOMAIN Entries[last] => LatestUpdate \in {0} \cup DatesOf(last)

(* What the table holds was released with that date, and the release last  *)
(* imported whole is there whole.                                          *)
DatabaseIsTrue == ReturnedImportIsWhole /\ ProvenanceIsTrue

=============================================================================
