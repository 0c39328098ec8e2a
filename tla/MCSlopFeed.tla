----------------------------- MODULE MCSlopFeed -----------------------------
(* An instance of the pipeline.  A feed is generated from the popular names  *)
(* of two ecosystems.  One name is the plural of one seed and then, less     *)
(* likely, an omission in another; one is both an omission in a seed and     *)
(* its singular; one is a composition and then obvious; two are seeds        *)
(* themselves.  One typo is left out by its quota, one composition by the    *)
(* limit, and one composition is too unlikely to assert.  By hand, a second  *)
(* spelling of a generated name is added, or an entry whose risk is not a    *)
(* number.  Two keys; a consumer that requires signatures and one that       *)
(* checks those it finds.                                                    *)
EXTENDS Generation

CONSTANTS strict, lenient, k1, k2

\* By ecosystem, then by name.
Listing ==
  <<"axio", "axios", "vite", "vites", "vitest",
    "easy-requests", "fast-requests", "flask", "request", "requests",
    "requests--async", "requests-async", "rrequests">>

TheNames == Range(Listing)
TheOrder == [n \in TheNames |-> CHOOSE i \in DOMAIN Listing : Listing[i] = n]
TheNormal == [n \in TheNames |-> IF n = "requests--async" THEN "requests-async" ELSE n]
TheRisks == {NaN} \cup (10 .. 1000)
Entry(name, risk) == [name |-> name, risk |-> risk]
TheHandmade == {Entry("requests--async", 600), Entry("flask", NaN)}
ThePinned == [c \in Consumers |-> k1]

Variant(name, kind) == [name |-> name, kind |-> kind]
Composition(name, sub) == [name |-> name, sub |-> sub]

TheSeeds == << <<"request", "requests">>, <<"vite", "axios", "vitest">> >>
TheVariants ==
  [request |-> <<Variant("requests", "plural")>>,
   requests |-> <<Variant("request", "omit"), Variant("rrequests", "first"),
                  Variant("request", "plural")>>,
   vite |-> <<Variant("vites", "plural")>>,
   axios |-> <<Variant("axio", "omit"), Variant("axio", "plural")>>,
   vitest |-> <<Variant("vites", "omit")>>]
TheCompositions ==
  [stem \in Seeds |->
     IF stem = "requests"
     THEN <<Composition("requests-async", "suffix"), Composition("fast-requests", "prefix"),
            Composition("easy-requests", "prefix")>>
     ELSE <<>>]
TheObvious == <<"requests-async">>
TheQuota == [obvious |-> 1, typo |-> 2, composition |-> 2]
=============================================================================
