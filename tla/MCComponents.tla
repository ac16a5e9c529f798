---------------------------- MODULE MCComponents ----------------------------
(* A small instance of every component for TLC. *)
EXTENDS Components, TLC

CONSTANTS
    p1, p2, p3,                            \* requests and import jobs
    alpha, beta, kappa, lambda, xi,        \* rows and names, as each component needs
    flour, sugar, cake, bread, sweet,      \* items, variants and a category
    mill, farm, india, usa,                \* suppliers and markets
    ann, bob, shop, cafe, eta, phi         \* people, organisations and emails

Two == {p1, p2}

(* No component tells one request or import job from another. *)
Same == Permutations(Two)

Expiries   == (kappa :> 1) @@ (None :> 9)
Currencies == [m \in {india, usa} |-> IF m = india THEN "INR" ELSE "USD"]

(* Mill offers flour, farm may come to; two lines of a body ask for it. *)
Offers   == {(mill :> (flour :> 1 @@ sugar :> 2)) @@ (farm :> (flour :> None @@ sugar :> 2))}
LineItem == [i \in {alpha, beta} |-> flour]

(* One item in two rows: with one batch, without stock, with a bad row. *)
ItemRow(terms, number, qty, readable) ==
    [name |-> alpha, terms |-> terms, batch |-> number, qty |-> qty, readable |-> readable]
ItemSheets == {
    <<ItemRow(1, kappa, 1, TRUE), ItemRow(2, kappa, 1, TRUE)>>,
    <<ItemRow(0, None, 1, TRUE), ItemRow(1, None, 0, TRUE)>>,
    <<ItemRow(2, kappa, 1, FALSE), ItemRow(1, kappa, 1, TRUE)>>}

(* The second row of the first file takes the variant of the first one to  *)
(* another product, by its SKU and under the same name; the second file    *)
(* has another variant of the first product and a row that cannot be read; *)
(* xi is tried when a SKU is taken.                                        *)
Base  == [n \in {alpha, beta} \X {alpha, beta} |-> IF n = <<alpha, alpha>> THEN kappa ELSE lambda]
ByRow == [k \in {kappa, lambda, xi} |-> [r \in 1..2 |-> xi]]
ProductRow(group, name, called, sku, readable) ==
    [category |-> group, name |-> name, called |-> called, sku |-> sku, readable |-> readable]
ProductSheets == {
    <<ProductRow(sweet, alpha, alpha, AutoSku, TRUE), ProductRow(None, beta, alpha, kappa, TRUE)>>,
    <<ProductRow(None, alpha, beta, AutoSku, TRUE), ProductRow(sweet, alpha, alpha, None, FALSE)>>}

(* Ann has two emails and two organisations, Bob one of her emails. *)
Identity(person, org, email) == [person |-> person, org |-> org, email |-> email]
Known == {Identity(ann, shop, eta), Identity(ann, shop, phi), Identity(bob, shop, phi),
          Identity(ann, cafe, eta)}

(* An event takes two units: of one row a unit is left, of the other none. *)
Wasted == (kappa :> 3) @@ (None :> 2)

(* Two rows of the first ingredient, the older one short of a recipe. *)
Formula == [n \in {alpha, beta} |-> (flour :> 2) @@ (sugar :> 1)]
Shelves == <<flour, flour, sugar>>
Filled  == <<1, 3, 2>>
=============================================================================
