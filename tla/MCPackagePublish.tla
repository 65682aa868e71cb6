-------------------------- MODULE MCPackagePublish --------------------------
(* Small instances of PackagePublish: two builds of version 2, and one of  *)
(* a lower and one of a higher version.                                    *)
EXTENDS PackagePublish, TLC

CONSTANTS b1, b2, b3, b4, whl, sdist

TwoInTheMiddle == (b1 :> 1) @@ (b2 :> 2) @@ (b3 :> 2) @@ (b4 :> 3)

=============================================================================
