-------------------------- MODULE MCCommerceControls --------------------------
EXTENDS CommerceControls, TLC

CONSTANTS general, commander, soldier

\* The general commands the business's commander, who commands its soldier.
Chain == (general :> {}) @@ (commander :> {general}) @@ (soldier :> {general, commander})
=============================================================================
