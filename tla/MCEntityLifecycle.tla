-------------------------- MODULE MCEntityLifecycle --------------------------
EXTENDS EntityLifecycle, TLC

CONSTANTS parent, child

\* A command chain of two.
ParentOfChild == (parent :> {}) @@ (child :> {parent})
=============================================================================
