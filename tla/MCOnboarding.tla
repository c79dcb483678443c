----------------------------- MODULE MCOnboarding -----------------------------
EXTENDS Onboarding
=============================================================================
