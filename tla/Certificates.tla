------------------------------ MODULE Certificates ------------------------------
(***************************************************************************)
(* The S/MIME side of a message: which certificates smime.go and             *)
(* setupSMIMEConfig of mailer.go choose for its recipients, and when they    *)
(* refuse.  A certificate is its content; files are read in the order given, *)
(* directories in the order of their names.                                  *)
(***************************************************************************)
EXTENDS Naturals, Sequences

CONSTANTS Addresses,  \* lower case, as the index has them
          Certs,
          Subjects,   \* the addresses of a certificate: rfc822Name and mailto: URIs
          InDate,     \* the certificates within NotBefore and NotAfter
          KeyUsage,   \* its key usage; the empty set when it states none
          Broken      \* a file that is not there or holds no certificate

ASSUME CertAssumption ==
  /\ Subjects \in [Certs -> SUBSET Addresses]
  /\ InDate \subseteq Certs
  /\ KeyUsage \in [Certs -> SUBSET {"digitalSignature", "keyEncipherment", "keyAgreement"}]
  /\ Broken \notin Certs

\* The S/MIME fields of EmailParams.  A signer is the certificate that comes with a
\* private key or PKCS#12 bundle, Broken if one of its files cannot be loaded, and
\* "none" unless both parts are given.
SMIME == [sign : BOOLEAN, encrypt : BOOLEAN,
          signer : Certs \cup {Broken, "none"},
          certFiles : Seq(Certs \cup {Broken}),
          certDir : Seq(Certs \cup {Broken})]

ValidForSigning(c) ==
  c \in InDate /\ (KeyUsage[c] = {} \/ "digitalSignature" \in KeyUsage[c])

ValidForEncryption(c) ==
  c \in InDate /\ (KeyUsage[c] = {} \/ KeyUsage[c] \cap {"keyEncipherment", "keyAgreement"} # {})

Among(list) == {list[k] : k \in DOMAIN list}

\* Files that hold no certificate are passed over.
LoadCertificatesFromDir(files) == SelectSeq(files, LAMBDA f : f \in Certs)

\* The places in a list of certificates with one for this address.
PlacesOf(certs, a) == {k \in DOMAIN certs : a \in Subjects[certs[k]]}

\* A later certificate takes the place of an earlier one.
BuildCertIndex(certs) ==
  [a \in {b \in Addresses : PlacesOf(certs, b) # {}} |->
     certs[CHOOSE k \in PlacesOf(certs, a) : \A l \in PlacesOf(certs, a) : l <= k]]

\* The certificates the index has for a list of recipients.
CertsFor(index, recipients) ==
  LET known == SelectSeq(recipients, LAMBDA a : a \in DOMAIN index)
  IN  [k \in DOMAIN known |-> index[known[k]]]

\* The named certificates, then those of the directory for To and Cc.
RecipientCerts(s, recipients) ==
  s.certFiles \o CertsFor(BuildCertIndex(LoadCertificatesFromDir(s.certDir)), recipients)

SignerFails(s) ==
  \/ s.signer = Broken
  \/ s.sign /\ (s.signer = "none" \/ ~ValidForSigning(s.signer))

\* Variant: one certificate is taken to be enough.
SomeoneCovered(s, recipients) ==
  \/ Broken \in Among(s.certFiles)
  \/ s.encrypt /\ RecipientCerts(s, recipients) = <<>>

\* An unreadable named certificate, or one of the recipients without any.
RecipientsFail(s, recipients) ==
  \/ Broken \in Among(s.certFiles)
  \/ /\ s.encrypt
     /\ ~(Among(recipients) \subseteq DOMAIN BuildCertIndex(RecipientCerts(s, recipients)))

\* Each certificate of the list must be usable, whoever it is for.
EncryptionFails(certs) == certs = <<>> \/ \E c \in Among(certs) : ~ValidForEncryption(c)

=============================================================================
