------------------------------ MODULE PxaTable -------------------------------
(***************************************************************************)
(* The table of pxaregs as the recipe builds it: regs[] with the rows its  *)
(* patches add and without the boards the recipe does not define.  A       *)
(* register is a row for its whole word, followed by a row per field.      *)
(*                                                                         *)
(* Fields are written <<suffix, shift, width>>: the name of the row is the *)
(* register's, an underscore and the suffix, the mask has `width' bits.    *)
(***************************************************************************)
EXTENDS Naturals, Sequences, TLC

Row(n, a, s, w) == [name |-> n, addr |-> a, shift |-> s, mask |-> 0..(w - 1)]

MutantNamed(n, p, a, fields) ==
    [k \in DOMAIN fields |-> Row(p \o "_" \o fields[k][1], a, fields[k][2], fields[k][3])]
    \o <<Row(n, a, 0, 32)>>

(* n's own row, and its fields, which are called after p *)
Named(n, p, a, fields) ==
    <<Row(n, a, 0, 32)>> \o
    [k \in DOMAIN fields |-> Row(p \o "_" \o fields[k][1], a, fields[k][2], fields[k][3])]
Register(n, a, fields) == Named(n, n, a, fields)

(* Fields lo..hi of `width' bits, and one-bit fields, side by side *)
Numbered(prefix, lo, hi, shift, width) ==
    [k \in 1..(hi - lo + 1) |->
        <<prefix \o ToString(lo + k - 1), shift + width * (k - 1), width>>]
Flags(shift, names) == [k \in DOMAIN names |-> <<names[k], shift + k - 1, 1>>]
Flag(shift, name) == <<<<name, shift, 1>>>>

(* Registers without fields, at consecutive addresses *)
Plain(a, names) == [k \in DOMAIN names |-> Row(names[k], a + 4 * (k - 1), 0, 32)]

-----------------------------------------------------------------------------
I2C ==
    Register("IBMR", \h40301680, Flags(0, <<"SDAS", "SCLS">>)) \o
    Register("IDBR", \h40301688, <<<<"IDB", 0, 8>>>>) \o
    Register("ICR", \h40301690,
        Flags(0, <<"START", "STOP", "ACKNAK", "TB", "MA", "SCLE", "IUE", "GCD",
                   "ITEIE", "IRFIE", "BEIE", "SSDIE", "ALDIE", "SADIE", "UR", "FM">>)) \o
    Register("ISR", \h40301698,
        Flags(0, <<"RWM", "ACKNAK", "UB", "IBB", "SSD", "ALD", "ITE", "IRF", "GCAD",
                   "SAD", "BED">>)) \o
    Register("ISAR", \h403016a0, <<<<"SA", 0, 7>>>>)

(* usb.patch *)
UsbPort2 ==
    Register("UP2OCR", \h40600020,
        <<<<"SEOS", 24, 3>>, <<"HXOE", 17, 1>>, <<"HXS", 16, 1>>, <<"IDON", 10, 1>>>>)
(* serial.patch *)
HwUart == <<Row("HW_MCR", \h41600010, 0, 32), Row("HW_MSR", \h41600018, 0, 32)>>

PowerControl ==
    Register("PMCR", \h40f00000, Flag(0, "IDAE")) \o
    Register("PSSR", \h40f00004, Flags(0, <<"SSS", "BFS", "VFS">>) \o Flags(4, <<"PH", "RDH">>)) \o
    Plain(\h40f00008, <<"PSPR">>) \o
    Register("PWER", \h40f0000c, Numbered("WE", 0, 15, 0, 1) \o Flag(31, "WERTC")) \o
    Register("PRER", \h40f00010, Numbered("RE", 0, 15, 0, 1)) \o
    Register("PFER", \h40f00014, Numbered("FE", 0, 15, 0, 1)) \o
    Register("PEDR", \h40f00018, Numbered("ED", 0, 15, 0, 1)) \o
    Register("PCFR", \h40f0001c, Flags(0, <<"OPDE", "FP", "FS">>))
SleepState ==
    Named("PGSR0", "PGSR", \h40f00020, Numbered("SS", 0, 31, 0, 1)) \o
    Named("PGSR1", "PGSR", \h40f00024, Numbered("SS", 32, 63, 0, 1)) \o
    Named("PGSR2", "PGSR", \h40f00028, Numbered("SS", 64, 80, 0, 1)) \o
    Register("RCSR", \h40f00030, Flags(0, <<"HWR", "WDR", "SMR", "GFR">>)) \o
    Register("PMFW", \h40f00034, Flag(1, "FWAKE"))

Clocks ==
    Register("CCCR", \h41300000, <<<<"L", 0, 5>>, <<"M", 5, 2>>, <<"N", 7, 3>>>>) \o
    Register("CKEN", \h41300004,
        Numbered("", 0, 3, 0, 1) \o Numbered("", 5, 8, 5, 1) \o
        Numbered("", 11, 14, 11, 1) \o Numbered("", 16, 16, 16, 1)) \o
    Register("OSCC", \h41300008, Flags(0, <<"OOK", "OON">>))

-----------------------------------------------------------------------------
(* A bit a pin: 85 pins in three registers, named after register and pin *)
Pins0(n, a) == Register(n \o "0", a, Numbered("", 0, 31, 0, 1))
Pins1(n, a) == Register(n \o "1", a + 4, Numbered("", 32, 63, 0, 1))
Pins2(n, a) == Register(n \o "2", a + 8, Numbered("", 64, 84, 0, 1))
Pins(n, a) == Pins0(n, a) \o Pins1(n, a) \o Pins2(n, a)

GPLR0 == Pins0("GPLR", \h40e00000)
GPLR1 == Pins1("GPLR", \h40e00000)
GPLR2 == Pins2("GPLR", \h40e00000)
GPDR == Pins("GPDR", \h40e0000c)
GPSR == Pins("GPSR", \h40e00018)
GPCR == Pins("GPCR", \h40e00024)
GRER == Pins("GRER", \h40e00030)
GFER == Pins("GFER", \h40e0003c)
GEDR == Pins("GEDR", \h40e00048)

(* Two bits a pin *)
GAFR ==
    Register("GAFR0L", \h40e00054, Numbered("", 0, 15, 0, 2)) \o
    Register("GAFR0U", \h40e00058, Numbered("", 16, 31, 0, 2)) \o
    Register("GAFR1L", \h40e0005c, Numbered("", 32, 47, 0, 2)) \o
    Register("GAFR1U", \h40e00060, Numbered("", 48, 63, 0, 2)) \o
    Register("GAFR2L", \h40e00064, Numbered("", 64, 79, 0, 2)) \o
    Register("GAFR2U", \h40e00068, Numbered("", 80, 84, 0, 2))

-----------------------------------------------------------------------------
(* The interrupt sources: bits 7..14 and 17..31 *)
Sources(prefix) == Numbered(prefix, 7, 14, 7, 1) \o Numbered(prefix, 17, 31, 17, 1)
Interrupts ==
    Register("ICMR", \h40d00004, Sources("IM")) \o
    Register("ICLR", \h40d00008, Sources("IL")) \o
    Register("ICCR", \h40d00014, Flag(8, "DIM")) \o
    Plain(\h40d00000, <<"ICIP">>) \o Plain(\h40d0000c, <<"ICFP">>) \o
    Register("ICPR", \h40d00010, Sources("IS"))

RealTimeClock ==
    Register("RTTR", \h4090000c, <<<<"CK_DIV", 0, 16>>, <<"DEL", 16, 10>>, <<"LCK", 31, 1>>>>) \o
    Register("RTAR", \h40900010, <<<<"RTMV", 0, 32>>>>) \o
    Register("RCNR", \h40900000, <<<<"RCV", 0, 32>>>>) \o
    Register("RTSR", \h40900008, Flags(0, <<"AL", "HZ", "ALE", "HZE">>))
OsTimer ==
    Plain(\h40a00000, <<"OSMR0", "OSMR1", "OSMR2", "OSMR3">>) \o
    Register("OIER", \h40a0001c, Numbered("E", 0, 3, 0, 1)) \o
    Register("OWER", \h40a00018, Flag(0, "WME")) \o
    Register("OSCR", \h40a00010, <<<<"OSCV", 0, 32>>>>) \o
    Register("OSSR", \h40a00014, Numbered("M", 0, 3, 0, 1))

(* PRESCALE is given six bits, the last of them SD's. *)
Modulator(n, a) ==
    Register("PWMCTL" \o n, a, <<<<"PRESCALE", 0, 6>>, <<"SD", 5, 1>>>>) \o
    Register("PWMDUTY" \o n, a + 4, <<<<"DCYCLE", 0, 10>>, <<"FDCYCLE", 10, 1>>>>) \o
    Register("PWMPERVAL" \o n, a + 8, <<<<"PV", 0, 10>>>>)
PulseWidth == Modulator("0", \h40b00000) \o Modulator("1", \h40c00000)

-----------------------------------------------------------------------------
LcdControl ==
    Register("LCCR0", \h44000000,
        Flags(0, <<"ENB", "CMS", "SDS", "LDM", "SFM", "IUM", "EFM", "PAS">>) \o
        Flags(9, <<"DPD", "DIS", "QDM">>) \o <<<<"PDD", 12, 8>>>> \o Flags(20, <<"BM", "OUM">>)) \o
    Register("LCCR1", \h44000004,
        <<<<"PPL", 0, 10>>, <<"HSW", 10, 6>>, <<"ELW", 16, 8>>, <<"BLW", 24, 8>>>>) \o
    Register("LCCR2", \h44000008,
        <<<<"LPP", 0, 10>>, <<"VSW", 10, 6>>, <<"EFW", 16, 8>>, <<"BFW", 24, 8>>>>) \o
    Register("LCCR3", \h4400000c,
        <<<<"PCD", 0, 8>>, <<"ACB", 8, 8>>, <<"API", 16, 4>>>> \o
        Flags(20, <<"VSP", "HSP", "PCP", "OEP">>) \o <<<<"BPP", 24, 3>>, <<"DPC", 27, 3>>>>)
(* FBR1 is given the address of FBR0. *)
FrameBuffers == <<Row("FBR0", \h44000020, 0, 32), Row("FBR1", \h44000020, 0, 32)>>
LcdStatus ==
    Plain(\h44000038, <<"LCSR", "LIIDR">>) \o
    Register("TRGBBR", \h44000040, <<<<"TRS", 0, 8>>, <<"TGS", 8, 8>>, <<"TBS", 16, 8>>>>) \o
    Register("TCR", \h44000044,
        Flags(0, <<"COAM", "FNAM", "COAE", "FNAME">>) \o
        <<<<"TVBS", 4, 4>>, <<"THBS", 8, 4>>, <<"TED", 14, 1>>>>) \o
    Plain(\h44000200, <<"FDADR0", "FSADR0", "FIDR0", "LDCMD0">>) \o
    Plain(\h44000210, <<"FDADR1", "FSADR1", "FIDR1", "LDCMD1">>)

-----------------------------------------------------------------------------
(* Partitions 2d and 2d + 1 of the dynamic memory, from bit s on *)
Dynamic(d, e, s) ==
    Flags(s, <<"DE" \o d, "DE" \o e, "DWID" \o d>>) \o
    <<<<"DCAC" \o d, s + 3, 2>>, <<"DRAC" \o d, s + 5, 2>>, <<"DNB" \o d, s + 7, 1>>,
      <<"DTC" \o d, s + 8, 2>>>> \o
    Flags(s + 10, <<"DADDR" \o d, "DLATCH" \o d, "DSA1111" \o d>>)
Synchronous(d, e, s) ==
    Flags(s, <<"SXEN" \o d, "SXEN" \o e>>) \o
    <<<<"SXCL" \o d, s + 2, 3>>, <<"SXRL" \o d, s + 5, 3>>, <<"SXRA" \o d, s + 8, 2>>,
      <<"SXCA" \o d, s + 10, 2>>, <<"SXTP" \o d, s + 12, 2>>, <<"SXLATCH" \o d, s + 14, 1>>>>
Mode(d, s) == <<<<"MDBL" \o d, s, 3>>, <<"MDADD" \o d, s + 3, 1>>, <<"MDCL" \o d, s + 4, 3>>,
                <<"MDMRS" \o d, s + 7, 8>>>>
(* A bank of static memory, and the timing of a card slot *)
Static(c, s) ==
    <<<<"RT" \o c, s, 3>>, <<"RBW" \o c, s + 3, 1>>, <<"RDF" \o c, s + 4, 4>>,
      <<"RDN" \o c, s + 8, 4>>, <<"RRR" \o c, s + 12, 3>>, <<"RBUFF" \o c, s + 15, 1>>>>
Slot(n, a) == Register(n, a, <<<<"SET", 0, 7>>, <<"ASST", 7, 5>>, <<"HOLD", 14, 6>>>>)

MutantDynamicMemory ==
    Register("MDCNFG", \h48000000, Dynamic("0", "1", 0) \o Dynamic("2", "3", 12))
DynamicMemory ==
    Register("MDCNFG", \h48000000, Dynamic("0", "1", 0) \o Dynamic("2", "3", 16)) \o
    Register("MDREFR", \h48000004,
        <<<<"DRI", 0, 12>>>> \o
        Flags(12, <<"E0PIN", "K0RUN", "K0DB2", "E1PIN", "K1RUN", "K1DB2", "K2RUN", "K2DB2",
                    "APD">>) \o
        Flags(22, <<"SLFRSH", "K0FREE", "K1FREE", "K2FREE">>))
StaticMemory ==
    Register("MSC0", \h48000008, Static("0", 0) \o Static("1", 16)) \o
    Register("MSC1", \h4800000c, Static("2", 0) \o Static("3", 16)) \o
    Register("MSC2", \h48000010, Static("4", 0) \o Static("5", 16)) \o
    Register("MECR", \h48000014, Flags(0, <<"NOS", "CIT">>)) \o
    Register("SXCNFG", \h4800001c, Synchronous("0", "1", 0) \o Synchronous("2", "3", 16)) \o
    Plain(\h48000024, <<"SXMRS">>)
Slots ==
    Slot("MCMEM0", \h48000028) \o Slot("MCMEM1", \h4800002c) \o
    Slot("MCATT0", \h48000030) \o Slot("MCATT1", \h48000034) \o
    Slot("MCIO0", \h48000038) \o Slot("MCIO1", \h4800003c) \o
    Register("MDMRS", \h48000040, Mode("0", 0) \o Mode("2", 16)) \o
    Register("BOOTDEF", \h48000044, <<<<"BOOTSEL", 0, 3>>, <<"PKGTYPE", 3, 1>>>>) \o
    Plain(\h48000058, <<"MDMRSLP">>)

-----------------------------------------------------------------------------
Card ==
    Plain(\h41100000, <<"MMC_STRPCL">>) \o
    Register("MMC_STAT", \h41100004,
        Flags(0, <<"READ_TIME_OUT", "TIME_OUT_RESP", "CRC_WRITE_ERROR", "CRC_READ_ERR",
                   "SPI_READ_ERR_TKN", "RES_CRC_ERR", "XMIT_FIFO_EMPTY", "RECV_FIFO_EMPTY",
                   "CLK_EN">>) \o
        Flags(11, <<"DATA_TRAN_DONE", "PRG_DONE", "END_CMD_RES">>)) \o
    Named("MMC_CLKRT", "MMC_CLK", \h41100008, <<<<"RATE", 0, 3>>>>) \o
    Register("MMC_SPI", \h4110000c, Flags(0, <<"EN", "CRC_ON", "CS_EN", "CS_ADDRESS">>)) \o
    Register("MMC_CMDAT", \h41100010,
        <<<<"RF", 0, 2>>>> \o Flags(2, <<"DATA_EN", "WRITE", "STREAM", "BUSY", "INIT", "DMA_EN">>)) \o
    Register("MMC_RESTO", \h41100014, <<<<"TO", 0, 7>>>>) \o
    Register("MMC_RDTO", \h41100018, <<<<"TO", 0, 16>>>>) \o
    Register("MMC_BLKLEN", \h4110001c, <<<<"LEN", 0, 10>>>>) \o
    Register("MMC_NOB", \h41100020, <<<<"N", 0, 16>>>>) \o
    Register("MMC_PRTBUF", \h41100024, Flag(0, "FULL"))
CardRequests == Flags(0, <<"DATATRAN", "PRGDONE", "ENDCMD", "STOPCMD", "CLOCKOFF", "RXFIFO", "TXFIFO">>)
CardInterrupts ==
    Register("MMC_IMASK", \h41100028, CardRequests) \o
    Register("MMC_IREG", \h4110002c, CardRequests) \o
    Register("MMC_CMD", \h41100030, <<<<"INDEX", 0, 6>>>>) \o
    Register("MMC_ARGH", \h41100034, <<<<"ARG", 0, 16>>>>) \o
    Register("MMC_ARGL", \h41100038, <<<<"ARG", 0, 16>>>>)

RegTable ==
    I2C \o UsbPort2 \o HwUart \o PowerControl \o SleepState \o Clocks \o
    GPLR0 \o GPLR1 \o GPLR2 \o GPDR \o GPSR \o GPCR \o GRER \o GFER \o GEDR \o GAFR \o
    Interrupts \o RealTimeClock \o OsTimer \o PulseWidth \o
    LcdControl \o FrameBuffers \o LcdStatus \o
    DynamicMemory \o StaticMemory \o Slots \o Card \o CardInterrupts
=============================================================================
